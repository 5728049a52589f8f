---------------------------- MODULE ServiceProofs -----------------------------
(***************************************************************************)
(* The server as a whole, for every value of the constants.  It implements *)
(* the safety part of Service: whatever the loop, the buffers and the      *)
(* descriptors do, a step shows at the other end of a connection as a step *)
(* of Service or not at all.  And it is type correct: what the sockets,    *)
(* the clients and the buffers between them hold, and how much of it.      *)
(***************************************************************************)
EXTENDS ServerProofs

-----------------------------------------------------------------------------
(* The links of Service.                                                   *)

Links == {"none", "open", "ending", "closed"}

LEMMA RankValues ==
  /\ Promise!Rank("none") = 0 /\ Promise!Rank("open") = 1
  /\ Promise!Rank("ending") = 2 /\ Promise!Rank("closed") = 3
BY DEF Promise!Rank

\* No step leads back.
Onward(c) ==
  \/ Link(c)' = Link(c)
  \/ Link(c) = "none"
  \/ Link(c) = "open" /\ Link(c)' \in {"ending", "closed"}
  \/ Link(c) = "ending" /\ Link(c)' = "closed"

\* A step in which nothing is asked, executed or received.
LEMMA OnlyLinks ==
  ASSUME UNCHANGED executed,
         \A c \in Conns : /\ sock'[c].sent = sock[c].sent
                          /\ sock'[c].received = sock[c].received
                          /\ Onward(c)
  PROVE  [Promise!Next]_(Promise!svars)
<1>1. \A c \in Conns : Link(c) \in Links /\ Link(c)' \in Links
  BY DEF Link, Links
<1>2. \A c \in Conns :
        Link(c)' # Link(c) => Promise!Rank(Link(c)') > Promise!Rank(Link(c))
  BY <1>1, RankValues DEF Onward, Links
<1>3. PICK l, l2 : l = [c \in Conns |-> Link(c)] /\ l2 = [c \in Conns |-> Link(c)']
  OBVIOUS
<1>4. /\ l2 \in [Conns -> {"none", "open", "ending", "closed"}]
      /\ \A c \in Conns : l2[c] # l[c] => Promise!Rank(l2[c]) > Promise!Rank(l[c])
  BY <1>1, <1>2, <1>3 DEF Links
<1>5. /\ [c \in Conns |-> sock'[c].sent \div RequestUnits]
           = [c \in Conns |-> sock[c].sent \div RequestUnits]
      /\ [c \in Conns |-> sock'[c].received] = [c \in Conns |-> sock[c].received]
  OBVIOUS
<1>6. Promise!Relink
  BY <1>3, <1>4, <1>5 DEF Promise!Relink
<1> QED
  BY <1>6 DEF Promise!Next

\* A step that changes neither phases nor faults, requests sent or replies received.
LEMMA NothingShows ==
  ASSUME UNCHANGED executed,
         \A c \in Conns : /\ sock'[c].phase = sock[c].phase /\ sock'[c].sent = sock[c].sent
                          /\ sock'[c].received = sock[c].received
                          /\ sock'[c].garbage = sock[c].garbage
                          /\ sock'[c].fin = sock[c].fin /\ sock'[c].rst = sock[c].rst
  PROVE  [Promise!Next]_(Promise!svars)
<1>1. \A c \in Conns : Link(c)' = Link(c)
  BY DEF Link, Faulty
<1> QED
  BY <1>1, OnlyLinks DEF Onward

\* A step that closes connections which were waiting or accepted.
LEMMA ClosingShows ==
  ASSUME UNCHANGED executed, SocketsGood,
         \A c \in Conns : \/ sock'[c] = sock[c]
                          \/ sock'[c] = Closed(sock[c]) /\ sock[c].phase # "closed"
  PROVE  [Promise!Next]_(Promise!svars)
<1>1. ASSUME NEW c \in Conns
      PROVE  /\ sock'[c].sent = sock[c].sent /\ sock'[c].received = sock[c].received
             /\ Onward(c)
  <2>1. CASE sock'[c] = sock[c]
    BY <2>1 DEF Onward, Link, Faulty
  <2>2. CASE sock'[c] = Closed(sock[c]) /\ sock[c].phase # "closed"
    <3>1. sock[c] \in SocketRec
      BY DEF SocketsGood, GoodSocket
    <3>2. /\ sock'[c].sent = sock[c].sent /\ sock'[c].received = sock[c].received
          /\ sock'[c].phase = "closed"
      BY <2>2, <3>1 DEF Closed, SocketRec
    <3>3. Link(c)' = "closed" /\ Link(c) \in {"none", "open", "ending"}
      BY <2>2, <3>2 DEF Link
    <3> QED
      BY <3>2, <3>3 DEF Onward
  <2> QED
    BY <2>1, <2>2
<1> QED
  BY <1>1, OnlyLinks

-----------------------------------------------------------------------------
(* The peers.                                                              *)

LEMMA ConnectShows ==
  ASSUME IInv, NEW c \in Conns, Connect(c), UNCHANGED executed
  PROVE  [Promise!Next]_(Promise!svars)
<1>1. /\ sock[c].phase = "new"
      /\ \A x \in Conns : x # c => sock'[x] = sock[x]
      /\ sock'[c] = [sock[c] EXCEPT !.phase = "waiting"]
  BY DEF Connect, IInv, SocketsInv
<1>2. sock'[c].sent = sock[c].sent /\ sock'[c].received = sock[c].received
  BY <1>1
<1>3. ASSUME NEW x \in Conns
      PROVE  /\ sock'[x].sent = sock[x].sent /\ sock'[x].received = sock[x].received
             /\ Onward(x)
  <2>1. CASE x # c
    BY <1>1, <2>1 DEF Onward, Link, Faulty
  <2>2. CASE x = c
    <3>1. Link(c)' = Link(c)
      BY <1>1 DEF Link, Faulty, IInv, SocketsInv
    <3> QED
      BY <1>2, <2>2, <3>1 DEF Onward
  <2> QED
    BY <2>1, <2>2
<1> QED
  BY <1>3, OnlyLinks

LEMMA FaultShows ==
  ASSUME IInv, RepliesInv, NEW c \in Conns, PeerFault(c), UNCHANGED executed
  PROVE  [Promise!Next]_(Promise!svars)
<1>1. PICK s \in {[sock[c] EXCEPT !.garbage = TRUE], [sock[c] EXCEPT !.fin = TRUE],
                  [sock[c] EXCEPT !.rst = TRUE, !.sendq = <<>>]} :
        \A x \in Conns : sock'[x] = IF x = c THEN s ELSE sock[x]
  BY DEF PeerFault, IInv, SocketsInv
<1>2. sock[c] \in SocketRec
  BY DEF RepliesInv, SocketsGood, GoodSocket
<1>3. /\ s.sent = sock[c].sent /\ s.received = sock[c].received /\ s.phase = sock[c].phase
      /\ s.garbage \/ s.fin \/ s.rst
  BY <1>1, <1>2 DEF SocketRec
<1>4. sock[c].phase \in {"waiting", "accepted"} /\ ~Faulty(c)
  BY DEF PeerFault, Talking, Faulty
<1>5. ASSUME NEW x \in Conns
      PROVE  /\ sock'[x].sent = sock[x].sent /\ sock'[x].received = sock[x].received
             /\ Onward(x)
  <2>1. CASE x # c
    BY <1>1, <2>1 DEF Onward, Link, Faulty
  <2>2. CASE x = c
    <3>1. Link(c) \in {"none", "open"} /\ Link(c)' = "ending"
      BY <1>1, <1>3, <1>4 DEF Link, Faulty
    <3> QED
      BY <1>1, <1>3, <2>2, <3>1 DEF Onward
  <2> QED
    BY <2>1, <2>2
<1> QED
  BY <1>5, OnlyLinks

\* Every RequestUnits-th unit completes a request.
LEMMA SendShows ==
  ASSUME IInv, RepliesInv, NEW c \in Conns, PeerSend(c), UNCHANGED executed
  PROVE  [Promise!Next]_(Promise!svars)
<1>1. /\ sock[c] \in SocketRec /\ sock[c].sent \in Nat /\ RequestUnits \in Nat \ {0}
  BY SocketsAssumption DEF RepliesInv, SocketsGood, GoodSocket, SocketRec, SocketsAssumption
<1>2. PICK s : s = [sock[c] EXCEPT !.sent = @ + 1, !.unread = @ + 1]
  OBVIOUS
<1>3. \A x \in Conns : sock'[x] = IF x = c THEN s ELSE sock[x]
  BY <1>2 DEF PeerSend, IInv, SocketsInv
<1>4. /\ s.sent = sock[c].sent + 1 /\ s.received = sock[c].received /\ s.phase = sock[c].phase
      /\ s.garbage = sock[c].garbage /\ s.fin = sock[c].fin /\ s.rst = sock[c].rst
  BY <1>1, <1>2 DEF SocketRec
<1>5. \A x \in Conns : /\ Link(x)' = Link(x) /\ sock'[x].received = sock[x].received
                       /\ x # c => sock'[x].sent = sock[x].sent
  BY <1>3, <1>4 DEF Link, Faulty
<1>6. PICK q \in Nat, r \in 0..(RequestUnits - 1) :
        /\ sock[c].sent = q * RequestUnits + r
        /\ sock[c].sent \div RequestUnits = q
  BY <1>1, Euclid
<1>7. sock'[c].sent = q * RequestUnits + r + 1
  BY <1>1, <1>3, <1>4, <1>6
<1>8. sock'[c].sent \div RequestUnits \in {q, q + 1}
  <2>1. PICK y \in Nat : y = sock'[c].sent
    BY <1>1, <1>3, <1>4
  <2>2. PICK q2 \in Nat, r2 \in 0..(RequestUnits - 1) :
          y = q2 * RequestUnits + r2 /\ y \div RequestUnits = q2
    BY <1>1, Euclid
  <2>3. CASE r + 1 < RequestUnits
    <3>1. PICK r1 \in 0..(RequestUnits - 1) : /\ r1 = r + 1
                                              /\ q * RequestUnits + r1 = q2 * RequestUnits + r2
      BY <1>1, <1>6, <1>7, <2>1, <2>2, <2>3
    <3>2. q \in Int /\ q2 \in Int /\ r2 \in 0..(RequestUnits - 1) /\ RequestUnits \in Nat \ {0}
      BY <1>1, <1>6, <2>2
    <3>3. q = q2
      BY <3>1, <3>2, DivisionUnique
    <3> QED
      BY <2>1, <2>2, <3>3
  <2>4. CASE r + 1 = RequestUnits
    <3>1. 0 \in 0..(RequestUnits - 1) /\ (q + 1) * RequestUnits + 0 = q2 * RequestUnits + r2
      BY <1>1, <1>6, <1>7, <2>1, <2>2, <2>4
    <3>2. PICK q1 \in Int : q1 = q + 1
      BY <1>6
    <3>3. q1 * RequestUnits + 0 = q2 * RequestUnits + r2
      BY <3>1, <3>2
    <3>4. q1 = q2
      BY <1>1, <2>2, <3>1, <3>2, <3>3, DivisionUnique
    <3> QED
      BY <2>1, <2>2, <3>2, <3>4
  <2> QED
    BY <1>1, <1>6, <2>3, <2>4
<1>9. PICK a, a2 : /\ a = [x \in Conns |-> sock[x].sent \div RequestUnits]
                   /\ a2 = [x \in Conns |-> sock'[x].sent \div RequestUnits]
  OBVIOUS
<1>10. /\ a2 = [a EXCEPT ![c] = sock'[c].sent \div RequestUnits]
       /\ a[c] = q
  BY <1>5, <1>6, <1>9
<1>11. /\ [x \in Conns |-> Link(x)'] = [x \in Conns |-> Link(x)]
       /\ [x \in Conns |-> sock'[x].received] = [x \in Conns |-> sock[x].received]
  BY <1>5
<1>12. Link(c) \in {"none", "open"}
  BY DEF PeerSend, Talking, Link, Faulty
<1>13. CASE sock'[c].sent \div RequestUnits = q
  <2>1. a2 = a
    BY <1>9, <1>10, <1>13
  <2> QED
    BY <1>9, <1>11, <2>1 DEF Promise!svars
<1>14. CASE sock'[c].sent \div RequestUnits = q + 1
  <2>1. a2 = [a EXCEPT ![c] = @ + 1]
    BY <1>10, <1>14
  <2>2. Promise!Ask(c)
    BY <1>9, <1>11, <1>12, <2>1 DEF Promise!Ask
  <2> QED
    BY <2>2 DEF Promise!Next
<1> QED
  BY <1>8, <1>13, <1>14

\* The unit that arrives is the one that follows those received.
LEMMA ReceiveShows ==
  ASSUME IInv, RepliesInv, NEW c \in Conns, PeerReceive(c), UNCHANGED executed
  PROVE  [Promise!Next]_(Promise!svars)
<1>1. PICK s, r, q, n : s = sock[c] /\ r = s.received /\ q = s.sendq /\ n = executed[c]
  OBVIOUS
<1>2. /\ s \in SocketRec /\ n \in Nat /\ q # <<>> /\ ReplyUnits \in Nat \ {0}
      /\ r \in Seq(ReplyUnit) /\ q \in Seq(ReplyUnit)
  BY <1>1, ArrivedType, SocketsAssumption DEF RepliesInv, SocketsGood, GoodSocket, PeerReceive, SocketsAssumption
<1>3. PICK rest \in Seq(ReplyUnit) : (r \o q) \o rest = Replies(0, n)
  BY <1>1 DEF RepliesInv, SocketsGood, GoodSocket, Arrived
<1>4. /\ Len(r) \in Nat /\ Len(q) \in Nat \ {0} /\ Len(rest) \in Nat
      /\ Len(Replies(0, n)) = Len(r) + Len(q) + Len(rest)
      /\ Replies(0, n)[Len(r) + 1] = Head(q)
  <2>1. Len(r) \in Nat /\ Len(q) \in Nat \ {0} /\ Len(rest) \in Nat
    BY <1>2, <1>3, EmptySeq, LenProperties
  <2>2. PICK rq : rq = r \o q
    OBVIOUS
  <2>3. /\ rq \in Seq(ReplyUnit) /\ Len(rq) = Len(r) + Len(q)
        /\ rq[Len(r) + 1] = q[1]
    BY <1>2, <2>1, <2>2, ConcatProperties
  <2>4. rest \in Seq(ReplyUnit) /\ rq \in Seq(ReplyUnit)
    BY <1>3, <2>3
  <2>5. /\ Len(rq \o rest) = Len(r) + Len(q) + Len(rest)
        /\ (rq \o rest)[Len(r) + 1] = rq[Len(r) + 1]
    <3>1. /\ Len(rq \o rest) = Len(rq) + Len(rest)
          /\ \A i \in 1..(Len(rq) + Len(rest)) :
               (rq \o rest)[i] = IF i <= Len(rq) THEN rq[i] ELSE rest[i - Len(rq)]
      BY <2>4, ConcatProperties
    <3> QED
      BY <2>1, <2>3, <3>1
  <2>6. Head(q) = q[1]
    BY <1>2
  <2> QED
    BY <1>3, <2>1, <2>2, <2>3, <2>5, <2>6
<1>5. Len(Replies(0, n)) = n * ReplyUnits /\ n * ReplyUnits \in Nat
  <2>1. 0 <= n /\ n - 0 = n
    BY <1>2
  <2> QED
    BY <1>2, <2>1, RepliesType
<1>6. Head(q) = <<(Len(r) \div ReplyUnits) + 1, (Len(r) % ReplyUnits) + 1>>
  <2>1. Len(r) + 1 \in 1..Len(Replies(0, n)) /\ 0 <= n
    BY <1>2, <1>4, <1>5
  <2>2. Replies(0, n)[Len(r) + 1] = UnitAt((Len(r) + 1) + 0 * ReplyUnits)
    BY <1>2, <2>1, RepliesElements
  <2>3. ((Len(r) + 1) + 0 * ReplyUnits) - 1 = Len(r)
    BY <1>2, <1>4
  <2>4. UnitAt((Len(r) + 1) + 0 * ReplyUnits) = <<1 + (Len(r) \div ReplyUnits), 1 + (Len(r) % ReplyUnits)>>
    BY <2>3 DEF UnitAt
  <2>5. Len(r) \div ReplyUnits \in Nat /\ Len(r) % ReplyUnits \in Nat
    <3>1. PICK m \in Nat : m = Len(r)
      BY <1>4
    <3>2. m \div ReplyUnits \in Nat /\ m % ReplyUnits \in 0..(ReplyUnits - 1)
      BY <1>2, <3>1, Euclid
    <3> QED
      BY <1>2, <3>1, <3>2
  <2>6. 1 + (Len(r) \div ReplyUnits) = (Len(r) \div ReplyUnits) + 1
    BY <2>5
  <2>7. 1 + (Len(r) % ReplyUnits) = (Len(r) % ReplyUnits) + 1
    BY <2>5
  <2> QED
    BY <1>4, <2>2, <2>4, <2>6, <2>7, Zenon
<1>7. PICK t : t = [s EXCEPT !.received = Append(r, Head(q)), !.sendq = Tail(q)]
  OBVIOUS
<1>8. /\ \A x \in Conns : sock'[x] = IF x = c THEN t ELSE sock[x]
  BY <1>1, <1>7 DEF PeerReceive, IInv, SocketsInv
<1>9. /\ t.sent = s.sent /\ t.phase = s.phase /\ t.received = Append(r, Head(q))
      /\ t.garbage = s.garbage /\ t.fin = s.fin /\ t.rst = s.rst
  BY <1>2, <1>7 DEF SocketRec
<1>10. \A x \in Conns : /\ Link(x)' = Link(x) /\ sock'[x].sent = sock[x].sent
                        /\ x # c => sock'[x].received = sock[x].received
  BY <1>1, <1>8, <1>9 DEF Link, Faulty
<1>11. PICK b, b2 : b = [x \in Conns |-> sock[x].received] /\ b2 = [x \in Conns |-> sock'[x].received]
  OBVIOUS
<1>12. b[c] = r /\ b2 = [b EXCEPT ![c] = Append(r, Head(q))]
  BY <1>1, <1>8, <1>9, <1>10, <1>11
<1>13. /\ [x \in Conns |-> Link(x)'] = [x \in Conns |-> Link(x)]
       /\ [x \in Conns |-> sock'[x].sent \div RequestUnits] = [x \in Conns |-> sock[x].sent \div RequestUnits]
  BY <1>10
<1>14. Promise!Unit(Len(b[c])) = Head(q)
  BY <1>6, <1>12 DEF Promise!Unit
<1>15. Len(b[c]) < executed[c] * ReplyUnits
  <2>1. Len(r) < n * ReplyUnits
    BY <1>4, <1>5
  <2> QED
    BY <1>1, <1>12, <2>1
<1>16. b2 = [b EXCEPT ![c] = Append(@, Promise!Unit(Len(@)))]
  BY <1>12, <1>14
<1>17. Promise!Answer(c)
  BY <1>11, <1>13, <1>15, <1>16 DEF Promise!Answer
<1> QED
  BY <1>17 DEF Promise!Next

-----------------------------------------------------------------------------
(* The server.                                                             *)

LEMMA CloseShows ==
  ASSUME IInv, RepliesInv, NEW fd \in DOMAIN clients, CloseClient(fd), UNCHANGED executed
  PROVE  [Promise!Next]_(Promise!svars)
<1>1. clients[fd].conn \in Conns /\ sock[clients[fd].conn].phase = "accepted"
  BY DEF IInv, OwnersInv
<1>2. \A c \in Conns : sock'[c] = IF c = clients[fd].conn THEN Closed(sock[c]) ELSE sock[c]
  BY <1>1 DEF CloseClient, CloseClientOf, IInv, SocketsInv
<1> QED
  BY <1>1, <1>2, ClosingShows DEF RepliesInv

LEMMA StartShows ==
  ASSUME IInv, RepliesInv, StartOrReturn
  PROVE  [Promise!Next]_(Promise!svars)
<1>1. UNCHANGED executed
  BY DEF StartOrReturn, BlockSignals, OpenSignalFd, OpenSocket, Bind, Listen, AddSignal, AddListen,
         StartStep, AddService, GiveUp, Return, worldVars, serverVars
<1>2. sock' = sock \/ GiveUp
  BY DEF StartOrReturn, BlockSignals, OpenSignalFd, OpenSocket, Bind, Listen, AddSignal, AddListen,
         StartStep, AddService, Return, worldVars
<1>3. \A c \in Conns : \/ sock'[c] = sock[c]
                       \/ sock'[c] = Closed(sock[c]) /\ sock[c].phase # "closed"
  BY <1>2 DEF GiveUp
<1> QED
  BY <1>1, <1>3, ClosingShows DEF RepliesInv

LEMMA AcceptShows ==
  ASSUME IInv, RepliesInv, Accept
  PROVE  [Promise!Next]_(Promise!svars)
<1>1. PICK c \in Conns : c = Head(backlog) /\ sock[c].phase = "waiting"
  <2>1. backlog \in Seq(Conns) /\ 1 \in 1..Len(backlog) /\ Head(backlog) = backlog[1]
    BY DEF Accept, IInv, BacklogInv
  <2>2. backlog[1] \in Conns
    BY <2>1
  <2> QED
    BY <2>1, <2>2 DEF IInv, BacklogInv
<1>2. UNCHANGED executed /\ sock[c] \in SocketRec
  BY DEF Accept, RepliesInv, SocketsGood, GoodSocket
<1>3. CASE AddFails(Min(FreeFds), c)
  <2>1. sock' = [sock EXCEPT ![c] = Closed(sock[c])]
    BY <1>2, <1>3, FreshFd, AddFailsCloses
  <2>2. \A x \in Conns : \/ sock'[x] = sock[x]
                         \/ sock'[x] = Closed(sock[x]) /\ sock[x].phase # "closed"
    BY <1>1, <2>1 DEF IInv, SocketsInv
  <2> QED
    BY <1>2, <2>2, ClosingShows DEF RepliesInv
<1>4. CASE sock' = Taken(c)
  <2>1. PICK s : s = [sock[c] EXCEPT !.phase = "accepted"]
    OBVIOUS
  <2>2. \A x \in Conns : sock'[x] = IF x = c THEN s ELSE sock[x]
    BY <1>4, <2>1 DEF Taken, IInv, SocketsInv
  <2>3. /\ s.phase = "accepted" /\ s.sent = sock[c].sent /\ s.received = sock[c].received
        /\ s.garbage = sock[c].garbage /\ s.fin = sock[c].fin /\ s.rst = sock[c].rst
    BY <1>2, <2>1 DEF SocketRec
  <2>4. ASSUME NEW x \in Conns
        PROVE  /\ sock'[x].sent = sock[x].sent /\ sock'[x].received = sock[x].received
               /\ Onward(x)
    <3>1. CASE x # c
      BY <2>2, <3>1 DEF Onward, Link, Faulty
    <3>2. CASE x = c
      <4>1. Link(c) = "none" \/ (Link(c) = "ending" /\ Link(c)' = "ending")
        BY <1>1, <2>2, <2>3 DEF Link, Faulty
      <4> QED
        BY <2>2, <2>3, <3>2, <4>1 DEF Onward
    <3> QED
      BY <3>1, <3>2
  <2> QED
    BY <1>2, <2>4, OnlyLinks
<1> QED
  BY <1>1, <1>3, <1>4 DEF Accept

\* The requests that the parser completes have been asked before.
LEMMA ReadShows ==
  ASSUME IInv, RepliesInv, RepliesInv', ReadData
  PROVE  [Promise!Next]_(Promise!svars)
<1>1. PICK fd \in DOMAIN clients, c \in Conns : fd = handler.fd /\ c = clients[fd].conn
  BY DEF ReadData, At, IInv, HandlerInv, InClient, OwnersInv
<1>2. PICK n, k : n = Min({RecvSize, sock[c].unread}) /\ k = Completed(clients[fd], n)
  OBVIOUS
<1>3. MySocket = sock[c] /\ Me = clients[fd] /\ Me.conn = c
  BY <1>1 DEF MySocket, SocketAt, Me
<1>4. /\ sock' = [sock EXCEPT ![c].unread = @ - n]
      /\ clients' = [clients EXCEPT ![fd] = Feed(@, n, executed[c])]
      /\ executed' = [executed EXCEPT ![c] = executed[c] + k]
  BY <1>1, <1>2, <1>3 DEF ReadData
<1>5. /\ executed \in [Conns -> Nat] /\ sock[c] \in SocketRec /\ sock[c].unread \in Nat
      /\ sock[c].sent \in Nat /\ GoodClient(clients[fd]) /\ sock[c].phase = "accepted"
      /\ RequestUnits \in Nat \ {0}
  BY <1>1, SocketsAssumption DEF RepliesInv, SocketsGood, GoodSocket, SocketRec, PairsGood, GoodPair,
                                 IInv, OwnersInv, SocketsAssumption
<1>6. n \in Nat /\ k \in Nat /\ Feed(clients[fd], n, executed[c]).conn = c
  <2>1. n \in Nat
    BY <1>2, <1>5, MinOfTwo, ServerAssumption DEF ServerAssumption
  <2>2. executed[c] \in Nat
    BY <1>5
  <2> QED
    BY <1>1, <1>2, <1>5, <2>1, <2>2, FeedFacts
<1>7. PICK s : s = [sock[c] EXCEPT !.unread = sock[c].unread - n]
  OBVIOUS
<1>8. /\ \A x \in Conns : sock'[x] = IF x = c THEN s ELSE sock[x]
      /\ s.sent = sock[c].sent /\ s.received = sock[c].received /\ s.phase = sock[c].phase
      /\ s.garbage = sock[c].garbage /\ s.fin = sock[c].fin /\ s.rst = sock[c].rst
  BY <1>4, <1>5, <1>7 DEF SocketRec, IInv, SocketsInv
<1>9. \A x \in Conns : /\ Link(x)' = Link(x) /\ sock'[x].received = sock[x].received
                       /\ sock'[x].sent = sock[x].sent
  BY <1>8 DEF Link, Faulty
<1>10. /\ [x \in Conns |-> Link(x)'] = [x \in Conns |-> Link(x)]
       /\ [x \in Conns |-> sock'[x].received] = [x \in Conns |-> sock[x].received]
       /\ [x \in Conns |-> sock'[x].sent \div RequestUnits] = [x \in Conns |-> sock[x].sent \div RequestUnits]
  BY <1>9
<1>11. CASE k = 0
  <2>1. executed' = executed
    BY <1>4, <1>5, <1>11
  <2> QED
    BY <1>10, <2>1 DEF Promise!svars
<1>12. CASE k # 0
  <2>1. executed[c] + k <= sock[c].sent \div RequestUnits
    <3>1. PICK e \in Nat, p \in Nat, u \in Nat :
            e = executed[c] + k /\ e * RequestUnits + p + u = sock[c].sent
      <4>1. fd \in DOMAIN clients' /\ clients'[fd].conn = c
        BY <1>4, <1>6
      <4>2. GoodPair(s, clients'[fd], executed'[c]) /\ GoodSocket(s, executed'[c])
        BY <1>8, <4>1 DEF RepliesInv, PairsGood, SocketsGood
      <4>3. executed'[c] = executed[c] + k /\ executed[c] + k \in Nat
        BY <1>4, <1>5, <1>6
      <4>4. clients'[fd].parsed \in Nat /\ s.unread \in Nat
        BY <4>2 DEF GoodPair, GoodClient, ClientRec, GoodSocket, SocketRec
      <4>5. executed'[c] * RequestUnits + clients'[fd].parsed + s.unread = sock[c].sent
        BY <1>8, <4>2 DEF GoodPair
      <4> QED
        BY <4>3, <4>4, <4>5
    <3>2. PICK y \in Nat : y = sock[c].sent
      BY <1>5
    <3>3. PICK q \in Nat, r \in 0..(RequestUnits - 1) :
            y = q * RequestUnits + r /\ y \div RequestUnits = q
      BY <1>5, Euclid
    <3>4. e * RequestUnits <= q * RequestUnits + r
      BY <1>5, <3>1, <3>2, <3>3
    <3>5. ~(q < e)
      <4>1. SUFFICES ASSUME q < e PROVE FALSE
        OBVIOUS
      <4>2. PICK d \in Nat : e = q + 1 + d
        <5>1. e - (q + 1) \in Nat /\ e = q + 1 + (e - (q + 1))
          BY <4>1
        <5> QED
          BY <5>1
      <4>3. e * RequestUnits = q * RequestUnits + RequestUnits + d * RequestUnits
        BY <1>5, <4>2
      <4>4. d * RequestUnits \in Nat /\ q * RequestUnits \in Nat
        BY <1>5
      <4> QED
        BY <1>5, <3>4, <4>3, <4>4
    <3> QED
      BY <3>1, <3>2, <3>3, <3>5
  <2>2. executed[c] + k \in (executed[c] + 1)..(sock[c].sent \div RequestUnits)
    <3>1. executed[c] \in Nat /\ sock[c].sent \div RequestUnits \in Nat
      <4>1. PICK y \in Nat : y = sock[c].sent
        BY <1>5
      <4>2. y \div RequestUnits \in Nat
        BY <1>5, Euclid
      <4> QED
        BY <1>5, <4>1, <4>2
    <3> QED
      BY <1>6, <1>12, <2>1, <3>1
  <2>3. Link(c) \in {"open", "ending"}
    BY <1>5 DEF Link
  <2>4. Promise!Serve(c)
    BY <1>4, <1>10, <2>2, <2>3 DEF Promise!Serve
  <2> QED
    BY <2>4 DEF Promise!Next
<1> QED
  BY <1>11, <1>12

LEMMA OtherStepsShow ==
  ASSUME IInv, RepliesInv,
         \/ RunOnce \/ SkipEvent \/ OnListen \/ OnSignal \/ OnHangup \/ OnClient \/ AcceptEnds
         \/ ReadFails \/ ReadEnds \/ ReadEndsWithReplies
         \/ SendData \/ SendBlocks \/ SendFails \/ SendEnds \/ Killed \/ UNCHANGED vars
  PROVE  [Promise!Next]_(Promise!svars)
<1> USE DEF worldVars, serverVars, loopVars, vars
<1>1. CASE UNCHANGED <<sock, executed>>
  BY <1>1, NothingShows
<1>2. CASE \/ RunOnce \/ SkipEvent \/ OnListen \/ OnClient \/ AcceptEnds \/ ReadEnds \/ SendBlocks
           \/ Killed \/ UNCHANGED vars
  BY <1>1, <1>2 DEF RunOnce, SkipEvent, OnListen, OnClient, AcceptEnds, ReadEnds, SendBlocks, Killed
<1>3. CASE OnSignal
  <2>1. \A c \in Conns : \/ sock'[c] = sock[c]
                         \/ sock'[c] = Closed(sock[c]) /\ sock[c].phase # "closed"
    BY <1>3 DEF OnSignal, Shutdown
  <2> QED
    BY <1>3, <2>1, ClosingShows DEF OnSignal, RepliesInv
<1>4. CASE OnHangup
  <2>1. Turn.fd \in DOMAIN clients
    BY <1>4, ServicesAreNoClients DEF OnHangup, Calls, IInv, TablesInv
  <2> QED
    BY <1>4, <2>1, CloseShows DEF OnHangup
<1>5. CASE ReadFails \/ SendFails \/ ReadEndsWithReplies \/ SendEnds
  <2>1. handler.fd \in DOMAIN clients
    BY <1>5 DEF ReadFails, SendFails, ReadEndsWithReplies, SendEnds, At, IInv, HandlerInv, InClient
  <2>2. UNCHANGED <<sock, executed>> \/ (CloseClient(handler.fd) /\ UNCHANGED executed)
    BY <1>5 DEF ReadFails, SendFails, ReadEndsWithReplies, SendEnds, Modify
  <2> QED
    BY <1>1, <2>1, <2>2, CloseShows
<1>6. CASE SendData
  <2>1. PICK fd \in DOMAIN clients, c \in Conns : fd = handler.fd /\ c = clients[fd].conn
    BY <1>6 DEF SendData, At, IInv, HandlerInv, InClient, OwnersInv
  <2>2. PICK new : sock' = [sock EXCEPT ![c].sendq = new] /\ UNCHANGED executed
    BY <1>6, <2>1 DEF SendData, Me
  <2>3. \A x \in Conns : sock[x] \in SocketRec
    BY DEF RepliesInv, SocketsGood, GoodSocket
  <2>4. \A x \in Conns : sock'[x] = IF x = c THEN [sock[x] EXCEPT !.sendq = new] ELSE sock[x]
    BY <2>2 DEF IInv, SocketsInv
  <2>5. \A x \in Conns : /\ sock'[x].phase = sock[x].phase /\ sock'[x].sent = sock[x].sent
                         /\ sock'[x].received = sock[x].received
                         /\ sock'[x].garbage = sock[x].garbage
                         /\ sock'[x].fin = sock[x].fin /\ sock'[x].rst = sock[x].rst
    BY <2>3, <2>4 DEF SocketRec
  <2> QED
    BY <2>2, <2>5, NothingShows
<1> QED
  BY <1>2, <1>3, <1>4, <1>5, <1>6

LEMMA StepShows ==
  IInv /\ RepliesInv /\ RepliesInv' /\ [Next]_vars => [Promise!Next]_(Promise!svars)
<1> SUFFICES ASSUME IInv, RepliesInv, RepliesInv', [Next]_vars
             PROVE  [Promise!Next]_(Promise!svars)
  OBVIOUS
<1>1. CASE StartOrReturn
  BY <1>1, StartShows
<1>2. CASE Accept
  BY <1>2, AcceptShows
<1>3. CASE ReadData
  BY <1>3, ReadShows
<1>4. CASE WorldStep
  <2>1. UNCHANGED executed
    BY <1>4 DEF WorldStep, serverVars
  <2>2. CASE \E c \in Conns : \/ Listening /\ Connect(c)
                              \/ PeerSend(c) \/ PeerFault(c) \/ PeerReceive(c)
    BY <2>1, <2>2, ConnectShows, SendShows, FaultShows, ReceiveShows
  <2>3. CASE SendSignal
    BY <2>1, <2>3, NothingShows DEF SendSignal
  <2> QED
    BY <1>4, <2>2, <2>3 DEF WorldStep
<1>5. CASE \/ RunOnce \/ SkipEvent \/ OnListen \/ OnSignal \/ OnHangup \/ OnClient \/ AcceptEnds
           \/ ReadFails \/ ReadEnds \/ ReadEndsWithReplies
           \/ SendData \/ SendBlocks \/ SendFails \/ SendEnds \/ Killed \/ UNCHANGED vars
  BY <1>5, OtherStepsShow
<1> QED
  BY <1>1, <1>2, <1>3, <1>4, <1>5 DEF Next, ServerStep

\* Peers can tell the server from Service by nothing that happens: not by the pieces
\* messages travel in, the order of events, descriptors that run out or are reused, failed
\* registrations or a shutdown in the middle of a batch.
THEOREM ImplementsServiceSafety == Spec => Promise!Safety
<1>1. Init => Promise!Init
  <2> SUFFICES ASSUME Init PROVE Promise!Init
    OBVIOUS
  <2>1. \A c \in Conns : /\ Link(c) = "none" /\ sock[c].sent = 0 /\ sock[c].received = <<>>
                         /\ executed = [x \in Conns |-> 0]
    BY DEF Init, NewSocket, Link, Faulty
  <2>2. 0 \div RequestUnits = 0
    <3>1. RequestUnits \in Nat \ {0}
      BY SocketsAssumption DEF SocketsAssumption
    <3>2. PICK q \in Nat, r \in 0..(RequestUnits - 1) :
            0 = q * RequestUnits + r /\ 0 \div RequestUnits = q
      BY <3>1, Euclid
    <3>3. 0 * RequestUnits + 0 = q * RequestUnits + r /\ 0 \in 0..(RequestUnits - 1)
      BY <3>1, <3>2
    <3>4. q = 0
      BY <3>1, <3>2, <3>3, DivisionUnique
    <3> QED
      BY <3>2, <3>4
  <2>3. executed = [c \in Conns |-> 0]
    BY DEF Init
  <2> QED
    BY <2>1, <2>2, <2>3 DEF Promise!Init
<1> QED
  BY <1>1, StepShows, InvAlways, RepliesAlways, PTL DEF Spec, Promise!Safety

-----------------------------------------------------------------------------
(* The units of the replies to the first n requests.                       *)

LEMMA QuotientBound ==
  ASSUME NEW x \in Nat, NEW m \in Nat, NEW d \in Nat \ {0}, x < m * d
  PROVE  x \div d < m
<1>1. PICK q \in Nat, r \in 0..(d - 1) : x = q * d + r /\ x \div d = q
  BY Euclid
<1>2. ASSUME q >= m
      PROVE  FALSE
  <2>1. PICK k \in Nat : q = m + k
    BY <1>2
  <2>2. q * d = m * d + k * d /\ k * d \in Nat /\ m * d \in Nat
    BY <2>1
  <2> QED
    BY <1>1, <2>2
<1> QED
  BY <1>1, <1>2

LEMMA RepliesUnits ==
  ASSUME NEW m \in Nat, NEW n \in Nat, m <= n
  PROVE  Replies(m, n) \in Seq(Units(n))
<1>1. ReplyUnits \in Nat \ {0} /\ n - m \in Nat /\ (n - m) * ReplyUnits \in Nat
  BY SocketsAssumption DEF SocketsAssumption
<1>2. ASSUME NEW i \in 1..((n - m) * ReplyUnits)
      PROVE  <<m + 1 + ((i - 1) \div ReplyUnits), 1 + ((i - 1) % ReplyUnits)>> \in Units(n)
  <2>1. PICK x \in Nat : x = i - 1 /\ x < (n - m) * ReplyUnits
    BY <1>1
  <2>2. x \div ReplyUnits \in Nat /\ x % ReplyUnits \in 0..(ReplyUnits - 1)
    BY <1>1, Euclid
  <2>3. x \div ReplyUnits < n - m
    BY <1>1, <2>1, QuotientBound
  <2>4. m + 1 + (x \div ReplyUnits) \in 1..n /\ 1 + (x % ReplyUnits) \in 1..ReplyUnits
    BY <1>1, <2>2, <2>3
  <2> QED
    BY <2>1, <2>4 DEF Units
<1>3. Replies(m, n) \in [1..((n - m) * ReplyUnits) -> Units(n)]
  BY <1>2 DEF Replies
<1> QED
  BY <1>1, <1>3, TupleIsSeq

LEMMA UnitsGrow ==
  ASSUME NEW m \in Nat, NEW n \in Nat, m <= n, NEW s \in Seq(Units(m))
  PROVE  s \in Seq(Units(n))
<1>1. Units(m) \subseteq Units(n)
  BY DEF Units
<1> QED
  BY <1>1

LEMMA PartUnits ==
  ASSUME NEW S, NEW a \in Seq(ReplyUnit), NEW b \in Seq(ReplyUnit), a \o b \in Seq(S)
  PROVE  a \in Seq(S) /\ b \in Seq(S)
<1>1. PICK t : t = a \o b
  OBVIOUS
<1>2. /\ Len(a) \in Nat /\ Len(b) \in Nat /\ t \in Seq(S) /\ Len(t) = Len(a) + Len(b)
      /\ \A i \in 1..(Len(a) + Len(b)) : t[i] = IF i <= Len(a) THEN a[i] ELSE b[i - Len(a)]
  BY <1>1, ConcatProperties, LenProperties
<1>3. \A i \in 1..Len(t) : t[i] \in S
  BY <1>2, ElementOfSeq
<1>4. \A i \in 1..Len(a) : a[i] \in S
  BY <1>2, <1>3
<1>5. ASSUME NEW i \in 1..Len(b)
      PROVE  b[i] \in S
  <2>1. /\ i + Len(a) \in 1..Len(t) /\ ~(i + Len(a) <= Len(a)) /\ (i + Len(a)) - Len(a) = i
    BY <1>2
  <2> QED
    BY <1>2, <1>3, <2>1
<1>6. a \in [1..Len(a) -> S] /\ b \in [1..Len(b) -> S]
  BY <1>4, <1>5, LenProperties
<1> QED
  BY <1>2, <1>6, TupleIsSeq

\* What arrived and what is under way are units of replies to executed requests.
LEMMA SocketUnits ==
  ASSUME NEW s, NEW n \in Nat, GoodSocket(s, n)
  PROVE  s.received \in Seq(Units(n)) /\ s.sendq \in Seq(Units(n))
<1>1. PICK rest \in Seq(ReplyUnit) : Arrived(s) \o rest = Replies(0, n)
  BY DEF GoodSocket
<1>2. /\ s.received \in Seq(ReplyUnit) /\ s.sendq \in Seq(ReplyUnit)
      /\ Arrived(s) \in Seq(ReplyUnit)
  BY ArrivedType DEF GoodSocket
<1>3. Arrived(s) \in Seq(Units(n))
  <2>1. 0 <= n /\ Replies(0, n) \in Seq(Units(n))
    BY RepliesUnits
  <2> QED
    BY <1>1, <1>2, <2>1, PartUnits
<1> QED
  BY <1>2, <1>3, PartUnits DEF Arrived

-----------------------------------------------------------------------------
(* How much sockets and clients hold.                                      *)

Ends == {"serving", "stopped", "failed", "killed"}

FitsSocket(s, c) ==
  /\ s.sent <= Requests[c] * RequestUnits
  /\ s.unread <= s.sent
  /\ Len(s.sendq) <= SendSpace

FitsClient(cl, n) == cl.parsed < RequestUnits /\ cl.write_buf \in Seq(Units(n))

SocketsFit == \A c \in Conns : FitsSocket(sock[c], c)
ClientsFit == \A fd \in DOMAIN clients : FitsClient(clients[fd], executed[clients[fd].conn])
FlagsFit == signalled \in BOOLEAN /\ running \in BOOLEAN /\ life \in Starting \cup Ends
FitsInv == SocketsFit /\ ClientsFit /\ FlagsFit

\* Closing a socket, like the loss of its send buffer, leaves less in it.
LEMMA ClosedFits ==
  ASSUME NEW c \in Conns, NEW s \in SocketRec, FitsSocket(s, c)
  PROVE  FitsSocket(Closed(s), c)
<1>1. /\ Closed(s).sent = s.sent /\ Closed(s).unread = s.unread
      /\ Closed(s).sendq = s.sendq \/ Closed(s).sendq = <<>>
  BY DEF Closed, SocketRec
<1>2. Len(<<>>) <= SendSpace
  BY EmptySeq, SocketsAssumption DEF SocketsAssumption
<1> QED
  BY <1>1, <1>2 DEF FitsSocket

LEMMA SocketsTyped ==
  ASSUME RepliesInv, NEW c \in Conns
  PROVE  /\ sock[c] \in SocketRec /\ executed[c] \in Nat
         /\ sock[c].sent \in Nat /\ sock[c].unread \in Nat
         /\ sock[c].sendq \in Seq(ReplyUnit) /\ Len(sock[c].sendq) \in Nat
BY LenProperties DEF RepliesInv, SocketsGood, GoodSocket, SocketRec

\* Steps that keep, or drop, the clients there are.
LEMMA SocketsChange ==
  ASSUME IInv, RepliesInv, FitsInv, FlagsFit', UNCHANGED executed,
         \A fd \in DOMAIN clients' : fd \in DOMAIN clients /\ clients'[fd] = clients[fd],
         \A c \in Conns : \/ sock'[c] = sock[c] \/ sock'[c] = Closed(sock[c])
                          \/ FitsSocket(sock'[c], c)
  PROVE  FitsInv'
<1>1. SocketsFit'
  BY ClosedFits, SocketsTyped DEF FitsInv, SocketsFit
<1>2. ClientsFit'
  BY DEF FitsInv, ClientsFit
<1> QED
  BY <1>1, <1>2 DEF FitsInv

LEMMA PeersKeepFits ==
  ASSUME IInv, RepliesInv, FitsInv, UNCHANGED <<executed, clients>>, FlagsFit', NEW c \in Conns,
         Connect(c) \/ PeerSend(c) \/ PeerFault(c) \/ PeerReceive(c)
  PROVE  FitsInv'
<1> DEFINE s == sock[c]
<1>1. /\ s \in SocketRec /\ s.sent \in Nat /\ s.unread \in Nat /\ s.sendq \in Seq(ReplyUnit)
      /\ Len(s.sendq) \in Nat
      /\ FitsSocket(s, c) /\ DOMAIN sock = Conns
  BY SocketsTyped DEF FitsInv, SocketsFit, IInv, SocketsInv
<1>2. PICK most \in Nat : most = Requests[c] * RequestUnits
  BY SocketsAssumption DEF SocketsAssumption
<1>3. CASE Connect(c) \/ PeerFault(c)
  <2>1. PICK s2 \in {[s EXCEPT !.phase = "waiting"], [s EXCEPT !.garbage = TRUE],
                     [s EXCEPT !.fin = TRUE], [s EXCEPT !.rst = TRUE, !.sendq = <<>>]} :
          sock' = [sock EXCEPT ![c] = s2]
    BY <1>1, <1>3 DEF Connect, PeerFault
  <2>2. s2.sent = s.sent /\ s2.unread = s.unread /\ (s2.sendq = s.sendq \/ s2.sendq = <<>>)
    BY <1>1, <2>1 DEF SocketRec
  <2>3. Len(<<>>) <= SendSpace
    BY EmptySeq, SocketsAssumption DEF SocketsAssumption
  <2>4. FitsSocket(s2, c)
    BY <1>1, <2>2, <2>3 DEF FitsSocket
  <2>5. \A x \in Conns : sock'[x] = IF x = c THEN s2 ELSE sock[x]
    BY <1>1, <2>1
  <2> QED
    BY <2>4, <2>5, SocketsChange
<1>4. CASE PeerSend(c)
  <2>1. PICK m \in Nat, n \in Nat : m = s.sent + 1 /\ n = s.unread + 1
    BY <1>1
  <2>2. s.sent < most
    BY <1>2, <1>4 DEF PeerSend
  <2>3. PICK s2 : s2 = [s EXCEPT !.sent = m, !.unread = n]
    OBVIOUS
  <2>4. s2.sent = m /\ s2.unread = n /\ s2.sendq = s.sendq
    BY <1>1, <2>3 DEF SocketRec
  <2>5. sock' = [sock EXCEPT ![c] = s2]
    <3>1. [s EXCEPT !.sent = @ + 1, !.unread = @ + 1] = s2
      BY <1>1, <2>1, <2>3 DEF SocketRec
    <3> QED
      BY <1>1, <1>4, <3>1 DEF PeerSend
  <2>6. m <= most /\ n <= m /\ Len(s.sendq) <= SendSpace
    BY <1>1, <2>1, <2>2 DEF FitsSocket
  <2>7. FitsSocket(s2, c)
    BY <1>2, <2>4, <2>6 DEF FitsSocket
  <2>8. \A x \in Conns : sock'[x] = IF x = c THEN s2 ELSE sock[x]
    BY <1>1, <2>5
  <2> QED
    BY <2>7, <2>8, SocketsChange
<1>5. CASE PeerReceive(c)
  <2>1. PICK r, q : r = Append(s.received, Head(s.sendq)) /\ q = Tail(s.sendq)
    OBVIOUS
  <2>2. PICK s2 : s2 = [s EXCEPT !.received = r, !.sendq = q]
    OBVIOUS
  <2>3. s2.sent = s.sent /\ s2.unread = s.unread /\ s2.sendq = q
    BY <1>1, <2>2 DEF SocketRec
  <2>4. \A x \in Conns : sock'[x] = IF x = c THEN s2 ELSE sock[x]
    BY <1>1, <1>5, <2>1, <2>2 DEF PeerReceive, SocketRec
  <2>5. Len(q) = Len(s.sendq) - 1
    BY <1>1, <1>5, <2>1, HeadTailProperties DEF PeerReceive
  <2>6. FitsSocket(s2, c)
    BY <1>1, <2>3, <2>5, SocketsAssumption DEF FitsSocket, SocketsAssumption
  <2> QED
    BY <2>4, <2>6, SocketsChange
<1> QED
  BY <1>3, <1>4, <1>5

LEMMA FlagsKept == FlagsFit /\ [Next]_vars => FlagsFit'
<1> SUFFICES ASSUME FlagsFit, [Next]_vars PROVE FlagsFit'
  OBVIOUS
<1> USE DEF FlagsFit, Ends, worldVars, loopVars, serverVars, vars
<1>1. CASE StartOrReturn \/ Killed
  BY <1>1 DEF StartOrReturn, BlockSignals, OpenSignalFd, OpenSocket, Bind, Listen, AddSignal,
              AddListen, StartStep, AddService, GiveUp, Return, Killed, Starting
<1>2. CASE RunOnce \/ SkipEvent \/ OnListen \/ OnClient \/ AcceptEnds \/ ReadEnds \/ SendBlocks
             \/ ReadData \/ SendData \/ Accept \/ UNCHANGED vars
  BY <1>2 DEF RunOnce, WaitForEvents, SkipEvent, OnListen, OnClient, AcceptEnds, ReadEnds,
              SendBlocks, ReadData, SendData, Accept, AddFails, CloseClientOf
<1>3. CASE OnHangup \/ ReadFails \/ SendFails \/ ReadEndsWithReplies \/ SendEnds
  BY <1>3 DEF OnHangup, ReadFails, SendFails, ReadEndsWithReplies, SendEnds, Modify, CloseClient, CloseClientOf
<1>4. CASE OnSignal
  BY <1>4 DEF OnSignal, Shutdown
<1>5. CASE WorldStep
  BY <1>5 DEF WorldStep, Connect, PeerSend, PeerFault, PeerReceive, SendSignal
<1> QED
  BY <1>1, <1>2, <1>3, <1>4, <1>5 DEF Next, ServerStep

\* Steps that change no buffer, or close something.
LEMMA QuietStepsKeepFits ==
  ASSUME IInv, RepliesInv, FitsInv, FlagsFit',
         \/ StartOrReturn \/ RunOnce \/ SkipEvent \/ OnListen \/ OnClient \/ AcceptEnds
         \/ ReadFails \/ ReadEnds \/ ReadEndsWithReplies \/ SendBlocks \/ SendFails
         \/ OnHangup \/ OnSignal \/ Killed \/ UNCHANGED vars
  PROVE  FitsInv'
<1> USE DEF worldVars, loopVars, serverVars, vars
<1>1. UNCHANGED executed
  BY DEF StartOrReturn, BlockSignals, OpenSignalFd, OpenSocket, Bind, Listen, AddSignal,
         AddListen, StartStep, AddService, GiveUp, Return, RunOnce, SkipEvent, OnListen, OnClient,
         AcceptEnds, ReadFails, ReadEnds, ReadEndsWithReplies, Modify, SendBlocks, SendFails,
         OnHangup, OnSignal, Killed
<1>2. CASE StartOrReturn
  <2>1. UNCHANGED clients /\ (sock' = sock \/ GiveUp)
    BY <1>2 DEF StartOrReturn, BlockSignals, OpenSignalFd, OpenSocket, Bind, Listen, AddSignal,
                AddListen, StartStep, AddService, GiveUp, Return
  <2>2. \A c \in Conns : sock'[c] = sock[c] \/ sock'[c] = Closed(sock[c])
    BY <2>1 DEF GiveUp
  <2> QED
    BY <1>1, <2>1, <2>2, SocketsChange
<1>3. CASE RunOnce \/ SkipEvent \/ OnListen \/ OnClient \/ AcceptEnds \/ ReadEnds \/ SendBlocks
            \/ Killed \/ UNCHANGED vars
  <2>1. UNCHANGED <<sock, clients>>
    BY <1>3 DEF RunOnce, SkipEvent, OnListen, OnClient, AcceptEnds, ReadEnds, SendBlocks, Killed
  <2> QED
    BY <1>1, <2>1, SocketsChange
<1>4. ASSUME NEW fd \in DOMAIN clients, CloseClient(fd)
      PROVE  FitsInv'
  <2>1. \A x \in DOMAIN clients' : x \in DOMAIN clients /\ clients'[x] = clients[x]
    BY <1>4 DEF CloseClient, CloseClientOf, Without, Restrict
  <2>2. \A c \in Conns : sock'[c] = sock[c] \/ sock'[c] = Closed(sock[c])
    BY <1>4 DEF CloseClient, CloseClientOf, IInv, SocketsInv
  <2> QED
    BY <1>1, <2>1, <2>2, SocketsChange
<1>5. CASE OnHangup
  <2>1. Turn.fd \in DOMAIN clients
    BY <1>5, ServicesAreNoClients DEF OnHangup, Calls, IInv, TablesInv
  <2> QED
    BY <1>4, <1>5, <2>1 DEF OnHangup
<1>6. CASE ReadFails \/ SendFails
  <2>1. handler.fd \in DOMAIN clients
    BY <1>6 DEF ReadFails, SendFails, At, IInv, HandlerInv, InClient
  <2> QED
    BY <1>4, <1>6, <2>1 DEF ReadFails, SendFails
<1>7. CASE ReadEndsWithReplies
  <2>1. handler.fd \in DOMAIN clients
    BY <1>7 DEF ReadEndsWithReplies, At, IInv, HandlerInv, InClient
  <2>2. CASE clients' = [clients EXCEPT ![handler.fd] = Me] /\ UNCHANGED sock
    <3>1. \A fd \in DOMAIN clients' : fd \in DOMAIN clients /\ clients'[fd] = clients[fd]
      BY <2>2 DEF Me
    <3> QED
      BY <1>1, <2>2, <3>1, SocketsChange
  <2> QED
    BY <1>4, <1>7, <2>1, <2>2 DEF ReadEndsWithReplies, Modify
<1>8. CASE OnSignal
  <2>1. DOMAIN clients' = {}
    BY <1>8, ShutdownTables DEF OnSignal
  <2>2. \A c \in Conns : sock'[c] = sock[c] \/ sock'[c] = Closed(sock[c])
    BY <1>8 DEF OnSignal, Shutdown
  <2> QED
    BY <1>1, <2>1, <2>2, SocketsChange
<1> QED
  BY <1>2, <1>3, <1>5, <1>6, <1>7, <1>8

\* A step that changes one client together with its socket, and may execute requests.
LEMMA PairFits ==
  ASSUME IInv, RepliesInv, FitsInv, FlagsFit', NEW fd \in DOMAIN clients, NEW s, NEW cl,
         NEW n \in Nat,
         \A x \in Conns : sock'[x] = IF x = clients[fd].conn THEN s ELSE sock[x],
         clients' = [clients EXCEPT ![fd] = cl],
         executed' = [executed EXCEPT ![clients[fd].conn] = n],
         cl.conn = clients[fd].conn, FitsSocket(s, clients[fd].conn), FitsClient(cl, n)
  PROVE  FitsInv'
<1>1. PICK c \in Conns : c = clients[fd].conn
  BY DEF IInv, OwnersInv
<1>2. \A x \in Conns : executed'[x] = IF x = c THEN n ELSE executed[x]
  BY <1>1 DEF RepliesInv, SocketsGood
<1>3. \A x \in DOMAIN clients : clients[x].conn \in Conns /\ (x # fd => clients[x].conn # c)
  BY <1>1 DEF IInv, OwnersInv
<1>4. SocketsFit'
  BY <1>1 DEF FitsInv, SocketsFit
<1>5. ASSUME NEW x \in DOMAIN clients'
      PROVE  FitsClient(clients'[x], executed'[clients'[x].conn])
  <2>1. CASE x = fd
    BY <1>1, <1>2, <2>1
  <2>2. CASE x # fd
    BY <1>2, <1>3, <2>2 DEF FitsInv, ClientsFit
  <2> QED
    BY <2>1, <2>2
<1> QED
  BY <1>4, <1>5 DEF FitsInv, ClientsFit

\* An accepted connection gets a client that holds nothing.
LEMMA AcceptKeepsFits ==
  ASSUME IInv, RepliesInv, FitsInv, FlagsFit', Accept
  PROVE  FitsInv'
<1>1. PICK c \in Conns : c = Head(backlog) /\ sock[c].phase = "waiting"
  <2>1. backlog \in Seq(Conns) /\ 1 \in 1..Len(backlog) /\ Head(backlog) = backlog[1]
    BY DEF Accept, IInv, BacklogInv
  <2>2. backlog[1] \in Conns
    BY <2>1
  <2> QED
    BY <2>1, <2>2 DEF IInv, BacklogInv
<1>2. UNCHANGED executed /\ DOMAIN sock = Conns
  BY DEF Accept, IInv, SocketsInv
<1>3. CASE AddFails(Min(FreeFds), c)
  <2>1. /\ sock' = [sock EXCEPT ![c] = Closed(sock[c])]
        /\ DOMAIN clients' = DOMAIN clients
        /\ \A x \in DOMAIN clients : clients'[x] = clients[x]
    BY <1>3, SocketsTyped, FreshFd, AddFailsCloses
  <2>2. \A x \in Conns : sock'[x] = sock[x] \/ sock'[x] = Closed(sock[x])
    BY <1>2, <2>1
  <2> QED
    BY <1>2, <2>1, <2>2, SocketsChange
<1>4. CASE sock' = Taken(c) /\ clients' = WithClient(Min(FreeFds), c)
  <2>1. PICK s : s = [sock[c] EXCEPT !.phase = "accepted"]
    OBVIOUS
  <2>2. \A x \in Conns : sock'[x] = IF x = c THEN s ELSE sock[x]
    BY <1>2, <1>4, <2>1 DEF Taken
  <2>3. s.sent = sock[c].sent /\ s.unread = sock[c].unread /\ s.sendq = sock[c].sendq
    BY <2>1, SocketsTyped DEF SocketRec
  <2>4. SocketsFit'
    BY <2>2, <2>3 DEF FitsInv, SocketsFit, FitsSocket
  <2>5. FitsClient(NewClient(c), executed'[c])
    <3>1. 0 < RequestUnits
      BY SocketsAssumption DEF SocketsAssumption
    <3> QED
      BY <3>1, EmptySeq DEF FitsClient, NewClient
  <2>6. ASSUME NEW fd \in DOMAIN clients'
        PROVE  FitsClient(clients'[fd], executed'[clients'[fd].conn])
    <3>1. CASE clients'[fd] = NewClient(c)
      BY <2>5, <3>1, NewClientFacts
    <3>2. CASE fd \in DOMAIN clients /\ clients'[fd] = clients[fd]
      BY <1>2, <3>2 DEF FitsInv, ClientsFit
    <3> QED
      BY <1>4, <3>1, <3>2 DEF WithClient
  <2> QED
    BY <2>4, <2>6 DEF FitsInv, ClientsFit
<1> QED
  BY <1>1, <1>3, <1>4 DEF Accept

\* The parser keeps less than a request, and what it completes is answered.
LEMMA FeedFits ==
  ASSUME NEW cl, GoodClient(cl), NEW n \in Nat, NEW done \in Nat, FitsClient(cl, done)
  PROVE  FitsClient(Feed(cl, n, done), done + Completed(cl, n))
<1> DEFINE k == Completed(cl, n)
           fed == [cl EXCEPT !.parsed = (@ + n) % RequestUnits]
           r == Replies(done, done + k)
<1>1. RequestUnits \in Nat \ {0}
  BY SocketsAssumption DEF SocketsAssumption
<1>2. PICK x \in Nat : x = cl.parsed + n
  BY DEF GoodClient, ClientRec
<1>3. k \in Nat /\ x % RequestUnits \in 0..(RequestUnits - 1)
  BY <1>1, <1>2, Euclid DEF Completed
<1>4. /\ fed.parsed < RequestUnits /\ fed.write_buf = cl.write_buf
      /\ fed \in ClientRec
  BY <1>1, <1>2, <1>3 DEF GoodClient, ClientRec
<1> HIDE DEF k, fed, r
<1>5. /\ done + k \in Nat /\ done <= done + k
      /\ r \in Seq(Units(done + k)) /\ cl.write_buf \in Seq(Units(done + k))
  <2>1. done + k \in Nat /\ done <= done + k
    BY <1>3
  <2> QED
    BY <2>1, RepliesUnits, UnitsGrow DEF r, FitsClient
<1>6. CASE k = 0
  <2>1. Feed(cl, n, done) = fed
    BY <1>6 DEF Feed, k, fed
  <2> QED
    BY <1>4, <1>5, <2>1 DEF FitsClient, k
<1>7. CASE k # 0
  <2>1. Feed(cl, n, done) = EnqueueResponse(fed, r)
    BY <1>7 DEF Feed, k, fed, r
  <2>2. EnqueueResponse(fed, r).parsed = fed.parsed
    BY <1>4 DEF EnqueueResponse, ClientRec
  <2>3. EnqueueResponse(fed, r).write_buf = cl.write_buf \o r
    BY <1>4 DEF EnqueueResponse, ClientRec
  <2>4. cl.write_buf \o r \in Seq(Units(done + k))
    BY <1>5, ConcatProperties
  <2> QED
    BY <1>4, <2>1, <2>2, <2>3, <2>4 DEF FitsClient, k
<1> QED
  BY <1>6, <1>7

LEMMA ReadDataKeepsFits ==
  ASSUME IInv, RepliesInv, FitsInv, FlagsFit', ReadData
  PROVE  FitsInv'
<1>1. PICK fd \in DOMAIN clients, c \in Conns : fd = handler.fd /\ c = clients[fd].conn
  BY DEF ReadData, At, IInv, HandlerInv, InClient, OwnersInv
<1>2. PICK s0, cl0, e : s0 = sock[c] /\ cl0 = clients[fd] /\ e = executed[c]
  OBVIOUS
<1>3. /\ e \in Nat /\ s0 \in SocketRec /\ GoodClient(cl0)
      /\ s0.unread \in Nat /\ s0.sent \in Nat
      /\ FitsSocket(s0, c) /\ FitsClient(cl0, e)
  BY <1>1, <1>2, SocketsTyped
  DEF RepliesInv, PairsGood, GoodPair, FitsInv, SocketsFit, ClientsFit
<1>4. PICK n \in Nat : n = Min({RecvSize, s0.unread}) /\ n <= s0.unread
  BY <1>3, MinOfTwo, ServerAssumption DEF ServerAssumption
<1>5. PICK k, cl : k = Completed(cl0, n) /\ cl = Feed(cl0, n, e)
  OBVIOUS
<1>6. k \in Nat /\ cl.conn = c /\ FitsClient(cl, e + k)
  <2>1. k \in Nat /\ cl.conn = cl0.conn
    BY <1>3, <1>4, <1>5, FeedFacts
  <2>2. FitsClient(cl, e + k)
    BY <1>3, <1>4, <1>5, FeedFits
  <2> QED
    BY <1>1, <1>2, <2>1, <2>2
<1>7. PICK u \in Nat : u = s0.unread - n /\ u <= s0.unread
  BY <1>3, <1>4
<1>8. PICK s : s = [s0 EXCEPT !.unread = u]
  OBVIOUS
<1>9. FitsSocket(s, c)
  <2>1. s.sent = s0.sent /\ s.unread = u /\ s.sendq = s0.sendq
    BY <1>3, <1>8 DEF SocketRec
  <2>2. u <= s0.sent
    BY <1>3, <1>7 DEF FitsSocket
  <2> QED
    BY <1>3, <2>1, <2>2 DEF FitsSocket
<1>10. /\ \A x \in Conns : sock'[x] = IF x = clients[fd].conn THEN s ELSE sock[x]
       /\ clients' = [clients EXCEPT ![fd] = cl]
       /\ executed' = [executed EXCEPT ![clients[fd].conn] = e + k]
  <2>1. MySocket = s0 /\ Me = cl0 /\ Me.conn = c
    BY <1>1, <1>2 DEF MySocket, SocketAt, Me
  <2>2. /\ sock' = [sock EXCEPT ![c].unread = @ - n]
        /\ clients' = [clients EXCEPT ![fd] = Feed(@, n, e)]
        /\ executed' = [executed EXCEPT ![c] = e + k]
    BY <1>1, <1>2, <1>4, <1>5, <2>1 DEF ReadData
  <2>3. \A x \in Conns : sock'[x] = IF x = c THEN s ELSE sock[x]
    BY <1>2, <1>7, <1>8, <2>2 DEF IInv, SocketsInv
  <2>4. clients' = [clients EXCEPT ![fd] = cl]
    BY <1>2, <1>5, <2>2
  <2> QED
    BY <1>1, <2>2, <2>3, <2>4
<1>11. e + k \in Nat
  BY <1>3, <1>6
<1> QED
  BY <1>1, <1>6, <1>9, <1>10, <1>11, PairFits

\* send takes no more than there is room for.
LEMMA SendDataKeepsFits ==
  ASSUME IInv, RepliesInv, FitsInv, FlagsFit', SendData
  PROVE  FitsInv'
<1>1. PICK fd \in DOMAIN clients, c \in Conns : fd = handler.fd /\ c = clients[fd].conn
  BY DEF SendData, At, IInv, HandlerInv, InClient, OwnersInv
<1>2. PICK s0, cl0, e : s0 = sock[c] /\ cl0 = clients[fd] /\ e = executed[c]
  OBVIOUS
<1>3. /\ e \in Nat /\ s0 \in SocketRec /\ GoodClient(cl0)
      /\ s0.sendq \in Seq(ReplyUnit) /\ Len(s0.sendq) \in Nat
      /\ FitsSocket(s0, c) /\ FitsClient(cl0, e)
      /\ Unsent(cl0) \in Seq(ReplyUnit) /\ Len(Unsent(cl0)) \in Nat
  BY <1>1, <1>2, SocketsTyped, UnsentFacts, LenProperties
  DEF RepliesInv, PairsGood, GoodPair, FitsInv, SocketsFit, ClientsFit
<1>4. MySocket = s0 /\ Me = cl0 /\ Me.conn = c
  BY <1>1, <1>2 DEF MySocket, SocketAt, Me
<1>5. Room \in Nat /\ Room > 0 /\ Len(s0.sendq) + Room = SendSpace
  BY <1>3, <1>4, SocketsAssumption DEF SendData, Room, SocketsAssumption
<1>6. PICK n : n \in 1..Len(Unsent(cl0)) /\ n = Min({Room, Len(Unsent(cl0))}) /\ n <= Room
  <2>1. Len(Unsent(cl0)) > 0
    BY <1>3, <1>4, EmptySeq DEF SendData
  <2> QED
    BY <1>3, <1>5, <2>1, MinOfTwo
<1>7. PICK part, cl : part = SubSeq(Unsent(cl0), 1, n) /\ cl = Sent(cl0, n)
  OBVIOUS
<1>8. /\ cl.conn = c /\ cl.parsed = cl0.parsed /\ cl.write_buf = cl0.write_buf
      /\ part \in Seq(ReplyUnit) /\ Len(part) = n
  BY <1>1, <1>2, <1>3, <1>6, <1>7, SentFacts DEF Sent, GoodClient, ClientRec
<1>9. PICK s : s = [s0 EXCEPT !.sendq = s0.sendq \o part]
  OBVIOUS
<1>10. FitsSocket(s, c)
  <2>1. Len(s0.sendq \o part) = Len(s0.sendq) + n
    BY <1>3, <1>8, ConcatProperties
  <2>2. Len(s0.sendq \o part) <= SendSpace
    BY <1>3, <1>5, <1>6, <2>1
  <2>3. s.sent = s0.sent /\ s.unread = s0.unread /\ s.sendq = s0.sendq \o part
    BY <1>3, <1>9 DEF SocketRec
  <2> QED
    BY <1>3, <2>2, <2>3 DEF FitsSocket
<1>11. /\ \A x \in Conns : sock'[x] = IF x = clients[fd].conn THEN s ELSE sock[x]
       /\ clients' = [clients EXCEPT ![fd] = cl]
       /\ executed' = [executed EXCEPT ![clients[fd].conn] = e]
  <2>1. /\ sock' = [sock EXCEPT ![c].sendq = @ \o part]
        /\ clients' = [clients EXCEPT ![fd] = Sent(@, n)]
    BY <1>1, <1>4, <1>6, <1>7 DEF SendData
  <2>2. \A y \in Conns : sock'[y] = IF y = c THEN s ELSE sock[y]
    BY <1>2, <1>9, <2>1 DEF IInv, SocketsInv
  <2>3. clients' = [clients EXCEPT ![fd] = cl]
    BY <1>2, <1>7, <2>1
  <2>4. executed' = [executed EXCEPT ![c] = e]
    BY <1>2 DEF SendData, RepliesInv, SocketsGood
  <2> QED
    BY <1>1, <2>2, <2>3, <2>4
<1>12. FitsClient(cl, e)
  BY <1>3, <1>8 DEF FitsClient
<1> QED
  BY <1>1, <1>3, <1>8, <1>10, <1>11, <1>12, PairFits

LEMMA SendEndsKeepsFits ==
  ASSUME IInv, RepliesInv, FitsInv, FlagsFit', SendEnds
  PROVE  FitsInv'
<1>1. PICK fd \in DOMAIN clients, c \in Conns : fd = handler.fd /\ c = clients[fd].conn
  BY DEF SendEnds, At, IInv, HandlerInv, InClient, OwnersInv
<1>2. CASE CloseClient(fd) /\ UNCHANGED executed
  <2>1. \A x \in DOMAIN clients' : x \in DOMAIN clients /\ clients'[x] = clients[x]
    BY <1>2 DEF CloseClient, CloseClientOf, Without, Restrict
  <2>2. \A x \in Conns : sock'[x] = sock[x] \/ sock'[x] = Closed(sock[x])
    BY <1>2 DEF CloseClient, CloseClientOf, IInv, SocketsInv
  <2> QED
    BY <1>2, <2>1, <2>2, SocketsChange
<1>3. CASE clients' = [clients EXCEPT ![fd] = Flushed(clients[fd])] /\ UNCHANGED <<sock, executed>>
  <2>1. PICK cl, s, e : cl = Flushed(clients[fd]) /\ s = sock[c] /\ e = executed[c]
    OBVIOUS
  <2>2. /\ e \in Nat /\ GoodClient(clients[fd]) /\ FitsClient(clients[fd], e) /\ FitsSocket(s, c)
    BY <1>1, <2>1, SocketsTyped
    DEF RepliesInv, PairsGood, GoodPair, FitsInv, SocketsFit, ClientsFit
  <2>3. cl.conn = c /\ cl.parsed = clients[fd].parsed
    BY <1>1, <2>1, <2>2, FlushedFacts
  <2>4. cl.write_buf = <<>>
    BY <2>1, <2>2 DEF Flushed, GoodClient, ClientRec
  <2>5. FitsClient(cl, e)
    BY <2>2, <2>3, <2>4, EmptySeq DEF FitsClient
  <2>6. /\ \A x \in Conns : sock'[x] = IF x = clients[fd].conn THEN s ELSE sock[x]
        /\ clients' = [clients EXCEPT ![fd] = cl]
        /\ executed' = [executed EXCEPT ![clients[fd].conn] = e]
    BY <1>1, <1>3, <2>1 DEF RepliesInv, SocketsGood, IInv, SocketsInv
  <2> QED
    BY <1>1, <2>2, <2>3, <2>5, <2>6, PairFits
<1> QED
  BY <1>1, <1>2, <1>3 DEF SendEnds, Modify, Me, worldVars

LEMMA FitsInit == Init => FitsInv
<1> SUFFICES ASSUME Init PROVE FitsInv
  OBVIOUS
<1>1. SocketsFit
  <2>1. \A c \in Conns : Requests[c] * RequestUnits \in Nat
    BY SocketsAssumption DEF SocketsAssumption
  <2>2. Len(<<>>) <= SendSpace
    BY EmptySeq, SocketsAssumption DEF SocketsAssumption
  <2> QED
    BY <2>1, <2>2 DEF Init, NewSocket, SocketsFit, FitsSocket
<1>2. ClientsFit
  BY DEF Init, ClientsFit
<1>3. FlagsFit
  BY DEF Init, FlagsFit, Starting
<1> QED
  BY <1>1, <1>2, <1>3 DEF FitsInv

LEMMA FitsStep == IInv /\ RepliesInv /\ FitsInv /\ [Next]_vars => FitsInv'
<1> SUFFICES ASSUME IInv, RepliesInv, FitsInv, [Next]_vars PROVE FitsInv'
  OBVIOUS
<1>1. FlagsFit'
  BY FlagsKept DEF FitsInv
<1>2. CASE Accept
  BY <1>1, <1>2, AcceptKeepsFits
<1>3. CASE ReadData
  BY <1>1, <1>3, ReadDataKeepsFits
<1>4. CASE SendData
  BY <1>1, <1>4, SendDataKeepsFits
<1>5. CASE SendEnds
  BY <1>1, <1>5, SendEndsKeepsFits
<1>6. CASE WorldStep
  <2>1. UNCHANGED <<executed, clients>>
    BY <1>6 DEF WorldStep, serverVars
  <2>2. CASE SendSignal
    BY <1>1, <2>1, <2>2, SocketsChange DEF SendSignal
  <2>3. CASE \E c \in Conns : \/ Listening /\ Connect(c)
                              \/ PeerSend(c) \/ PeerFault(c) \/ PeerReceive(c)
    BY <1>1, <2>1, <2>3, PeersKeepFits
  <2> QED
    BY <1>6, <2>2, <2>3 DEF WorldStep
<1>7. CASE \/ StartOrReturn \/ RunOnce \/ SkipEvent \/ OnListen \/ OnClient \/ AcceptEnds
           \/ ReadFails \/ ReadEnds \/ ReadEndsWithReplies \/ SendBlocks \/ SendFails
           \/ OnHangup \/ OnSignal \/ Killed \/ UNCHANGED vars
  BY <1>1, <1>7, QuietStepsKeepFits
<1> QED
  BY <1>2, <1>3, <1>4, <1>5, <1>6, <1>7 DEF Next, ServerStep

\* The types of everything the server and its sockets hold: whatever pieces requests come in,
\* the parser keeps less than one of them; write_offset_ never passes the end of write_buf_;
\* the send buffer never holds more than fits; and both hold replies to executed requests only.
THEOREM ServerTypeCorrect == Spec => []TypeOK
<1>1. IInv /\ RepliesInv /\ FitsInv => TypeOK
  <2> SUFFICES ASSUME IInv, RepliesInv, FitsInv PROVE TypeOK
    OBVIOUS
  <2>1. ASSUME NEW c \in Conns
        PROVE  IsSocket(sock[c], c)
    <3>1. GoodSocket(sock[c], executed[c]) /\ sock[c] \in SocketRec /\ executed[c] \in Nat
      BY DEF RepliesInv, SocketsGood, GoodSocket
    <3>2. sock[c].received \in Seq(Units(executed[c])) /\ sock[c].sendq \in Seq(Units(executed[c]))
      BY <3>1, SocketUnits
    <3>3. Requests[c] * RequestUnits \in Nat
      BY SocketsAssumption DEF SocketsAssumption
    <3>4. FitsSocket(sock[c], c)
      BY DEF FitsInv, SocketsFit
    <3> QED
      BY <3>1, <3>2, <3>3, <3>4 DEF IsSocket, FitsSocket, SocketRec, Phases
  <2>2. ASSUME NEW fd \in DOMAIN clients
        PROVE  IsClient(clients[fd])
    <3>1. PICK cl : cl = clients[fd]
      OBVIOUS
    <3>2. /\ GoodClient(cl) /\ FitsClient(cl, executed[cl.conn])
      BY <3>1 DEF RepliesInv, PairsGood, GoodPair, FitsInv, ClientsFit
    <3>3. Len(cl.write_buf) \in Nat
      BY <3>2, LenProperties DEF GoodClient, ClientRec
    <3>4. cl.parsed \in 0..(RequestUnits - 1)
      BY <3>2, SocketsAssumption DEF GoodClient, ClientRec, FitsClient, SocketsAssumption
    <3> QED
      BY <3>1, <3>2, <3>3, <3>4 DEF IsClient, GoodClient, ClientRec, FitsClient
  <2>3. /\ executed \in [Conns -> Nat] /\ DOMAIN sock = Conns /\ backlog \in Seq(Conns)
        /\ DOMAIN clients \subseteq ClientFds
    BY DEF RepliesInv, SocketsGood, IInv, SocketsInv, BacklogInv, TablesInv
  <2>4. /\ handler.stage \in {"idle", "accept", "read", "write"}
        /\ handler.stage \in {"read", "write"} => handler.fd \in DOMAIN clients
    BY DEF IInv, HandlerInv, Stages, InClient
  <2>5. /\ signalled \in BOOLEAN /\ running \in BOOLEAN
        /\ life \in Starting \cup {"serving", "stopped", "failed", "killed"}
    BY DEF FitsInv, FlagsFit, Ends
  <2> QED
    BY <2>1, <2>2, <2>3, <2>4, <2>5 DEF TypeOK
<1>2. Spec => []FitsInv
  BY InvAlways, RepliesAlways, FitsInit, FitsStep, PTL DEF Spec
<1> QED
  BY <1>1, <1>2, InvAlways, RepliesAlways, PTL

=============================================================================
