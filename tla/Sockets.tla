------------------------------- MODULE Sockets -------------------------------
(***************************************************************************)
(* The world around the server, none of it code of redix: peers that       *)
(* connect, send requests in pieces, read replies as they please, end or   *)
(* reset their connection; the kernel's socket buffers; and the signal     *)
(* that ends the program.  Modelled from the calls that Client, EventLoop  *)
(* and Server make: accept4, recv, send, read, epoll_wait, close.          *)
(*                                                                         *)
(* A request and a reply are a number of units, the pieces in which the    *)
(* network may deliver them.  Requests arrive in order (TCP), so that the  *)
(* receive buffer is a count of units; replies are told apart.             *)
(***************************************************************************)
EXTENDS Integers, FiniteSets, SequencesExt

CONSTANTS
  Conns,        \* connections that peers may make, each once
  Requests,     \* bound: the requests sent over each connection
  RequestUnits, \* units of a request
  ReplyUnits,   \* units of a reply
  SendSpace,    \* units that fit in a socket's send buffer
  Faults        \* what may go wrong: a subset of AllFaults

AllFaults == {"garbage", "fin", "reset", "signal", "epoll", "start"}

ASSUME SocketsAssumption ==
  /\ Requests \in [Conns -> Nat]
  /\ RequestUnits \in Nat \ {0}
  /\ ReplyUnits \in Nat \ {0}
  /\ SendSpace \in Nat \ {0}
  /\ Faults \subseteq AllFaults

VARIABLES
  sock,     \* the connections, with both buffers of the server's socket
  backlog,  \* connections that wait to be accepted, oldest first
  signalled \* a SIGINT or SIGTERM is pending

worldVars == <<sock, backlog, signalled>>

NewSocket ==
  [phase |-> "new",     \* then "waiting", "accepted", "closed" (by the server)
   sent |-> 0,          \* units sent by the peer so far
   unread |-> 0,        \* units in the receive buffer
   garbage |-> FALSE,   \* bytes that are no RESP follow them
   fin |-> FALSE,       \* the peer ended its sending side
   rst |-> FALSE,       \* the peer reset the connection
   sendq |-> <<>>,      \* units in the send buffer
   received |-> <<>>]   \* units that reached the peer

Talking(c) == /\ sock[c].phase \in {"waiting", "accepted"}
              /\ ~sock[c].garbage /\ ~sock[c].fin /\ ~sock[c].rst

Connect(c) ==
  /\ sock[c].phase = "new"
  /\ sock' = [sock EXCEPT ![c].phase = "waiting"]
  /\ backlog' = Append(backlog, c)
  /\ UNCHANGED signalled

PeerSend(c) ==
  /\ Talking(c)
  /\ sock[c].sent < Requests[c] * RequestUnits
  /\ sock' = [sock EXCEPT ![c].sent = @ + 1, ![c].unread = @ + 1]
  /\ UNCHANGED <<backlog, signalled>>

PeerFault(c) ==
  /\ Talking(c)
  /\ \/ /\ "garbage" \in Faults
        /\ sock' = [sock EXCEPT ![c].garbage = TRUE]
     \/ /\ "fin" \in Faults
        /\ sock' = [sock EXCEPT ![c].fin = TRUE]
     \/ /\ "reset" \in Faults
        /\ sock' = [sock EXCEPT ![c].rst = TRUE, ![c].sendq = <<>>]
  /\ UNCHANGED <<backlog, signalled>>

PeerReceive(c) ==
  /\ sock[c].sendq # <<>>
  /\ sock' = [sock EXCEPT ![c].received = Append(@, Head(sock[c].sendq)),
                          ![c].sendq = Tail(@)]
  /\ UNCHANGED <<backlog, signalled>>

SendSignal ==
  /\ "signal" \in Faults
  /\ signalled' = TRUE
  /\ UNCHANGED <<sock, backlog>>

-----------------------------------------------------------------------------
(* What the server sees of a socket.                                       *)

AtEnd(s) == s.unread = 0 /\ ~s.garbage /\ (s.fin \/ s.rst)  \* recv answers 0 or fails
Blocks(s) == s.unread = 0 /\ ~s.garbage /\ ~s.fin /\ ~s.rst \* recv answers EAGAIN

\* The readiness epoll sees; a reset is reported whatever the interest.
Unmaskable == {"ERR", "HUP"}
Readiness(s) ==
  {e \in {"IN", "OUT", "RDHUP", "ERR", "HUP"} :
     \/ e = "IN" /\ ~Blocks(s)
     \/ e = "OUT" /\ (Len(s.sendq) < SendSpace \/ s.rst)
     \/ e = "RDHUP" /\ (s.fin \/ s.rst)
     \/ e \in Unmaskable /\ s.rst}

\* close: what the peer has not been sent is still delivered, unless the server
\* leaves input unread, which resets the connection.
Closed(s) ==
  [s EXCEPT !.phase = "closed",
            !.sendq = IF s.unread > 0 \/ s.garbage THEN <<>> ELSE @]

=============================================================================
