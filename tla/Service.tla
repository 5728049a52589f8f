------------------------------ MODULE Service -------------------------------
(***************************************************************************)
(* What redix promises the peer at the other end of a connection, without  *)
(* event loop, buffers or descriptors: every request is executed once, in  *)
(* the order of asking; the peer sees the replies unit by unit in that     *)
(* order; and as long as the connection is open and the peer reads, every  *)
(* request is executed and answered in the end.                            *)
(***************************************************************************)
EXTENDS Integers, Sequences

CONSTANTS Conns, ReplyUnits, Readers

VARIABLES
  link,   \* "none", "open", "ending" (by the peer), "closed" (by the server)
  asked,  \* requests that the peer has sent completely
  done,   \* requests that have been executed
  replies \* reply units that have reached the peer: <<request, unit>>

svars == <<link, asked, done, replies>>

Init ==
  /\ link = [c \in Conns |-> "none"]
  /\ asked = [c \in Conns |-> 0]
  /\ done = [c \in Conns |-> 0]
  /\ replies = [c \in Conns |-> <<>>]

Ask(c) ==
  /\ link[c] \in {"none", "open"}
  /\ asked' = [asked EXCEPT ![c] = @ + 1]
  /\ UNCHANGED <<link, done, replies>>

Serve(c) ==
  /\ link[c] \in {"open", "ending"}
  /\ \E n \in (done[c] + 1)..asked[c] : done' = [done EXCEPT ![c] = n]
  /\ UNCHANGED <<link, asked, replies>>

\* The unit that follows n units of replies.
Unit(n) == <<n \div ReplyUnits + 1, (n % ReplyUnits) + 1>>

\* Also after the connection was closed: what the network held still arrives.
Answer(c) ==
  /\ Len(replies[c]) < done[c] * ReplyUnits
  /\ replies' = [replies EXCEPT ![c] = Append(@, Unit(Len(@)))]
  /\ UNCHANGED <<link, asked, done>>

Rank(l) == CASE l = "none" -> 0 [] l = "open" -> 1 [] l = "ending" -> 2 [] l = "closed" -> 3

\* Connections open and end, one by one or, when the server stops, all at once.
Relink ==
  /\ \E l \in [Conns -> {"none", "open", "ending", "closed"}] :
       /\ \A c \in Conns : l[c] # link[c] => Rank(l[c]) > Rank(link[c])
       /\ link' = l
  /\ UNCHANGED <<asked, done, replies>>

Next == \/ \E c \in Conns : Ask(c) \/ Serve(c) \/ Answer(c)
        \/ Relink

\* What never happens, and with fairness what does happen.
Safety == Init /\ [][Next]_svars

Spec == /\ Safety
        /\ \A c \in Readers : /\ WF_svars(link[c] = "open" /\ Serve(c))
                              /\ WF_svars(link[c] = "open" /\ Answer(c))

=============================================================================
