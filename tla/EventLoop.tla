------------------------------ MODULE EventLoop ------------------------------
(***************************************************************************)
(* redix::EventLoop: the descriptors registered with epoll, the callbacks  *)
(* by descriptor, and the batch of events that run_once hands out one by   *)
(* one.  Between the collection of a batch and an event's turn, callbacks  *)
(* may close descriptors and reuse their numbers.                          *)
(***************************************************************************)
EXTENDS Sockets

CONSTANT MaxEvents \* MAX_EVENTS: the events that one call of epoll_wait returns at most

ASSUME EventLoopAssumption == MaxEvents \in Nat \ {0}

VARIABLES
  interest,  \* the kernel's epoll set: the events asked for, by descriptor
  callbacks, \* descriptors with a callback (callbacks_)
  batch,     \* events collected by epoll_wait and not handed out yet
  running    \* running_

loopVars == <<interest, callbacks, batch, running>>

\* add and modify set the kernel's interest and the callback together, or fail.
Register(fd, events) ==
  /\ interest' = [x \in DOMAIN interest \cup {fd} |-> IF x = fd THEN events ELSE interest[x]]
  /\ callbacks' = callbacks \cup {fd}

\* remove, for every descriptor of F.
Unregister(F) ==
  /\ interest' = Restrict(interest, DOMAIN interest \ F)
  /\ callbacks' = callbacks \ F

\* What epoll_wait reports of a descriptor of which ready are the readiness flags.
Reported(fd, ready) == ready \cap (interest[fd] \cup Unmaskable)

\* run_once calls epoll_wait, which reports the ready descriptors in no particular order,
\* any MAX_EVENTS of them if there are more; ready is their readiness and conn what is
\* behind them.  A wait that times out changes nothing.
WaitForEvents(ready, conn) ==
  LET found == {fd \in DOMAIN interest : Reported(fd, ready[fd]) # {}}
  IN  /\ running /\ batch = <<>>
      /\ found # {}
      /\ \E reported \in kSubset(Min({MaxEvents, Cardinality(found)}), found) :
         \E order \in SetToSeqs(reported) :
           batch' = [i \in DOMAIN order |-> [fd |-> order[i],
                                             events |-> Reported(order[i], ready[order[i]]),
                                             conn |-> conn[order[i]]]]
      /\ UNCHANGED <<interest, callbacks, running>>

\* The next event of the batch has its turn.
HandOut ==
  /\ batch # <<>>
  /\ batch' = Tail(batch)

=============================================================================
