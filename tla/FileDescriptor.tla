--------------------------- MODULE FileDescriptor ----------------------------
(***************************************************************************)
(* redix::FileDescriptor: objects that own a descriptor number and close   *)
(* it when they go or are overwritten.  The objects live, move and die in  *)
(* any order a program may choose, and the kernel gives a number that was  *)
(* closed to the next one who asks.                                        *)
(***************************************************************************)
EXTENDS Integers, Functions

CONSTANTS
  Handles, \* the places where a FileDescriptor may live
  Fds      \* the numbers the kernel gives out

ASSUME FdsAssumption == Fds \subseteq Nat

VARIABLES
  fd_,        \* fd_ of every object that lives
  open,       \* the descriptors that are open in the kernel
  raw,        \* numbers in the hands of the program: just opened, or released
  nonblocking \* the open descriptors with O_NONBLOCK

vars == <<fd_, open, raw, nonblocking>>

Invalid == -1
Live == DOMAIN fd_
Holds(h) == fd_[h] >= 0

Init ==
  /\ fd_ = [h \in {} |-> Invalid]
  /\ open = {} /\ raw = {} /\ nonblocking = {}

-----------------------------------------------------------------------------
(* The kernel and the program around the class.                            *)

\* socket, accept4, signalfd or epoll_create1 returns a number that is not in use.
Open(n) ==
  /\ n \notin open
  /\ open' = open \cup {n} /\ raw' = raw \cup {n}
  /\ UNCHANGED <<fd_, nonblocking>>

\* What a close of the numbers of F leaves; a number that is not open is none of them.
Close(F) == open' = open \ F /\ nonblocking' = nonblocking \ F

CloseRaw(n) ==
  /\ n \in raw
  /\ Close({n}) /\ raw' = raw \ {n}
  /\ UNCHANGED fd_

-----------------------------------------------------------------------------
(* The class.                                                              *)

With(h, n) == [x \in Live \cup {h} |-> IF x = h THEN n ELSE fd_[x]]
Moved(h, g) == [x \in Live \cup {h} |-> IF x = h THEN fd_[g]
                                         ELSE IF x = g THEN Invalid ELSE fd_[x]]
Held(h) == IF Holds(h) THEN {fd_[h]} ELSE {}

\* The constructors: from a number, or from the -1 of a failed call; without one; and
\* from another object, which is left empty.
Construct(h, n) ==
  /\ h \notin Live /\ n \in raw \cup {Invalid}
  /\ fd_' = With(h, n)
  /\ raw' = raw \ {n}
  /\ UNCHANGED <<open, nonblocking>>

MoveConstruct(h, g) ==
  /\ h \notin Live /\ g \in Live
  /\ fd_' = Moved(h, g)
  /\ UNCHANGED <<open, raw, nonblocking>>

\* Mutant of MoveAssign: without the test for self-assignment the object keeps the
\* number it has closed.
MoveAssignUnguarded(h, g) ==
  /\ h \in Live /\ g \in Live
  /\ Close(Held(h))
  /\ fd_' = Moved(h, g)
  /\ UNCHANGED raw

\* An object assigned to itself stays what it is.
MoveAssign(h, g) ==
  /\ h \in Live /\ g \in Live /\ h # g
  /\ Close(Held(h))
  /\ fd_' = Moved(h, g)
  /\ UNCHANGED raw

Release(h) ==
  /\ h \in Live
  /\ fd_' = With(h, Invalid)
  /\ raw' = raw \cup Held(h)
  /\ UNCHANGED <<open, nonblocking>>

\* fcntl may fail, and then nothing has changed.
SetNonblocking(h) ==
  /\ h \in Live /\ Holds(h)
  /\ nonblocking' = nonblocking \cup (Held(h) \cap open)
  /\ UNCHANGED <<fd_, open, raw>>

Destroy(h) ==
  /\ h \in Live
  /\ Close(Held(h))
  /\ fd_' = Restrict(fd_, Live \ {h})
  /\ UNCHANGED raw

Next ==
  \/ \E n \in Fds : Open(n) \/ CloseRaw(n)
  \/ \E h \in Handles :
       \/ \E n \in Fds \cup {Invalid} : Construct(h, n)
       \/ \E g \in Handles : MoveConstruct(h, g) \/ MoveAssign(h, g)
       \/ Release(h) \/ SetNonblocking(h) \/ Destroy(h)

Spec == Init /\ [][Next]_vars

-----------------------------------------------------------------------------
(* Properties.                                                             *)

\* Whatever moves, is overwritten, released or destroyed in whatever order, each open
\* descriptor has exactly one owner, an object or the program, and nobody holds the
\* number of a closed one: none leaks, none is closed twice, and no object ever closes a
\* descriptor that was given its number later.
OneOwner ==
  /\ \A h, g \in Live : Holds(h) /\ fd_[h] = fd_[g] => h = g
  /\ \A h \in Live : fd_[h] \notin raw
  /\ \A n \in Fds : n \in open <=> (n \in raw \/ \E h \in Live : fd_[h] = n)

=============================================================================
