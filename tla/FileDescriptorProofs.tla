------------------------- MODULE FileDescriptorProofs -------------------------
(***************************************************************************)
(* Ownership of descriptors, for any number of objects and of descriptors. *)
(***************************************************************************)
EXTENDS FileDescriptor, TLAPS

TypeOK ==
  /\ Live \subseteq Handles
  /\ \A h \in Live : fd_[h] \in Fds \cup {Invalid}
  /\ raw \subseteq Fds

IInv == TypeOK /\ OneOwner

LEMMA Numbers == Invalid \notin Fds /\ ~(Invalid >= 0) /\ \A n \in Fds : n >= 0
BY FdsAssumption DEF FdsAssumption, Invalid

\* What an object holds is a number of the kernel's, or nothing.
LEMMA HeldNumber ==
  ASSUME TypeOK, NEW h \in Live
  PROVE  /\ Holds(h) <=> fd_[h] \in Fds
         /\ \A n \in Fds : n \in Held(h) <=> fd_[h] = n
<1>1. CASE fd_[h] = Invalid
  BY <1>1, Numbers DEF Holds, Held
<1>2. CASE fd_[h] \in Fds
  BY <1>2, Numbers DEF Holds, Held
<1> QED
  BY <1>1, <1>2 DEF TypeOK

LEMMA OwnersInit == Init => IInv
BY DEF Init, IInv, TypeOK, OneOwner, Live

LEMMA OwnersKernel ==
  ASSUME IInv, NEW n \in Fds, Open(n) \/ CloseRaw(n)
  PROVE  IInv'
<1>1. CASE Open(n)
  BY <1>1 DEF Open, IInv, TypeOK, OneOwner, Live, Holds
<1>2. CASE CloseRaw(n)
  BY <1>2 DEF CloseRaw, Close, IInv, TypeOK, OneOwner, Live, Holds
<1> QED
  BY <1>1, <1>2

LEMMA OwnersConstruct ==
  ASSUME IInv, NEW h \in Handles, NEW n \in Fds \cup {Invalid}, Construct(h, n)
  PROVE  IInv'
<1>1. /\ h \notin Live /\ Live' = Live \cup {h} /\ fd_'[h] = n
      /\ \A x \in Live : fd_'[x] = fd_[x]
      /\ n \in raw \cup {Invalid} /\ raw' = raw \ {n} /\ open' = open
  BY DEF Construct, With, Live
<1>2. TypeOK'
  BY <1>1 DEF IInv, TypeOK
<1>3. \A x, y \in Live' : Holds(x)' /\ fd_'[x] = fd_'[y] => x = y
  BY <1>1, Numbers DEF IInv, OneOwner, Holds
<1>4. \A x \in Live' : fd_'[x] \notin raw'
  BY <1>1 DEF IInv, OneOwner
<1>5. ASSUME NEW m \in Fds
      PROVE  m \in open' <=> (m \in raw' \/ \E x \in Live' : fd_'[x] = m)
  <2>1. m \in open <=> (m \in raw \/ \E x \in Live : fd_[x] = m)
    BY DEF IInv, OneOwner
  <2>2. (\E x \in Live' : fd_'[x] = m) <=> (n = m \/ \E x \in Live : fd_[x] = m)
    BY <1>1
  <2> QED
    BY <1>1, <2>1, <2>2, Numbers
<1> QED
  BY <1>2, <1>3, <1>4, <1>5 DEF IInv, OneOwner

\* The number of g goes to h.
LEMMA OwnersMove ==
  ASSUME IInv, NEW h \in Handles, NEW g \in Live, h # g, fd_' = Moved(h, g)
  PROVE  /\ Live' = Live \cup {h} /\ Live' \subseteq Handles
         /\ \A x \in Live' : fd_'[x] = IF x = h THEN fd_[g]
                                        ELSE IF x = g THEN Invalid ELSE fd_[x]
         /\ \A x \in Live' : fd_'[x] \in Fds \cup {Invalid}
         /\ \A x, y \in Live' : Holds(x)' /\ fd_'[x] = fd_'[y] => x = y
<1>1. Live' = Live \cup {h} /\ Live' \subseteq Handles
  BY DEF Moved, Live, IInv, TypeOK
<1>2. \A x \in Live' : fd_'[x] = IF x = h THEN fd_[g] ELSE IF x = g THEN Invalid ELSE fd_[x]
  BY <1>1 DEF Moved, Live
<1>3. \A x \in Live' : fd_'[x] \in Fds \cup {Invalid}
  BY <1>1, <1>2 DEF IInv, TypeOK
<1>4. \A x, y \in Live' : Holds(x)' /\ fd_'[x] = fd_'[y] => x = y
  BY <1>1, <1>2, Numbers DEF IInv, OneOwner, Holds
<1> QED
  BY <1>1, <1>2, <1>3, <1>4

LEMMA OwnersMoveConstruct ==
  ASSUME IInv, NEW h \in Handles, NEW g \in Handles, MoveConstruct(h, g)
  PROVE  IInv'
<1>1. h # g /\ g \in Live /\ h \notin Live /\ fd_' = Moved(h, g) /\ UNCHANGED <<open, raw>>
  BY DEF MoveConstruct
<1>2. TypeOK'
  BY <1>1, OwnersMove DEF IInv, TypeOK
<1>3. \A x \in Live' : fd_'[x] \notin raw'
  BY <1>1, OwnersMove, Numbers DEF IInv, TypeOK, OneOwner
<1>4. ASSUME NEW n \in Fds
      PROVE  (\E x \in Live' : fd_'[x] = n) <=> (\E x \in Live : fd_[x] = n)
  BY <1>1, OwnersMove, Numbers
<1> QED
  BY <1>1, <1>2, <1>3, <1>4, OwnersMove DEF IInv, OneOwner

LEMMA OwnersMoveAssign ==
  ASSUME IInv, NEW h \in Handles, NEW g \in Handles, MoveAssign(h, g)
  PROVE  IInv'
<1>1. /\ h # g /\ g \in Live /\ h \in Live /\ fd_' = Moved(h, g)
      /\ raw' = raw /\ open' = open \ Held(h)
  BY DEF MoveAssign, Close
<1>2. TypeOK'
  BY <1>1, OwnersMove DEF IInv, TypeOK
<1>3. \A x \in Live' : fd_'[x] \notin raw'
  BY <1>1, OwnersMove, Numbers DEF IInv, TypeOK, OneOwner
<1>4. ASSUME NEW n \in Fds
      PROVE  n \in open' <=> (n \in raw' \/ \E x \in Live' : fd_'[x] = n)
  <2>1. n \in open <=> (n \in raw \/ \E x \in Live : fd_[x] = n)
    BY DEF IInv, OneOwner
  <2>2. n \in Held(h) <=> fd_[h] = n
    BY <1>1, HeldNumber DEF IInv
  <2>3. (\E x \in Live' : fd_'[x] = n) <=> \E x \in Live : x # h /\ fd_[x] = n
    BY <1>1, OwnersMove, Numbers
  <2>4. \A x \in Live : fd_[x] = n /\ fd_[h] = n => x = h
    BY <1>1, Numbers DEF IInv, OneOwner, Holds
  <2>5. fd_[h] = n => n \notin raw
    BY <1>1 DEF IInv, OneOwner
  <2> QED
    BY <1>1, <2>1, <2>2, <2>3, <2>4, <2>5
<1> QED
  BY <1>2, <1>3, <1>4, <1>1, OwnersMove DEF IInv, OneOwner

LEMMA OwnersLeave ==
  ASSUME IInv, NEW h \in Handles, Release(h) \/ SetNonblocking(h) \/ Destroy(h)
  PROVE  IInv'
<1>1. CASE Release(h)
  <2>1. /\ h \in Live /\ Live' = Live /\ fd_'[h] = Invalid
        /\ \A x \in Live : x # h => fd_'[x] = fd_[x]
        /\ raw' = raw \cup Held(h) /\ open' = open
    BY <1>1 DEF Release, With, Live
  <2>2. \A n \in Fds : n \in Held(h) <=> fd_[h] = n
    BY <2>1, HeldNumber DEF IInv
  <2>3. Held(h) \subseteq Fds
    BY <2>1, HeldNumber DEF IInv, Held
  <2>4. TypeOK'
    BY <2>1, <2>3 DEF IInv, TypeOK
  <2>5. \A x, y \in Live' : Holds(x)' /\ fd_'[x] = fd_'[y] => x = y
    BY <2>1, Numbers DEF IInv, OneOwner, Holds
  <2>6. \A x \in Live' : fd_'[x] \notin raw'
    BY <2>1, <2>2, <2>3, Numbers, HeldNumber DEF IInv, TypeOK, OneOwner
  <2>7. \A n \in Fds : n \in open' <=> (n \in raw' \/ \E x \in Live' : fd_'[x] = n)
    BY <2>1, <2>2, Numbers DEF IInv, OneOwner
  <2> QED
    BY <2>4, <2>5, <2>6, <2>7 DEF IInv, OneOwner
<1>2. CASE SetNonblocking(h)
  BY <1>2 DEF SetNonblocking, IInv, TypeOK, OneOwner, Live, Holds
<1>3. CASE Destroy(h)
  <2>1. /\ h \in Live /\ Live' = Live \ {h}
        /\ \A x \in Live' : fd_'[x] = fd_[x]
        /\ raw' = raw /\ open' = open \ Held(h)
    BY <1>3 DEF Destroy, Close, Restrict, Live
  <2>2. \A n \in Fds : n \in Held(h) <=> fd_[h] = n
    BY <2>1, HeldNumber DEF IInv
  <2>3. TypeOK'
    BY <2>1 DEF IInv, TypeOK
  <2>4. \A x \in Live : x # h => fd_[x] # fd_[h] \/ fd_[x] \notin Fds
    BY <2>1, Numbers DEF IInv, OneOwner, Holds
  <2>5. \A x, y \in Live' : Holds(x)' /\ fd_'[x] = fd_'[y] => x = y
    BY <2>1 DEF IInv, OneOwner, Holds
  <2>6. \A n \in Fds : n \in open' <=> (n \in raw' \/ \E x \in Live' : fd_'[x] = n)
    BY <2>1, <2>2, <2>4 DEF IInv, OneOwner
  <2> QED
    BY <2>1, <2>3, <2>5, <2>6 DEF IInv, OneOwner
<1> QED
  BY <1>1, <1>2, <1>3

LEMMA OwnersStep == IInv /\ [Next]_vars => IInv'
<1> SUFFICES ASSUME IInv, [Next]_vars PROVE IInv'
  OBVIOUS
<1>1. ASSUME NEW n \in Fds, Open(n) \/ CloseRaw(n)
      PROVE  IInv'
  BY <1>1, OwnersKernel
<1>2. ASSUME NEW h \in Handles, NEW n \in Fds \cup {Invalid}, Construct(h, n)
      PROVE  IInv'
  BY <1>2, OwnersConstruct
<1>3. ASSUME NEW h \in Handles, NEW g \in Handles, MoveConstruct(h, g) \/ MoveAssign(h, g)
      PROVE  IInv'
  BY <1>3, OwnersMoveConstruct, OwnersMoveAssign
<1>4. ASSUME NEW h \in Handles, Release(h) \/ SetNonblocking(h) \/ Destroy(h)
      PROVE  IInv'
  BY <1>4, OwnersLeave
<1>5. CASE UNCHANGED vars
  BY <1>5 DEF vars, IInv, TypeOK, OneOwner, Live, Holds, Held
<1> QED
  BY <1>1, <1>2, <1>3, <1>4, <1>5 DEF Next

\* However FileDescriptor objects are constructed, moved, assigned, released and
\* destroyed, no descriptor leaks, none is closed twice and none is closed by an object
\* that no longer owns it.
THEOREM DescriptorsOwned == Spec => []OneOwner
BY OwnersInit, OwnersStep, PTL DEF Spec, IInv

=============================================================================
