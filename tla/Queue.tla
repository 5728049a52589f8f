-------------------------------- MODULE Queue --------------------------------
(***************************************************************************)
(* Lists used as queues: the store with a record of what was pushed to and *)
(* popped from each list, some of them pushed on the right and popped on   *)
(* the left, the others the other way round.                               *)
(***************************************************************************)
EXTENDS Store

CONSTANTS
  Rightward,  \* the lists that are pushed on the right
  MaxPushed   \* bound: the values pushed to one list

VARIABLES
  pushed,  \* for each list, the values pushed, in order
  popped   \* for each list, the values popped, in order

QueueVars == <<vars, pushed, popped>>

Discipline(k) == IF k \in Rightward THEN {"RPUSH", "LPOP"} ELSE {"LPUSH", "RPOP"}
Reading == {"LRANGE", "LLEN", "LINDEX"}

QueueInit ==
  /\ Init
  /\ pushed = [k \in Keys |-> <<>>]
  /\ popped = [k \in Keys |-> <<>>]

QueueNext ==
  /\ ListsNext
  /\ \A k \in last'.keys :
       /\ last'.cmd \in Discipline(k) \cup Reading
       /\ pushed' = [pushed EXCEPT ![k] =
                       IF last'.cmd \in {"RPUSH", "LPUSH"} THEN @ \o last'.arg ELSE @]
       /\ popped' = [popped EXCEPT ![k] =
                       IF last'.cmd \in {"LPOP", "RPOP"} /\ last'.reply # Nil
                       THEN Append(@, last'.reply.s) ELSE @]
       /\ Len(pushed'[k]) <= MaxPushed

QueueSpec == QueueInit /\ [][QueueNext]_QueueVars

\* What a list holds, in the order in which it was pushed.
Contents(k) == IF k \in DOMAIN data THEN data[k].value ELSE <<>>
InOrder(k) == IF k \in Rightward THEN Contents(k) ELSE Reverse(Contents(k))

\* A list pushed at one end and popped at the other is a queue: over any number of
\* commands the values popped, followed by those still in the list, are the values
\* pushed, in their order; none is lost, doubled or overtaken.
QueueOrder == \A k \in Keys : popped[k] \o InOrder(k) = pushed[k]

=============================================================================
