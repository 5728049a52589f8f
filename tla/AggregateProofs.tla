--------------------------- MODULE AggregateProofs ---------------------------
(***************************************************************************)
(* Proofs about lists, hashes and sets for every value of the constants:   *)
(* ranges agree with indices, a list pushed at one end and popped at the   *)
(* other keeps the order of its values, the numbers answered account for   *)
(* the change of size, and unions and intersections are of sets that lived *)
(* while they were computed.                                               *)
(***************************************************************************)
EXTENDS Queue, StoreProofs, SequenceTheorems

-----------------------------------------------------------------------------
(* Clamped ranges.                                                         *)

LEMMA MaxWithZero ==
  ASSUME NEW n \in Int
  PROVE  Max({n, 0}) = IF n > 0 THEN n ELSE 0
<1> DEFINE m == IF n > 0 THEN n ELSE 0
<1>1. m \in {n, 0} /\ \A y \in {n, 0} : m >= y
  OBVIOUS
<1>2. \A x \in {n, 0} : (\A y \in {n, 0} : x >= y) => x = m
  OBVIOUS
<1> QED
  BY <1>1, <1>2 DEF Max

LEMMA MinOfIndices ==
  ASSUME NEW a \in Int, NEW b \in Int
  PROVE  Min({a, b}) = IF a <= b THEN a ELSE b
<1> DEFINE m == IF a <= b THEN a ELSE b
<1>1. m \in {a, b} /\ \A y \in {a, b} : m <= y
  OBVIOUS
<1>2. \A x \in {a, b} : (\A y \in {a, b} : x <= y) => x = m
  OBVIOUS
<1> QED
  BY <1>1, <1>2 DEF Min

\* The positions of a range are an interval, and Slice cuts out that interval.
LEMMA SliceIsInterval ==
  ASSUME NEW list \in Seq(Str), NEW start \in Int, NEW stop \in Int
  PROVE  \E lo \in Nat, hi \in Int :
           /\ lo <= hi + 1 /\ hi < Len(list)
           /\ Positions(list, start, stop) = lo..hi
           /\ Slice(list, start, stop) = SubSeq(list, lo + 1, hi + 1)
<1> DEFINE size == Len(list)
           a == NormalizeIndex(start, size)
           b == NormalizeIndex(stop, size)
           first == IF a > 0 THEN a ELSE 0
           end == IF b <= size - 1 THEN b ELSE size - 1
<1>1. size \in Nat /\ a \in Int /\ b \in Int
  BY DEF NormalizeIndex
<1>2. Max({a, 0}) = first
  BY <1>1, MaxWithZero
<1>3. Min({b, size - 1}) = end
  BY <1>1, MinOfIndices
<1>4. Slice(list, start, stop) =
        IF size = 0 \/ first > end \/ first >= size \/ end < 0 THEN <<>>
        ELSE SubSeq(list, first + 1, end + 1)
  BY <1>2, <1>3 DEF Slice
<1>5. Positions(list, start, stop) = {p \in 0..(size - 1) : a <= p /\ p <= b}
  BY DEF Positions
<1> HIDE DEF size, a, b
<1>6. CASE size = 0 \/ first > end \/ first >= size \/ end < 0
  <2>1. Positions(list, start, stop) = 0..(-1)
    BY <1>1, <1>5, <1>6
  <2>2. -1 < size
    BY <1>1
  <2>3. SubSeq(list, 1, 0) = <<>>
    BY SubSeqEmpty
  <2>4. Slice(list, start, stop) = <<>>
    BY <1>4, <1>6
  <2>5. /\ 0 <= -1 + 1 /\ -1 < Len(list) /\ 0 + 1 = 1 /\ -1 + 1 = 0
        /\ 0 \in Nat /\ -1 \in Int
    BY <1>1, <2>2 DEF size
  <2> QED
    BY <2>1, <2>3, <2>4, <2>5
<1>7. CASE ~(size = 0 \/ first > end \/ first >= size \/ end < 0)
  <2>1. Positions(list, start, stop) = first..end
    BY <1>1, <1>5, <1>7
  <2>2. first \in Nat /\ end \in Int /\ first <= end + 1 /\ end < size
    BY <1>1, <1>7
  <2> QED
    BY <1>4, <1>7, <2>1, <2>2 DEF size
<1> QED
  BY <1>6, <1>7

\* LRANGE and LINDEX agree on one list.
LEMMA RangeAgrees ==
  ASSUME NEW list \in Seq(Str), NEW start \in Int, NEW stop \in Int
  PROVE  LET ps == Positions(list, start, stop)
             range == Slice(list, start, stop)
         IN  /\ Len(range) = Cardinality(ps)
             /\ \A p \in ps :
                  Bulk(range[Cardinality({q \in ps : q <= p})]) = ElementAt(list, p)
<1> DEFINE ps == Positions(list, start, stop)
           range == Slice(list, start, stop)
<1>1. PICK lo \in Nat, hi \in Int :
        /\ lo <= hi + 1 /\ hi < Len(list)
        /\ ps = lo..hi
        /\ range = SubSeq(list, lo + 1, hi + 1)
  BY SliceIsInterval
<1> HIDE DEF ps, range
<1>2. \A p \in Int : lo <= p + 1 => Cardinality(lo..p) = p - lo + 1
  BY FS_Interval
<1>3. Len(range) = hi - lo + 1
  BY <1>1
<1>4. ASSUME NEW p \in ps
      PROVE  Bulk(range[Cardinality({q \in ps : q <= p})]) = ElementAt(list, p)
  <2>1. p \in Int /\ lo <= p /\ p <= hi /\ p < Len(list)
    BY <1>1
  <2>2. {q \in ps : q <= p} = lo..p
    BY <1>1, <2>1
  <2>3. Cardinality({q \in ps : q <= p}) = p - lo + 1
    <3>1. Cardinality(lo..p) = p - lo + 1
      BY <1>2, <2>1
    <3> QED
      BY <2>2, <3>1
  <2>4. range[p - lo + 1] = list[p + 1]
    BY <1>1, <2>1
  <2>5. ElementAt(list, p) = Bulk(list[p + 1])
    BY <2>1 DEF ElementAt, NormalizeIndex
  <2> QED
    BY <2>3, <2>4, <2>5
<1> QED
  BY <1>1, <1>2, <1>3, <1>4 DEF ps, range

\* LRANGE answers exactly what LINDEX answers at each position from start to stop,
\* for every list the store can hold and every pair of std::int64_t indices, however
\* far beyond either end.
THEOREM RangesAgree == Spec => []RangesAgreeWithIndices
<1>1. Indices \subseteq Int
  BY ListsAssumption, I64Type DEF ListsAssumption
<1>2. Inv => RangesAgreeWithIndices
  <2> SUFFICES ASSUME Inv, NEW k \in DOMAIN data, data[k].type = "list",
                      NEW start \in Indices, NEW stop \in Indices
               PROVE  LET list == data[k].value
                          ps == Positions(list, start, stop)
                          range == Slice(list, start, stop)
                      IN  /\ Len(range) = Cardinality(ps)
                          /\ \A p \in ps : Bulk(range[Cardinality({q \in ps : q <= p})]) =
                                             ElementAt(list, p)
    BY DEF RangesAgreeWithIndices
  <2>1. data[k].value \in Seq(Str)
    BY DEF Inv, Good, IsKeyspace, IsEntry, IsValue
  <2> QED
    BY <1>1, <2>1, RangeAgrees
<1> QED
  BY <1>2, InvAlways, PTL

-----------------------------------------------------------------------------
(* Sequences taken apart and turned round.                                 *)

LEMMA FirstRemoved ==
  ASSUME NEW S, NEW list \in Seq(S), list # <<>>
  PROVE  /\ RemoveAt(list, 1) \in Seq(S) /\ list[1] \in S
         /\ list = <<list[1]>> \o RemoveAt(list, 1)
<1> DEFINE n == Len(list)
<1>1. n \in Nat \ {0} /\ 1 \in 1..n /\ n \in 1..n
  BY EmptySeq
<1>2. SubSeq(list, 1, n) = <<list[1]>> \o SubSeq(list, 2, n)
  BY <1>1, SubSeqRecursiveFirst
<1>3. SubSeq(list, 1, n) = list
  BY SubSeqFull
<1>4. \A i \in 2..n : list[i] \in S
  BY <1>1
<1>5. SubSeq(list, 2, n) \in Seq(S)
  BY <1>1, <1>4, SubSeqProperties
<1>6. SubSeq(list, 1, 1 - 1) = <<>>
  BY SubSeqEmpty
<1>7. <<>> \o SubSeq(list, 2, n) = SubSeq(list, 2, n)
  BY <1>5, ConcatEmptySeq
<1>8. RemoveAt(list, 1) = SubSeq(list, 2, n)
  BY <1>6, <1>7 DEF RemoveAt
<1>9. list[1] \in S
  BY <1>1
<1> QED
  BY <1>2, <1>3, <1>5, <1>8, <1>9

LEMMA LastRemoved ==
  ASSUME NEW S, NEW list \in Seq(S), list # <<>>
  PROVE  /\ RemoveAt(list, Len(list)) \in Seq(S) /\ list[Len(list)] \in S
         /\ list = RemoveAt(list, Len(list)) \o <<list[Len(list)]>>
<1> DEFINE n == Len(list)
<1>1. n \in Nat \ {0} /\ 1 \in 1..n /\ n \in 1..n
  BY EmptySeq
<1>2. SubSeq(list, 1, n) = SubSeq(list, 1, n - 1) \o <<list[n]>>
  BY <1>1, SubSeqRecursiveSecond
<1>3. SubSeq(list, 1, n) = list
  BY SubSeqFull
<1>4. \A i \in 1..(n - 1) : list[i] \in S
  BY <1>1
<1>5. SubSeq(list, 1, n - 1) \in Seq(S)
  BY <1>1, <1>4, SubSeqProperties
<1>6. SubSeq(list, n + 1, n) = <<>>
  BY <1>1, SubSeqEmpty
<1>7. SubSeq(list, 1, n - 1) \o <<>> = SubSeq(list, 1, n - 1)
  BY <1>5, ConcatEmptySeq
<1>8. RemoveAt(list, n) = SubSeq(list, 1, n - 1)
  BY <1>6, <1>7 DEF RemoveAt
<1>9. list[n] \in S
  BY <1>1
<1> QED
  BY <1>2, <1>3, <1>5, <1>8, <1>9

LEMMA ReverseType ==
  ASSUME NEW S, NEW s \in Seq(S)
  PROVE  /\ Reverse(s) \in Seq(S) /\ Len(Reverse(s)) = Len(s)
         /\ \A i \in 1..Len(s) : Reverse(s)[i] = s[Len(s) - i + 1]
BY DEF Reverse

LEMMA ReverseTwice ==
  ASSUME NEW S, NEW s \in Seq(S)
  PROVE  Reverse(Reverse(s)) = s
<1> DEFINE r == Reverse(s)
           rr == Reverse(r)
<1>1. /\ r \in Seq(S) /\ Len(r) = Len(s)
      /\ \A i \in 1..Len(s) : r[i] = s[Len(s) - i + 1]
  BY ReverseType
<1>2. /\ rr \in Seq(S) /\ Len(rr) = Len(r)
      /\ \A i \in 1..Len(r) : rr[i] = r[Len(r) - i + 1]
  BY <1>1, ReverseType
<1> HIDE DEF r, rr
<1>3. ASSUME NEW i \in 1..Len(s)
      PROVE  rr[i] = s[i]
  <2>1. Len(s) - i + 1 \in 1..Len(s) /\ Len(s) - (Len(s) - i + 1) + 1 = i
    OBVIOUS
  <2> QED
    BY <1>1, <1>2, <2>1
<1> QED
  BY <1>1, <1>2, <1>3, SeqEqual DEF r, rr

LEMMA ReverseConcat ==
  ASSUME NEW S, NEW s \in Seq(S), NEW t \in Seq(S)
  PROVE  Reverse(s \o t) = Reverse(t) \o Reverse(s)
<1> DEFINE m == Len(s)
           n == Len(t)
           whole == s \o t
           rs == Reverse(s)
           rt == Reverse(t)
           left == Reverse(whole)
           right == rt \o rs
<1>1. m \in Nat /\ n \in Nat
  OBVIOUS
<1>2. /\ whole \in Seq(S) /\ Len(whole) = m + n
      /\ \A i \in 1..(m + n) : whole[i] = IF i <= m THEN s[i] ELSE t[i - m]
  BY ConcatProperties
<1>3. rs \in Seq(S) /\ Len(rs) = m /\ \A i \in 1..m : rs[i] = s[m - i + 1]
  BY ReverseType
<1>4. rt \in Seq(S) /\ Len(rt) = n /\ \A i \in 1..n : rt[i] = t[n - i + 1]
  BY ReverseType
<1> HIDE DEF whole, rs, rt
<1>5. whole \in Seq(S) /\ rs \in Seq(S) /\ rt \in Seq(S)
  BY <1>2, <1>3, <1>4
<1>6. /\ left \in Seq(S) /\ Len(left) = Len(whole)
      /\ \A i \in 1..Len(whole) : left[i] = whole[Len(whole) - i + 1]
  BY <1>5, ReverseType
<1>7. /\ right \in Seq(S) /\ Len(right) = Len(rt) + Len(rs)
      /\ \A i \in 1..(Len(rt) + Len(rs)) :
           right[i] = IF i <= Len(rt) THEN rt[i] ELSE rs[i - Len(rt)]
  BY <1>5, ConcatProperties
<1> HIDE DEF left, right
<1>8. /\ left \in Seq(S) /\ Len(left) = m + n
      /\ \A i \in 1..(m + n) : left[i] = whole[m + n - i + 1]
  BY <1>2, <1>6
<1>9. /\ right \in Seq(S) /\ Len(right) = n + m
      /\ \A i \in 1..(n + m) : right[i] = IF i <= n THEN rt[i] ELSE rs[i - n]
  BY <1>3, <1>4, <1>7
<1>10. ASSUME NEW i \in 1..(m + n)
      PROVE  left[i] = right[i]
  <2> DEFINE j == m + n - i + 1
  <2>1. j \in 1..(m + n)
    BY <1>1
  <2>2. left[i] = IF j <= m THEN s[j] ELSE t[j - m]
    BY <1>2, <1>8, <2>1
  <2>3. CASE i <= n
    <3>1. i \in 1..n /\ i \in 1..(n + m) /\ ~(j <= m) /\ j - m = n - i + 1
      BY <1>1, <2>3
    <3>2. right[i] = t[n - i + 1]
      BY <1>4, <1>9, <2>3, <3>1
    <3> QED
      BY <2>2, <3>1, <3>2
  <2>4. CASE i > n
    <3>1. i - n \in 1..m /\ j <= m /\ m - (i - n) + 1 = j /\ ~(i <= n) /\ i \in 1..(n + m)
      BY <1>1, <2>4
    <3>2. right[i] = rs[i - n]
      BY <1>9, <3>1
    <3>3. rs[i - n] = s[j]
      BY <1>3, <3>1
    <3> QED
      BY <2>2, <3>1, <3>2, <3>3
  <2> QED
    BY <1>1, <2>3, <2>4
<1>11. Len(left) = Len(right)
  BY <1>1, <1>8, <1>9
<1>12. left = right
  BY <1>8, <1>9, <1>10, <1>11, SeqEqual
<1> QED
  BY <1>12 DEF left, right, whole, rs, rt

LEMMA ReverseOne ==
  ASSUME NEW x
  PROVE  Reverse(<<x>>) = <<x>>
BY DEF Reverse

-----------------------------------------------------------------------------
(* Lists used as queues.  The invariant says what the store holds besides: *)
(* nothing but lists, none with a deadline.                                *)

OnlyLists == \A k \in DOMAIN data : data[k].type = "list" /\ data[k].expires_at_ms = 0

Recorded == pushed \in [Keys -> Seq(Str)] /\ popped \in [Keys -> Seq(Str)]

QueueInv == Inv /\ OnlyLists /\ Recorded /\ QueueOrder

LEMMA ContentsType ==
  ASSUME Good(data), OnlyLists, NEW k
  PROVE  Contents(k) \in Seq(Str)
<1>1. <<>> \in Seq(Str)
  OBVIOUS
<1> QED
  BY <1>1 DEF Good, IsKeyspace, IsEntry, IsValue, OnlyLists, Contents

LEMMA FoundUnexpired ==
  ASSUME OnlyLists, NEW k, NEW t
  PROVE  FindLiveMut(data, k, t) = data
BY DEF OnlyLists, FindLiveMut, IsExpired

\* What a push makes of the contents of its list and of the others.
LEMMA PushContents ==
  ASSUME OnlyLists, NEW k, NEW front, NEW back, NEW t,
         data' = PushInto(data, k, front, back, t).data
  PROVE  /\ OnlyLists'
         /\ Contents(k)' = front \o Contents(k) \o back
         /\ \A j : j # k => Contents(j)' = Contents(j)
<1> DEFINE list == front \o Contents(k) \o back
<1>1. ValueAt(data, k, <<>>) = Contents(k) /\ ~Conflict(data, k, "list")
  BY DEF ValueAt, Contents, Conflict, OnlyLists
<1>2. PushInto(data, k, front, back, t).data = Update(data, k, "list", list)
  BY <1>1, FoundUnexpired DEF PushInto, Returns
<1> HIDE DEF list
<1>3. data' = [j \in DOMAIN data \cup {k} |-> IF j = k THEN Entry("list", list, 0) ELSE data[j]]
  BY <1>2 DEF Update, Put, OnlyLists
<1>4. OnlyLists'
  BY <1>3 DEF OnlyLists, Entry
<1>5. Contents(k)' = list
  BY <1>3 DEF Contents, Entry
<1>6. \A j : j # k => Contents(j)' = Contents(j)
  BY <1>3 DEF Contents
<1> QED
  BY <1>4, <1>5, <1>6 DEF list

\* What a pop makes of them, and what it answers.
LEMMA PopContents ==
  ASSUME OnlyLists, NEW k, NEW t, NEW end, NEW i,
         i = IF end = "left" THEN 1 ELSE Len(Contents(k)),
         data' = PopFrom(data, k, t, end).data
  PROVE  LET list == Contents(k)
             reply == PopFrom(data, k, t, end).reply
         IN  /\ OnlyLists'
             /\ \A j : j # k => Contents(j)' = Contents(j)
             /\ list = <<>> => Contents(k)' = <<>> /\ reply = Nil
             /\ list # <<>> => Contents(k)' = RemoveAt(list, i) /\ reply = Bulk(list[i])
<1> DEFINE list == Contents(k)
           rest == RemoveAt(list, i)
           out == PopFrom(data, k, t, end)
<1>1. FindLiveMut(data, k, t) = data /\ ~Conflict(data, k, "list")
  BY FoundUnexpired DEF Conflict, OnlyLists
<1>2. k \in DOMAIN data => list = data[k].value
  BY DEF Contents
<1>3. k \notin DOMAIN data => list = <<>>
  BY DEF Contents
<1>4. out = IF k \notin DOMAIN data THEN Returns(data, Nil)
            ELSE IF list = <<>> THEN Returns(Erase(data, {k}), Nil)
            ELSE Returns(Shorten(data, k, rest), Bulk(list[i]))
  BY <1>1, <1>2 DEF PopFrom
<1> HIDE DEF list, rest, out
<1>5. out.reply = IF list = <<>> THEN Nil ELSE Bulk(list[i])
  BY <1>3, <1>4 DEF Returns
<1>6. data' = IF k \notin DOMAIN data THEN data
              ELSE IF list = <<>> \/ rest = <<>> THEN Erase(data, {k})
              ELSE Update(data, k, "list", rest)
  BY <1>4 DEF Returns, Shorten, out
<1>7. OnlyLists' /\ \A j : j # k => Contents(j)' = Contents(j)
  BY <1>6 DEF OnlyLists, Contents, Erase, Restrict, Update, Put, Entry
<1>8. list = <<>> => Contents(k)' = <<>>
  BY <1>2, <1>6 DEF Contents, Erase, Restrict, list
<1>9. list # <<>> => Contents(k)' = rest
  BY <1>3, <1>6 DEF Contents, Erase, Restrict, Update, Put, Entry
<1> QED
  BY <1>5, <1>7, <1>8, <1>9 DEF list, rest, out

\* One command takes out of the list k the values taken, at the end where the list is
\* popped, after putting those given in at the other.
LEMMA QueueAdvances ==
  ASSUME QueueInv, Inv', OnlyLists', NEW k \in Keys,
         NEW given \in Seq(Str), NEW taken \in Seq(Str),
         pushed' = [pushed EXCEPT ![k] = @ \o given],
         popped' = [popped EXCEPT ![k] = @ \o taken],
         \A j : j # k => Contents(j)' = Contents(j),
         InOrder(k) \o given = taken \o InOrder(k)'
  PROVE  QueueInv'
<1>1. InOrder(k) \in Seq(Str) /\ InOrder(k)' \in Seq(Str)
  <2>1. Contents(k) \in Seq(Str)
    BY ContentsType DEF QueueInv, Inv
  <2>2. Contents(k)' \in Seq(Str)
    <3>1. <<>> \in Seq(Str)
      OBVIOUS
    <3> QED
      BY <3>1 DEF Inv, Good, IsKeyspace, IsEntry, IsValue, OnlyLists, Contents
  <2> QED
    BY <2>1, <2>2, ReverseType DEF InOrder
<1>2. pushed[k] \in Seq(Str) /\ popped[k] \in Seq(Str)
  BY DEF QueueInv, Recorded
<1>3. PICK in, out, before, after :
        in = pushed[k] /\ out = popped[k] /\ before = InOrder(k) /\ after = InOrder(k)'
  OBVIOUS
<1>4. in \in Seq(Str) /\ out \in Seq(Str) /\ before \in Seq(Str) /\ after \in Seq(Str)
  BY <1>1, <1>2, <1>3
<1>5. out \o before = in /\ before \o given = taken \o after
  BY <1>3 DEF QueueInv, QueueOrder
<1>6. (out \o taken) \o after = in \o given
  <2>1. out \in Seq(Str) /\ taken \in Seq(Str) /\ after \in Seq(Str)
    BY <1>4
  <2>2. (out \o taken) \o after = out \o (taken \o after)
    BY <2>1, ConcatAssociative
  <2>3. out \in Seq(Str) /\ before \in Seq(Str) /\ given \in Seq(Str)
    BY <1>4
  <2>4. (out \o before) \o given = out \o (before \o given)
    BY <2>3, ConcatAssociative
  <2> QED
    BY <1>5, <2>2, <2>4
<1>7. pushed'[k] = in \o given /\ popped'[k] = out \o taken
  BY <1>3 DEF QueueInv, Recorded
<1>8. Recorded'
  <2>1. in \o given \in Seq(Str) /\ out \o taken \in Seq(Str)
    BY <1>4, ConcatProperties
  <2> QED
    BY <1>3, <2>1 DEF QueueInv, Recorded
<1>9. QueueOrder'
  <2> SUFFICES ASSUME NEW j \in Keys
               PROVE  popped'[j] \o InOrder(j)' = pushed'[j]
    BY DEF QueueOrder
  <2>1. CASE j = k
    BY <1>3, <1>6, <1>7, <2>1
  <2>2. CASE j # k
    <3>1. InOrder(j)' = InOrder(j)
      BY <2>2 DEF InOrder
    <3>2. pushed'[j] = pushed[j] /\ popped'[j] = popped[j]
      BY <2>2 DEF QueueInv, Recorded
    <3> QED
      BY <3>1, <3>2 DEF QueueInv, QueueOrder
  <2> QED
    BY <2>1, <2>2
<1> QED
  BY <1>8, <1>9 DEF QueueInv

\* What QueueNext records of a command on the one list k.
Recording(cmd, k, arg, reply) ==
  /\ cmd \in Discipline(k) \cup Reading
  /\ pushed' = [pushed EXCEPT ![k] = IF cmd \in {"RPUSH", "LPUSH"} THEN @ \o arg ELSE @]
  /\ popped' = [popped EXCEPT ![k] = IF cmd \in {"LPOP", "RPOP"} /\ reply # Nil
                                     THEN Append(@, reply.s) ELSE @]

LEMMA QueueCommand ==
  ASSUME QueueNext, NEW cmd, NEW k, NEW arg, NEW now, NEW outcome,
         Command(cmd, {k}, arg, now, outcome)
  PROVE  data' = outcome.data /\ Recording(cmd, k, arg, outcome.reply)
<1>1. /\ data' = outcome.data
      /\ last' = [cmd |-> cmd, keys |-> {k}, arg |-> arg, reply |-> outcome.reply]
  BY DEF Command
<1>2. last'.cmd = cmd /\ last'.keys = {k} /\ last'.arg = arg /\ last'.reply = outcome.reply
  BY <1>1
<1> QED
  BY <1>1, <1>2 DEF QueueNext, Recording

LEMMA NothingMoves ==
  ASSUME NEW r \in [Keys -> Seq(Str)], NEW k \in Keys
  PROVE  /\ [r EXCEPT ![k] = @] = [r EXCEPT ![k] = @ \o <<>>]
         /\ <<>> \in Seq(Str)
<1>1. r[k] \o <<>> = r[k]
  BY ConcatEmptySeq
<1> QED
  BY <1>1

LEMMA QueuePush ==
  ASSUME QueueInv, Inv', QueueNext, NEW cmd \in {"LPUSH", "RPUSH"}, NEW k \in Keys,
         NEW vs \in Seq(Str), NEW t \in Now, NEW out, Command(cmd, {k}, vs, t, out),
         out = IF cmd = "LPUSH" THEN Lpush(data, k, vs, t) ELSE Rpush(data, k, vs, t)
  PROVE  QueueInv'
<1> DEFINE front == IF cmd = "LPUSH" THEN Reverse(vs) ELSE <<>>
           back == IF cmd = "LPUSH" THEN <<>> ELSE vs
<1>1. out = PushInto(data, k, front, back, t)
  BY DEF Lpush, Rpush
<1> HIDE DEF front, back
<1>2. /\ data' = out.data
      /\ cmd \in Discipline(k) \cup Reading
      /\ pushed' = [pushed EXCEPT ![k] = @ \o vs]
      /\ popped' = [popped EXCEPT ![k] = @]
  <2>1. data' = out.data /\ Recording(cmd, k, vs, out.reply)
    BY QueueCommand
  <2>2. cmd \in {"RPUSH", "LPUSH"} /\ cmd \notin {"LPOP", "RPOP"}
    OBVIOUS
  <2> QED
    BY <2>1, <2>2 DEF Recording
<1>3. /\ OnlyLists'
      /\ Contents(k)' = front \o Contents(k) \o back
      /\ \A j : j # k => Contents(j)' = Contents(j)
  BY <1>1, <1>2, PushContents DEF QueueInv
<1>4. popped' = [popped EXCEPT ![k] = @ \o <<>>] /\ <<>> \in Seq(Str)
  BY <1>2, NothingMoves DEF QueueInv, Recorded
<1>5. PICK c : c = Contents(k)
  OBVIOUS
<1>6. c \in Seq(Str) /\ Reverse(c) \in Seq(Str) /\ Reverse(vs) \in Seq(Str)
  BY <1>5, ContentsType, ReverseType DEF QueueInv, Inv
<1>7. k \in Rightward <=> cmd = "RPUSH"
  BY <1>2 DEF Discipline, Reading
<1>8. InOrder(k) \o vs = <<>> \o InOrder(k)'
  <2>1. CASE cmd = "RPUSH"
    <3>1. InOrder(k) = c /\ InOrder(k)' = <<>> \o c \o vs
      BY <1>3, <1>5, <1>7, <2>1 DEF InOrder, front, back
    <3>2. <<>> \o c = c /\ c \o vs \in Seq(Str)
      BY <1>6, ConcatEmptySeq, ConcatProperties
    <3>3. <<>> \o (c \o vs) = c \o vs
      BY <3>2, ConcatEmptySeq
    <3> QED
      BY <3>1, <3>2, <3>3
  <2>2. CASE cmd = "LPUSH"
    <3>1. InOrder(k) = Reverse(c) /\ InOrder(k)' = Reverse(Reverse(vs) \o c \o <<>>)
      BY <1>3, <1>5, <1>7, <2>2 DEF InOrder, front, back
    <3>2. Reverse(vs) \o c \in Seq(Str) /\ Reverse(c) \o vs \in Seq(Str)
      BY <1>6, ConcatProperties
    <3>3. Reverse(vs) \o c \o <<>> = Reverse(vs) \o c
      BY <3>2, ConcatEmptySeq
    <3>4. Reverse(Reverse(vs) \o c) = Reverse(c) \o Reverse(Reverse(vs))
      BY <1>6, ReverseConcat
    <3>5. Reverse(Reverse(vs)) = vs
      BY ReverseTwice
    <3>6. <<>> \o (Reverse(c) \o vs) = Reverse(c) \o vs
      BY <3>2, ConcatEmptySeq
    <3> QED
      BY <3>1, <3>3, <3>4, <3>5, <3>6
  <2> QED
    BY <2>1, <2>2
<1> QED
  BY <1>2, <1>3, <1>4, <1>8, QueueAdvances

LEMMA QueuePop ==
  ASSUME QueueInv, Inv', QueueNext, NEW cmd \in {"LPOP", "RPOP"}, NEW k \in Keys,
         NEW arg, NEW t \in Now, NEW end,
         end = IF cmd = "LPOP" THEN "left" ELSE "right",
         Command(cmd, {k}, arg, t, PopFrom(data, k, t, end))
  PROVE  QueueInv'
<1> DEFINE list == Contents(k)
           out == PopFrom(data, k, t, end)
<1>0. PICK i : i = IF end = "left" THEN 1 ELSE Len(list)
  OBVIOUS
<1>1. data' = out.data /\ Recording(cmd, k, arg, out.reply)
  BY QueueCommand
<1>2. /\ OnlyLists'
      /\ \A j : j # k => Contents(j)' = Contents(j)
      /\ list = <<>> => Contents(k)' = <<>> /\ out.reply = Nil
      /\ list # <<>> => Contents(k)' = RemoveAt(list, i) /\ out.reply = Bulk(list[i])
  BY <1>0, <1>1, PopContents DEF QueueInv
<1>3. list \in Seq(Str)
  BY ContentsType DEF QueueInv, Inv
<1> HIDE DEF out
<1>4. cmd \in {"LPOP", "RPOP"} /\ cmd \notin {"RPUSH", "LPUSH"}
  OBVIOUS
<1>5. /\ pushed' = [pushed EXCEPT ![k] = @]
      /\ popped' = [popped EXCEPT ![k] = IF out.reply # Nil THEN Append(@, out.reply.s) ELSE @]
  BY <1>1, <1>4 DEF Recording
<1>6. pushed' = [pushed EXCEPT ![k] = @ \o <<>>] /\ <<>> \in Seq(Str)
  BY <1>5, NothingMoves DEF QueueInv, Recorded
<1>7. k \in Rightward <=> cmd = "LPOP"
  BY <1>1 DEF Recording, Discipline, Reading
<1>8. CASE list = <<>>
  <2>1. popped' = [popped EXCEPT ![k] = @]
    BY <1>2, <1>5, <1>8
  <2>2. popped' = [popped EXCEPT ![k] = @ \o <<>>]
    BY <2>1, NothingMoves DEF QueueInv, Recorded
  <2>3. Reverse(<<>>) = <<>>
    BY DEF Reverse
  <2>4. InOrder(k) = <<>> /\ InOrder(k)' = <<>>
    BY <1>2, <1>8, <2>3 DEF InOrder
  <2>5. InOrder(k) \o <<>> = <<>> \o InOrder(k)'
    BY <2>4
  <2> QED
    BY <1>2, <1>6, <2>2, <2>5, QueueAdvances
<1>9. CASE list # <<>>
  <2> DEFINE rest == RemoveAt(list, i)
             x == list[i]
  <2>1. x \in Str /\ rest \in Seq(Str)
    BY <1>0, <1>3, <1>9, FirstRemoved, LastRemoved
  <2>2. Contents(k)' = rest /\ out.reply = Bulk(x)
    BY <1>2, <1>9
  <2>3. cmd = "LPOP" => list = <<x>> \o rest
    BY <1>0, <1>3, <1>9, FirstRemoved
  <2>4. cmd = "RPOP" => list = rest \o <<x>>
    BY <1>0, <1>3, <1>9, LastRemoved
  <2> HIDE DEF rest, x, list
  <2>5. popped' = [popped EXCEPT ![k] = @ \o <<x>>] /\ <<x>> \in Seq(Str)
    <3>1. popped' = [popped EXCEPT ![k] = Append(@, x)]
      <4>1. out.reply # Nil /\ out.reply.s = x
        BY <2>2 DEF Bulk, Nil
      <4> QED
        BY <1>5, <4>1
    <3>2. Append(popped[k], x) = popped[k] \o <<x>>
      BY <2>1, AppendIsConcat DEF QueueInv, Recorded
    <3> QED
      BY <2>1, <3>1, <3>2
  <2>6. InOrder(k) \o <<>> = <<x>> \o InOrder(k)'
    <3>1. CASE cmd = "LPOP"
      <4>1. InOrder(k) = list /\ InOrder(k)' = rest
        BY <1>7, <2>2, <3>1 DEF InOrder, list
      <4>2. list \o <<>> = list
        BY <1>3, ConcatEmptySeq
      <4> QED
        BY <2>3, <3>1, <4>1, <4>2
    <3>2. CASE cmd = "RPOP"
      <4>1. InOrder(k) = Reverse(list) /\ InOrder(k)' = Reverse(rest)
        BY <1>7, <2>2, <3>2 DEF InOrder, list
      <4>2. Reverse(rest \o <<x>>) = Reverse(<<x>>) \o Reverse(rest)
        BY <2>1, <2>5, ReverseConcat
      <4>3. Reverse(<<x>>) = <<x>>
        BY ReverseOne
      <4>4. Reverse(list) \in Seq(Str)
        BY <1>3, ReverseType
      <4>5. Reverse(list) \o <<>> = Reverse(list)
        BY <4>4, ConcatEmptySeq
      <4> QED
        BY <2>4, <3>2, <4>1, <4>2, <4>3, <4>5
    <3> QED
      BY <3>1, <3>2
  <2> QED
    BY <1>2, <1>6, <2>5, <2>6, QueueAdvances
<1> QED
  BY <1>8, <1>9

\* A read moves nothing.
LEMMA QueueRead ==
  ASSUME QueueInv, Inv', QueueNext, NEW cmd \in Reading, NEW k \in Keys, NEW arg,
         NEW now, NEW outcome, Command(cmd, {k}, arg, now, outcome), outcome.data = data
  PROVE  QueueInv'
<1>1. data' = data /\ Recording(cmd, k, arg, outcome.reply)
  BY QueueCommand
<1>2. cmd \notin {"LPOP", "RPOP"} /\ cmd \notin {"RPUSH", "LPUSH"}
  BY DEF Reading
<1>3. pushed' = pushed /\ popped' = popped
  BY <1>1, <1>2 DEF Recording, QueueInv, Recorded
<1> QED
  BY <1>1, <1>3 DEF QueueInv, OnlyLists, Recorded, QueueOrder, InOrder, Contents

LEMMA QueueStep ==
  ASSUME QueueInv, QueueNext
  PROVE  QueueInv'
<1>1. Inv'
  BY ListsStep DEF QueueInv, QueueNext
<1>2. \A vs \in Lists1(Values) : vs \in Seq(Str)
  BY Lists1Type, ValuesType
<1>3. ListsNext
  BY DEF QueueNext
<1>4. CASE HandleLpush
  <2>1. PICK k \in Keys, vs \in Lists1(Values), t \in Now :
          Command("LPUSH", {k}, vs, t, Lpush(data, k, vs, t))
    BY <1>4 DEF HandleLpush
  <2> QED
    BY <1>1, <1>2, <2>1, QueuePush
<1>5. CASE HandleRpush
  <2>1. PICK k \in Keys, vs \in Lists1(Values), t \in Now :
          Command("RPUSH", {k}, vs, t, Rpush(data, k, vs, t))
    BY <1>5 DEF HandleRpush
  <2> QED
    BY <1>1, <1>2, <2>1, QueuePush
<1>6. CASE HandleLpop
  BY <1>1, <1>6, QueuePop DEF HandleLpop, Lpop
<1>7. CASE HandleRpop
  BY <1>1, <1>7, QueuePop DEF HandleRpop, Rpop
<1>8. CASE HandleLrange
  <2>1. \A k, start, stop, t : Lrange(data, k, start, stop, t).data = data
    BY DEF Lrange, ReadAs, Returns
  <2>2. "LRANGE" \in Reading
    BY DEF Reading
  <2> QED
    BY <1>1, <1>8, <2>1, <2>2, QueueRead DEF HandleLrange
<1>9. CASE HandleLlen
  <2>1. \A k, t : Llen(data, k, t).data = data
    BY DEF Llen, ReadAs, Returns
  <2>2. "LLEN" \in Reading
    BY DEF Reading
  <2> QED
    BY <1>1, <1>9, <2>1, <2>2, QueueRead DEF HandleLlen
<1>10. CASE HandleLindex
  <2>1. \A k, index, t : Lindex(data, k, index, t).data = data
    BY DEF Lindex, ReadAs, Returns
  <2>2. "LINDEX" \in Reading
    BY DEF Reading
  <2> QED
    BY <1>1, <1>10, <2>1, <2>2, QueueRead DEF HandleLindex
<1> QED
  BY <1>3, <1>4, <1>5, <1>6, <1>7, <1>8, <1>9, <1>10 DEF ListsNext

LEMMA QueueStart == QueueInit => QueueInv
<1> SUFFICES ASSUME QueueInit
             PROVE  QueueInv
  OBVIOUS
<1>1. Inv
  BY InvInit DEF QueueInit
<1>2. DOMAIN data = {}
  BY DEF QueueInit, Init, EmptyMap
<1>3. Reverse(<<>>) = <<>> /\ <<>> \o <<>> = <<>> /\ <<>> \in Seq(Str)
  BY DEF Reverse
<1>4. \A k : InOrder(k) = <<>>
  BY <1>2, <1>3 DEF InOrder, Contents
<1> QED
  BY <1>1, <1>2, <1>3, <1>4 DEF QueueInit, QueueInv, OnlyLists, Recorded, QueueOrder

\* Over any number of commands, on any number of lists: what was popped from a list
\* that is pushed at one end and popped at the other, followed by what it still holds,
\* is what was pushed, in order.
THEOREM QueuesKeepOrder == QueueSpec => []QueueOrder
<1>1. QueueInit => QueueInv
  BY QueueStart
<1>2. QueueInv /\ [QueueNext]_QueueVars => QueueInv'
  <2> SUFFICES ASSUME QueueInv, UNCHANGED QueueVars
               PROVE  QueueInv'
    BY QueueStep
  <2> QED
    BY DEF QueueVars, vars, QueueInv, Inv, Good, OnlyLists, Recorded, QueueOrder, InOrder,
           Contents
<1>3. QueueInv => QueueOrder
  BY DEF QueueInv
<1> QED
  BY <1>1, <1>2, <1>3, PTL DEF QueueSpec

-----------------------------------------------------------------------------
(* Sizes of hashes and sets.                                               *)

Elements(type, v) == IF type = "hash" THEN DOMAIN v ELSE v

LEMMA CountAdded ==
  ASSUME NEW A, NEW B, IsFiniteSet(A), IsFiniteSet(B)
  PROVE  Cardinality(A \cup B) = Cardinality(A) + Cardinality(B \ A)
<1> DEFINE C == B \ A
<1>1. IsFiniteSet(C)
  BY FS_Difference
<1>2. A \cup B = A \cup C /\ A \cap C = {}
  OBVIOUS
<1> HIDE DEF C
<1>3. Cardinality(A \cup C) = Cardinality(A) + Cardinality(C) - Cardinality(A \cap C)
  BY <1>1, FS_Union
<1>4. Cardinality(A \cap C) = 0 /\ Cardinality(A) \in Nat /\ Cardinality(C) \in Nat
  BY <1>1, <1>2, FS_EmptySet, FS_CardinalityType
<1>5. Cardinality(A \cup C) = Cardinality(A) + Cardinality(C)
  BY <1>3, <1>4
<1>6. Cardinality(A \cup B) = Cardinality(A \cup C)
  BY <1>2
<1> QED
  BY <1>5, <1>6 DEF C

LEMMA CountRemoved ==
  ASSUME NEW A, NEW B, IsFiniteSet(A)
  PROVE  Cardinality(A \ B) = Cardinality(A) - Cardinality(A \cap B)
BY FS_Difference

\* What a mutating lookup finds of a hash or set, and how large it is.
LEMMA SizeFound ==
  ASSUME Inv, NEW k, NEW type \in {"hash", "set"}, NEW missing, Elements(type, missing) = {},
         NEW m, m = FindLiveMut(data, k, clock'), ~Conflict(m, k, type)
  PROVE  /\ IsFiniteSet(Elements(type, ValueAt(m, k, missing)))
         /\ Cardinality(Elements(type, ValueAt(m, k, missing))) =
              IF Outlives(k) THEN SizeOf(data[k]) ELSE 0
<1>1. /\ k \in DOMAIN m <=> Outlives(k)
      /\ k \in DOMAIN m => m[k] = data[k] /\ k \in DOMAIN data
  BY FindLiveMutFacts DEF Outlives, Live
<1>2. CASE k \in DOMAIN m
  <2>1. data[k].type = type /\ IsValue(type, data[k].value)
    BY <1>1, <1>2 DEF Conflict, Inv, Good, IsKeyspace, IsEntry
  <2>2. ValueAt(m, k, missing) = data[k].value
    BY <1>1, <1>2 DEF ValueAt
  <2>3. IsFiniteSet(Elements(type, data[k].value))
    BY <2>1 DEF IsValue, IsHash, Elements
  <2>4. SizeOf(data[k]) = Cardinality(Elements(type, data[k].value))
    BY <2>1 DEF SizeOf, Elements
  <2> QED
    BY <1>1, <1>2, <2>2, <2>3, <2>4
<1>3. CASE k \notin DOMAIN m
  <2>1. ValueAt(m, k, missing) = missing
    BY <1>3 DEF ValueAt
  <2> QED
    BY <1>1, <1>3, <2>1, FS_EmptySet
<1> QED
  BY <1>2, <1>3

LEMMA HashStored ==
  ASSUME NEW d, NEW k, NEW v
  PROVE  SizeIn(Update(d, k, "hash", v), k) = Cardinality(DOMAIN v)
BY DEF SizeIn, SizeOf, Update, Put, Entry

LEMMA SetStored ==
  ASSUME NEW d, NEW k, NEW v
  PROVE  SizeIn(Update(d, k, "set", v), k) = Cardinality(v)
BY DEF SizeIn, SizeOf, Update, Put, Entry

LEMMA NothingStored ==
  ASSUME NEW d, NEW k
  PROVE  /\ SizeIn(Erase(d, {k}), k) = 0
         /\ k \notin DOMAIN d => SizeIn(d, k) = 0
BY DEF SizeIn, Erase, Restrict

Size0(k) == IF Outlives(k) THEN SizeOf(data[k]) ELSE 0

LEMMA HsetCounts ==
  ASSUME Inv, NEW k \in Keys, NEW pairs \in Seq(Str \X Str), NEW arg, NEW t,
         Command("HSET", {k}, arg, t, Hset(data, k, pairs, t)), Replied("int")
  PROVE  SizeIn(data', k) = Size0(k) + last'.reply.n
<1> DEFINE m == FindLiveMut(data, k, t)
           hash == ValueAt(m, k, EmptyMap)
           named == {pairs[i][1] : i \in DOMAIN pairs}
           assigned == Assign(hash, pairs)
           out == Hset(data, k, pairs, t)
<1>1. clock' = t /\ data' = out.data /\ last'.reply = out.reply
  BY DEF Command
<1>2. ~Conflict(m, k, "hash")
  BY <1>1 DEF Hset, Returns, Replied, WrongType, Err
<1>3. /\ data' = Update(m, k, "hash", assigned)
      /\ last'.reply.n = Cardinality(DOMAIN assigned \ DOMAIN hash)
  BY <1>1, <1>2 DEF Hset, Returns, Number
<1>4. DOMAIN assigned = DOMAIN hash \cup named
  BY DEF Assign
<1>5. Elements("hash", EmptyMap) = {}
  BY DEF Elements, EmptyMap
<1>6. IsFiniteSet(DOMAIN hash) /\ Cardinality(DOMAIN hash) = Size0(k)
  <2>1. /\ IsFiniteSet(Elements("hash", hash))
        /\ Cardinality(Elements("hash", hash)) = IF Outlives(k) THEN SizeOf(data[k]) ELSE 0
    BY <1>1, <1>2, <1>5, SizeFound
  <2> QED
    BY <2>1 DEF Elements, Size0
<1>7. IsFiniteSet(named)
  BY NamesFinite
<1> HIDE DEF named, hash, assigned
<1>8. DOMAIN assigned \ DOMAIN hash = named \ DOMAIN hash
  BY <1>4
<1>9. Cardinality(DOMAIN assigned) = Cardinality(DOMAIN hash) + Cardinality(named \ DOMAIN hash)
  BY <1>4, <1>6, <1>7, CountAdded
<1>10. SizeIn(data', k) = Cardinality(DOMAIN assigned)
  BY <1>3, HashStored
<1> QED
  BY <1>3, <1>6, <1>8, <1>9, <1>10

LEMMA SaddCounts ==
  ASSUME Inv, NEW k \in Keys, NEW S, NEW members \in Seq(S), NEW arg, NEW t,
         Command("SADD", {k}, arg, t, Sadd(data, k, members, t)), Replied("int")
  PROVE  SizeIn(data', k) = Size0(k) + last'.reply.n
<1> DEFINE m == FindLiveMut(data, k, t)
           set == ValueAt(m, k, {})
           added == ToSet(members)
           out == Sadd(data, k, members, t)
<1>1. clock' = t /\ data' = out.data /\ last'.reply = out.reply
  BY DEF Command
<1>2. ~Conflict(m, k, "set")
  BY <1>1 DEF Sadd, Returns, Replied, WrongType, Err
<1>3. /\ data' = Update(m, k, "set", set \cup added)
      /\ last'.reply.n = Cardinality(added \ set)
  BY <1>1, <1>2 DEF Sadd, Returns, Number
<1>4. Elements("set", {}) = {}
  BY DEF Elements
<1>5. IsFiniteSet(set) /\ Cardinality(set) = Size0(k)
  <2>1. /\ IsFiniteSet(Elements("set", set))
        /\ Cardinality(Elements("set", set)) = IF Outlives(k) THEN SizeOf(data[k]) ELSE 0
    BY <1>1, <1>2, <1>4, SizeFound
  <2> QED
    BY <2>1 DEF Elements, Size0
<1>6. IsFiniteSet(added)
  BY MentionsFinite
<1> HIDE DEF added, set
<1>7. Cardinality(set \cup added) = Cardinality(set) + Cardinality(added \ set)
  BY <1>5, <1>6, CountAdded
<1>8. SizeIn(data', k) = Cardinality(set \cup added)
  BY <1>3, SetStored
<1> QED
  BY <1>3, <1>5, <1>7, <1>8

LEMMA HdelCounts ==
  ASSUME Inv, NEW k \in Keys, NEW fs, NEW arg, NEW t,
         Command("HDEL", {k}, arg, t, Hdel(data, k, fs, t)), Replied("int")
  PROVE  SizeIn(data', k) = Size0(k) - last'.reply.n
<1> DEFINE m == FindLiveMut(data, k, t)
           hash == ValueAt(m, k, EmptyMap)
           rest == Erase(hash, ToSet(fs))
           out == Hdel(data, k, fs, t)
<1>1. clock' = t /\ data' = out.data /\ last'.reply = out.reply
  BY DEF Command
<1>2. CASE k \notin DOMAIN m
  <2>1. data' = m /\ last'.reply.n = 0
    BY <1>1, <1>2 DEF Hdel, Returns, Number
  <2>2. SizeIn(m, k) = 0
    BY <1>2, NothingStored
  <2>3. ~Outlives(k)
    BY <1>1, <1>2, FindLiveMutFacts DEF Outlives
  <2> QED
    BY <2>1, <2>2, <2>3 DEF Size0
<1>3. CASE k \in DOMAIN m
  <2>1. ~Conflict(m, k, "hash")
    BY <1>1, <1>3 DEF Hdel, Returns, Replied, WrongType, Err
  <2>2. /\ data' = IF DOMAIN rest = {} THEN Erase(m, {k}) ELSE Update(m, k, "hash", rest)
        /\ last'.reply.n = Cardinality(DOMAIN hash \cap ToSet(fs))
    BY <1>1, <1>3, <2>1 DEF Hdel, Returns, Number
  <2>3. DOMAIN rest = DOMAIN hash \ ToSet(fs)
    BY DEF Erase, Restrict
  <2>4. Elements("hash", EmptyMap) = {}
    BY DEF Elements, EmptyMap
  <2>5. IsFiniteSet(DOMAIN hash) /\ Cardinality(DOMAIN hash) = Size0(k)
    <3>1. /\ IsFiniteSet(Elements("hash", hash))
          /\ Cardinality(Elements("hash", hash)) = IF Outlives(k) THEN SizeOf(data[k]) ELSE 0
      BY <1>1, <2>1, <2>4, SizeFound
    <3> QED
      BY <3>1 DEF Elements, Size0
  <2> HIDE DEF hash, rest, m
  <2>6. SizeIn(data', k) = Cardinality(DOMAIN rest)
    BY <2>2, HashStored, NothingStored, FS_EmptySet
  <2>7. Cardinality(DOMAIN rest) = Cardinality(DOMAIN hash) - Cardinality(DOMAIN hash \cap ToSet(fs))
    BY <2>3, <2>5, CountRemoved
  <2> QED
    BY <2>2, <2>5, <2>6, <2>7
<1> QED
  BY <1>2, <1>3

LEMMA SremCounts ==
  ASSUME Inv, NEW k \in Keys, NEW members, NEW arg, NEW t,
         Command("SREM", {k}, arg, t, Srem(data, k, members, t)), Replied("int")
  PROVE  SizeIn(data', k) = Size0(k) - last'.reply.n
<1> DEFINE m == FindLiveMut(data, k, t)
           set == ValueAt(m, k, {})
           rest == set \ ToSet(members)
           out == Srem(data, k, members, t)
<1>1. clock' = t /\ data' = out.data /\ last'.reply = out.reply
  BY DEF Command
<1>2. CASE k \notin DOMAIN m
  <2>1. data' = m /\ last'.reply.n = 0
    BY <1>1, <1>2 DEF Srem, Returns, Number
  <2>2. SizeIn(m, k) = 0
    BY <1>2, NothingStored
  <2>3. ~Outlives(k)
    BY <1>1, <1>2, FindLiveMutFacts DEF Outlives
  <2> QED
    BY <2>1, <2>2, <2>3 DEF Size0
<1>3. CASE k \in DOMAIN m
  <2>1. ~Conflict(m, k, "set")
    BY <1>1, <1>3 DEF Srem, Returns, Replied, WrongType, Err
  <2>2. /\ data' = IF rest = {} THEN Erase(m, {k}) ELSE Update(m, k, "set", rest)
        /\ last'.reply.n = Cardinality(set \cap ToSet(members))
    BY <1>1, <1>3, <2>1 DEF Srem, Returns, Number
  <2>3. Elements("set", {}) = {}
    BY DEF Elements
  <2>4. IsFiniteSet(set) /\ Cardinality(set) = Size0(k)
    <3>1. /\ IsFiniteSet(Elements("set", set))
          /\ Cardinality(Elements("set", set)) = IF Outlives(k) THEN SizeOf(data[k]) ELSE 0
      BY <1>1, <2>1, <2>3, SizeFound
    <3> QED
      BY <3>1 DEF Elements, Size0
  <2>5. Cardinality(rest) = Cardinality(set) - Cardinality(set \cap ToSet(members))
    BY <2>4, CountRemoved
  <2> HIDE DEF set, rest, m
  <2>6. SizeIn(data', k) = Cardinality(rest)
    BY <2>2, SetStored, NothingStored, FS_EmptySet
  <2> QED
    BY <2>2, <2>4, <2>5, <2>6
<1> QED
  BY <1>2, <1>3

\* The steps that answer a count.
LEMMA CountedSteps ==
  ASSUME Next
  PROVE  /\ last'.cmd = "HSET" => HandleHset
         /\ last'.cmd = "HDEL" => HandleHdel
         /\ last'.cmd = "SADD" => HandleSadd
         /\ last'.cmd = "SREM" => HandleSrem
         /\ last'.cmd = "SUNION" => HandleSunion
         /\ last'.cmd = "SINTER" => HandleSinter
<1>1. /\ last'.cmd \in HashesNames => HashesNext
      /\ last'.cmd \in SetsNames => SetsNext
  BY FamilyNames DEF Next, KeyspaceNames, StringsNames, ListsNames, HashesNames, SetsNames
<1>2. ASSUME NEW cmd, SetOperation(cmd)
      PROVE  last'.cmd = cmd
  <2>1. PICK ks, t, r : Command(cmd, ToSet(ks), ks, t, Returns(data, r))
    BY <1>2, Zenon DEF SetOperation
  <2> QED
    BY <2>1 DEF Command
<1>3. last'.cmd = "HSET" \/ last'.cmd = "HDEL" => HandleHset \/ HandleHdel
  BY <1>1 DEF HashesNames, HashesNext, Command, HandleHget, HandleHgetall, HandleHexists,
     HandleHlen, HandleHkeys, HandleHvals
<1>4. last'.cmd \in {"SADD", "SREM", "SUNION", "SINTER"} =>
        HandleSadd \/ HandleSrem \/ HandleSunion \/ HandleSinter
  BY <1>1 DEF SetsNames, SetsNext, Command, HandleSmembers, HandleSismember, HandleScard
<1>5. /\ HandleHset => last'.cmd = "HSET"
      /\ HandleHdel => last'.cmd = "HDEL"
      /\ HandleSadd => last'.cmd = "SADD"
      /\ HandleSrem => last'.cmd = "SREM"
      /\ HandleSunion => last'.cmd = "SUNION"
      /\ HandleSinter => last'.cmd = "SINTER"
  BY <1>2 DEF Command, HandleHset, HandleHdel, HandleSadd, HandleSrem, HandleSunion,
     HandleSinter
<1> QED
  BY <1>3, <1>4, <1>5

\* HSET and SADD answer how much their hash or set has grown, HDEL and SREM how much
\* it has shrunk, also when arguments repeat, and when the last element goes and the
\* key with it.
THEOREM CountsHonest == Spec => CountsAccountForChange
<1>1. ASSUME Inv, [Next]_vars
      PROVE  [\A k \in last'.keys : Replied("int") /\ (LiveAtStart(k) => Outlives(k)) =>
                LET before == IF Outlives(k) THEN SizeOf(data[k]) ELSE 0
                IN  /\ last'.cmd \in {"HSET", "SADD"} =>
                         SizeIn(data', k) = before + last'.reply.n
                    /\ last'.cmd \in {"HDEL", "SREM"} =>
                         SizeIn(data', k) = before - last'.reply.n]_vars
  <2>1. SUFFICES ASSUME Next, NEW k \in last'.keys, Replied("int")
                 PROVE  /\ last'.cmd \in {"HSET", "SADD"} =>
                             SizeIn(data', k) = Size0(k) + last'.reply.n
                        /\ last'.cmd \in {"HDEL", "SREM"} =>
                             SizeIn(data', k) = Size0(k) - last'.reply.n
    BY <1>1 DEF Size0
  <2>2. CASE last'.cmd = "HSET"
    <3>1. PICK j \in Keys, pairs \in Lists1(Values \X Values), t \in Now :
            Command("HSET", {j}, pairs, t, Hset(data, j, pairs, t))
      BY <2>1, <2>2, CountedSteps DEF HandleHset
    <3>2. j = k
      BY <2>1, <3>1 DEF Command
    <3>3. pairs \in Seq(Str \X Str)
      BY Lists1Type, ValuesType
    <3> QED
      BY <1>1, <2>1, <2>2, <3>1, <3>2, <3>3, HsetCounts
  <2>3. CASE last'.cmd = "SADD"
    <3>1. PICK j \in Keys, vs \in Lists1(Values), t \in Now :
            Command("SADD", {j}, vs, t, Sadd(data, j, vs, t))
      BY <2>1, <2>3, CountedSteps DEF HandleSadd
    <3>2. j = k
      BY <2>1, <3>1 DEF Command
    <3>3. vs \in Seq(Values)
      BY Lists1Type
    <3> QED
      BY <1>1, <2>1, <2>3, <3>1, <3>2, <3>3, SaddCounts
  <2>4. CASE last'.cmd = "HDEL"
    <3>1. PICK j \in Keys, fs \in Lists1(Values), t \in Now :
            Command("HDEL", {j}, fs, t, Hdel(data, j, fs, t))
      BY <2>1, <2>4, CountedSteps DEF HandleHdel
    <3>2. j = k
      BY <2>1, <3>1 DEF Command
    <3> QED
      BY <1>1, <2>1, <2>4, <3>1, <3>2, HdelCounts
  <2>5. CASE last'.cmd = "SREM"
    <3>1. PICK j \in Keys, vs \in Lists1(Values), t \in Now :
            Command("SREM", {j}, vs, t, Srem(data, j, vs, t))
      BY <2>1, <2>5, CountedSteps DEF HandleSrem
    <3>2. j = k
      BY <2>1, <3>1 DEF Command
    <3> QED
      BY <1>1, <2>1, <2>5, <3>1, <3>2, SremCounts
  <2> QED
    BY <2>2, <2>3, <2>4, <2>5
<1> QED
  BY <1>1, InvAlways, PTL DEF Spec, CountsAccountForChange

-----------------------------------------------------------------------------
(* Unions and intersections.                                               *)

MembersOf(S) == UNION {data[k].value : k \in S}
CommonOf(K) == {v \in MembersOf(K \cap DOMAIN data) : \A k \in K : v \in data[k].value}

\* What the two lookups of every key guarantee when no key was refused.
LEMMA SetOperationReads ==
  ASSUME Inv, NEW cmd, SetOperation(cmd), Replied("array")
  PROVE  \E ks \in Lists1(Keys) : \E again :
           /\ last'.keys = ToSet(ks)
           /\ \A i \in 1..Len(ks) :
                /\ Outlives(ks[i]) => data[ks[i]].type = "set" /\ Live(data, ks[i], again[i])
                /\ Live(data, ks[i], again[i]) => LiveAtStart(ks[i])
           /\ last'.reply.a = IF cmd = "SUNION" THEN Sunion(data, ks, again)
                              ELSE Sinter(data, ks, again)
<1>1. PICK ks \in Lists1(Keys) : \E ts \in Readings(1..(2 * Len(ks))) : \E t \in After(ts) :
        LET again == [i \in 1..Len(ks) |-> ts[Len(ks) + i]]
        IN  Command(cmd, ToSet(ks), ks, t,
              Returns(data,
                IF \E i \in 1..Len(ks) : KeyIsWrongTypeForSetOp(data, ks[i], ts[i])
                THEN WrongType
                ELSE IF cmd = "SUNION" THEN Items(Sunion(data, ks, again))
                ELSE Items(Sinter(data, ks, again))))
  BY DEF SetOperation
<1>2. PICK ts \in Readings(1..(2 * Len(ks))) : \E t \in After(ts) :
        LET again == [i \in 1..Len(ks) |-> ts[Len(ks) + i]]
        IN  Command(cmd, ToSet(ks), ks, t,
              Returns(data,
                IF \E i \in 1..Len(ks) : KeyIsWrongTypeForSetOp(data, ks[i], ts[i])
                THEN WrongType
                ELSE IF cmd = "SUNION" THEN Items(Sunion(data, ks, again))
                ELSE Items(Sinter(data, ks, again))))
  BY <1>1
<1> DEFINE again == [i \in 1..Len(ks) |-> ts[Len(ks) + i]]
           refused == \E i \in 1..Len(ks) : KeyIsWrongTypeForSetOp(data, ks[i], ts[i])
           reply == IF refused THEN WrongType
                    ELSE IF cmd = "SUNION" THEN Items(Sunion(data, ks, again))
                    ELSE Items(Sinter(data, ks, again))
<1>3. PICK t \in After(ts) : Command(cmd, ToSet(ks), ks, t, Returns(data, reply))
  BY <1>2
<1> HIDE DEF reply
<1>4. clock' = t /\ last'.keys = ToSet(ks) /\ last'.reply = reply
  BY <1>3 DEF Command, Returns
<1>5. ~refused /\ last'.reply.a = IF cmd = "SUNION" THEN Sunion(data, ks, again)
                                  ELSE Sinter(data, ks, again)
  <2> HIDE DEF refused, again
  <2> QED
    BY <1>4 DEF reply, Replied, WrongType, Err, Items
<1>6. Len(ks) \in Nat
  BY Lists1Type
<1>7. ASSUME NEW i \in 1..Len(ks)
      PROVE  /\ Outlives(ks[i]) => data[ks[i]].type = "set" /\ Live(data, ks[i], again[i])
             /\ Live(data, ks[i], again[i]) => LiveAtStart(ks[i])
  <2>1. i \in 1..(2 * Len(ks)) /\ Len(ks) + i \in 1..(2 * Len(ks))
    BY <1>6
  <2>2. again[i] = ts[Len(ks) + i]
    OBVIOUS
  <2>3. /\ Live(data, ks[i], t) => Live(data, ks[i], ts[i])
        /\ Live(data, ks[i], t) => Live(data, ks[i], ts[Len(ks) + i])
        /\ Live(data, ks[i], ts[Len(ks) + i]) => Live(data, ks[i], clock)
    BY <2>1, ReadingFacts
  <2>4. ~KeyIsWrongTypeForSetOp(data, ks[i], ts[i])
    BY <1>5
  <2> HIDE DEF again
  <2> QED
    BY <1>4, <2>2, <2>3, <2>4 DEF KeyIsWrongTypeForSetOp, Outlives, LiveAtStart
<1> HIDE DEF again, refused
<1> QED
  BY <1>4, <1>5, <1>7

\* Sets that are live wherever they are looked up intersect in what is common to them.
LEMMA IntersectionFound ==
  ASSUME NEW ks \in Lists1(Keys), NEW again
  PROVE  /\ (\A i \in 1..Len(ks) : IsLiveSet(data, ks[i], again[i])) =>
              Sinter(data, ks, again) = CommonOf(ToSet(ks))
         /\ (\E i \in 1..Len(ks) : ~IsLiveSet(data, ks[i], again[i])) =>
              Sinter(data, ks, again) = {}
<1>1. ks \in Seq(Keys) /\ ks # <<>>
  BY Lists1Type DEF Lists1
<1>2. DOMAIN ks = 1..Len(ks) /\ 1 \in 1..Len(ks)
  BY <1>1
<1>3. ToSet(ks) = {ks[i] : i \in 1..Len(ks)}
  BY <1>2 DEF ToSet
<1>4. ASSUME \A i \in 1..Len(ks) : IsLiveSet(data, ks[i], again[i])
      PROVE  Sinter(data, ks, again) = CommonOf(ToSet(ks))
  <2>1. Sinter(data, ks, again) =
          {v \in data[ks[1]].value : \A i \in 1..Len(ks) : v \in data[ks[i]].value}
    BY <1>2, <1>4 DEF Sinter
  <2>2. ks[1] \in ToSet(ks) \cap DOMAIN data
    BY <1>2, <1>3, <1>4 DEF IsLiveSet, Live
  <2>3. data[ks[1]].value \subseteq MembersOf(ToSet(ks) \cap DOMAIN data)
    BY <2>2 DEF MembersOf
  <2>4. \A v : (\A k \in ToSet(ks) : v \in data[k].value) <=>
                 \A i \in 1..Len(ks) : v \in data[ks[i]].value
    BY <1>3
  <2> QED
    BY <1>2, <2>1, <2>3, <2>4 DEF CommonOf
<1>5. ASSUME NEW i \in 1..Len(ks), ~IsLiveSet(data, ks[i], again[i])
      PROVE  Sinter(data, ks, again) = {}
  BY <1>2, <1>5 DEF Sinter
<1> QED
  BY <1>4, <1>5

\* SUNION and SINTER, whatever expires between the two lookups of a key: they pass
\* over no key that held another type throughout, and answer the union, or the
\* intersection, of sets that were live at some time while they ran.
THEOREM SetAlgebraHonest == Spec => SetAlgebraSound
<1>1. ASSUME Inv, [Next]_vars
      PROVE  [last'.cmd \in {"SUNION", "SINTER"} /\ Replied("array") =>
                LET ks == last'.keys
                    kept == SetsAmong(ks, Outlives)
                    started == SetsAmong(ks, LiveAtStart)
                    Members(S) == UNION {data[k].value : k \in S}
                    Common == {v \in Members(ks \cap DOMAIN data) :
                                 \A k \in ks : v \in data[k].value}
                IN  /\ {k \in ks : Outlives(k)} \subseteq kept
                    /\ last'.cmd = "SUNION" => /\ Members(kept) \subseteq last'.reply.a
                                               /\ last'.reply.a \subseteq Members(started)
                    /\ last'.cmd = "SINTER" =>
                         last'.reply.a \in IF kept = ks THEN {Common}
                                           ELSE IF started = ks THEN {Common, {}}
                                           ELSE {{}}]_vars
  <2> DEFINE K == last'.keys
             kept == {k \in K : Outlives(k) /\ data[k].type = "set"}
             started == {k \in K : LiveAtStart(k) /\ data[k].type = "set"}
  <2>1. SUFFICES ASSUME Next, last'.cmd \in {"SUNION", "SINTER"}, Replied("array")
                 PROVE  /\ {k \in K : Outlives(k)} \subseteq kept
                        /\ last'.cmd = "SUNION" => /\ MembersOf(kept) \subseteq last'.reply.a
                                                   /\ last'.reply.a \subseteq MembersOf(started)
                        /\ last'.cmd = "SINTER" =>
                             last'.reply.a \in IF kept = K THEN {CommonOf(K)}
                                               ELSE IF started = K THEN {CommonOf(K), {}}
                                               ELSE {{}}
    BY <1>1 DEF SetsAmong, MembersOf, CommonOf
  <2>2. SetOperation(last'.cmd)
    BY <2>1, CountedSteps DEF HandleSunion, HandleSinter
  <2>3. PICK ks \in Lists1(Keys) : \E again :
           /\ last'.keys = ToSet(ks)
           /\ \A i \in 1..Len(ks) :
                /\ Outlives(ks[i]) => data[ks[i]].type = "set" /\ Live(data, ks[i], again[i])
                /\ Live(data, ks[i], again[i]) => LiveAtStart(ks[i])
           /\ last'.reply.a = IF last'.cmd = "SUNION" THEN Sunion(data, ks, again)
                              ELSE Sinter(data, ks, again)
    BY <1>1, <2>1, <2>2, SetOperationReads
  <2>4. PICK again :
           /\ last'.keys = ToSet(ks)
           /\ \A i \in 1..Len(ks) :
                /\ Outlives(ks[i]) => data[ks[i]].type = "set" /\ Live(data, ks[i], again[i])
                /\ Live(data, ks[i], again[i]) => LiveAtStart(ks[i])
           /\ last'.reply.a = IF last'.cmd = "SUNION" THEN Sunion(data, ks, again)
                              ELSE Sinter(data, ks, again)
    BY <2>3
  <2>5. DOMAIN ks = 1..Len(ks) /\ K = {ks[i] : i \in 1..Len(ks)}
    BY <2>4, Lists1Type DEF ToSet
  <2>6. \A i \in 1..Len(ks) : /\ ks[i] \in kept => IsLiveSet(data, ks[i], again[i])
                              /\ IsLiveSet(data, ks[i], again[i]) => ks[i] \in started
    BY <2>4, <2>5 DEF IsLiveSet
  <2>7. {k \in K : Outlives(k)} \subseteq kept
    BY <2>4, <2>5
  <2>8. kept \subseteq K /\ started \subseteq K
    OBVIOUS
  <2> HIDE DEF kept, started, K
  <2>9. ASSUME last'.cmd = "SUNION"
        PROVE  /\ MembersOf(kept) \subseteq last'.reply.a
               /\ last'.reply.a \subseteq MembersOf(started)
    <3>1. last'.reply.a =
            UNION {data[ks[i]].value : i \in {j \in 1..Len(ks) : IsLiveSet(data, ks[j], again[j])}}
      BY <2>4, <2>5, <2>9 DEF Sunion
    <3> QED
      BY <2>5, <2>6, <2>8, <3>1 DEF MembersOf
  <2>10. ASSUME last'.cmd = "SINTER"
         PROVE  last'.reply.a \in IF kept = K THEN {CommonOf(K)}
                                  ELSE IF started = K THEN {CommonOf(K), {}}
                                  ELSE {{}}
    <3>1. last'.reply.a = Sinter(data, ks, again)
      BY <2>4, <2>10
    <3>2. /\ (\A i \in 1..Len(ks) : IsLiveSet(data, ks[i], again[i])) =>
               Sinter(data, ks, again) = CommonOf(K)
          /\ (\E i \in 1..Len(ks) : ~IsLiveSet(data, ks[i], again[i])) =>
               Sinter(data, ks, again) = {}
      BY <2>4, IntersectionFound DEF K
    <3>3. kept = K => \A i \in 1..Len(ks) : IsLiveSet(data, ks[i], again[i])
      BY <2>5, <2>6
    <3>4. started # K => \E i \in 1..Len(ks) : ~IsLiveSet(data, ks[i], again[i])
      BY <2>5, <2>6, <2>8
    <3> QED
      BY <3>1, <3>2, <3>3, <3>4
  <2> QED
    BY <2>7, <2>9, <2>10
<1> QED
  BY <1>1, InvAlways, PTL DEF Spec, SetAlgebraSound

=============================================================================
