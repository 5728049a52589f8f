----------------------------- MODULE StoreProofs -----------------------------
(***************************************************************************)
(* Proofs about Store for every value of its constants: type correctness,  *)
(* the absence of empty lists, hashes and sets, and what a command may do  *)
(* to the keys it names, to all others, to entries that are live and to    *)
(* entries that have expired.                                              *)
(***************************************************************************)
EXTENDS Store, FiniteSetTheorems, WellFoundedInduction, TLAPS

-----------------------------------------------------------------------------
(* The inductive invariant.  A value is as its type says, and no aggregate *)
(* is empty; the second part needs the first to know when an update makes  *)
(* a value empty.                                                          *)

Good(d) == IsKeyspace(d) /\ \A k \in DOMAIN d : ~IsEmpty(d[k])

Inv == Good(data) /\ clock \in 1..MaxClock

GoodEntry(e) == IsEntry(e) /\ ~IsEmpty(e)

-----------------------------------------------------------------------------
(* The building blocks of every write keep the map good.                   *)

LEMMA EraseGood ==
  ASSUME NEW d, NEW X, Good(d)
  PROVE  Good(Erase(d, X))
<1>1. IsFiniteSet(DOMAIN Erase(d, X)) /\ DOMAIN Erase(d, X) \subseteq DOMAIN d
  <2>1. DOMAIN Erase(d, X) \in SUBSET DOMAIN d
    BY DEF Erase, Restrict
  <2> QED
    BY <2>1, FS_Subset DEF Good, IsKeyspace
<1> QED
  BY <1>1 DEF Good, IsKeyspace, IsFunction, Erase, Restrict

LEMMA PutGood ==
  ASSUME NEW d, NEW k \in Keys, NEW e, Good(d), GoodEntry(e)
  PROVE  Good(Put(d, k, e))
<1>1. IsFiniteSet(DOMAIN d \cup {k})
  BY FS_AddElement DEF Good, IsKeyspace
<1> QED
  BY <1>1 DEF Good, IsKeyspace, IsFunction, Put, GoodEntry

LEMMA FindLiveMutGood ==
  ASSUME NEW d, NEW k, NEW t, Good(d)
  PROVE  Good(FindLiveMut(d, k, t))
BY EraseGood DEF FindLiveMut

\* A value that may be stored with any deadline.
GoodValue(type, v) == IsValue(type, v) /\ ~IsEmpty(Entry(type, v, 0))

LEMMA EntryGood ==
  ASSUME NEW type, NEW v, NEW deadline \in U64, GoodValue(type, v)
  PROVE  GoodEntry(Entry(type, v, deadline))
BY DEF GoodValue, GoodEntry, IsEntry, IsEmpty, Entry

\* What a list mentions is finite, and so is the set of names that pairs give.
LEMMA MentionsFinite ==
  ASSUME NEW S, NEW s \in Seq(S)
  PROVE  IsFiniteSet(ToSet(s))
<1> DEFINE n == Len(s)
           f == [i \in 1..n |-> s[i]]
<1>1. n \in Nat /\ DOMAIN s = 1..n
  OBVIOUS
<1>2. f \in Surjection(1..n, ToSet(s))
  BY <1>1 DEF Surjection, ToSet
<1>3. IsFiniteSet(1..n)
  BY <1>1, FS_Interval
<1> HIDE DEF f
<1> QED
  BY <1>2, <1>3, FS_Surjection

LEMMA NamesFinite ==
  ASSUME NEW S, NEW pairs \in Seq(S)
  PROVE  IsFiniteSet({pairs[i][1] : i \in DOMAIN pairs})
<1> DEFINE n == Len(pairs)
           names == {pairs[i][1] : i \in DOMAIN pairs}
           f == [i \in 1..n |-> pairs[i][1]]
<1>1. n \in Nat /\ DOMAIN pairs = 1..n
  OBVIOUS
<1>2. f \in Surjection(1..n, names)
  BY <1>1 DEF Surjection
<1>3. IsFiniteSet(1..n)
  BY <1>1, FS_Interval
<1> HIDE DEF f, names
<1>4. IsFiniteSet(names)
  BY <1>2, <1>3, FS_Surjection
<1> QED
  BY <1>4 DEF names

LEMMA ZeroInU64 == 0 \in U64
BY KeyspaceAssumption DEF KeyspaceAssumption, U64

LEMMA UpdateGood ==
  ASSUME NEW d, NEW k \in Keys, NEW type, NEW v, Good(d), GoodValue(type, v)
  PROVE  Good(Update(d, k, type, v))
<1> DEFINE deadline == IF k \in DOMAIN d THEN d[k].expires_at_ms ELSE 0
<1>1. deadline \in U64
  BY ZeroInU64 DEF Good, IsKeyspace, IsEntry
<1>2. GoodEntry(Entry(type, v, deadline))
  BY <1>1, EntryGood
<1> QED
  BY <1>2, PutGood DEF Update

LEMMA DeadlineGood ==
  ASSUME NEW d, NEW k \in DOMAIN d, NEW deadline \in U64, Good(d)
  PROVE  Good([d EXCEPT ![k].expires_at_ms = deadline])
<1> DEFINE e == [d[k] EXCEPT !.expires_at_ms = deadline]
<1>1. IsEntry(d[k]) /\ ~IsEmpty(d[k])
  BY DEF Good, IsKeyspace
<1>2. e = Entry(d[k].type, d[k].value, deadline)
  BY <1>1 DEF IsEntry, Entry
<1>3. GoodEntry(e)
  BY <1>1, <1>2 DEF GoodEntry, IsEntry, IsEmpty, Entry
<1> QED
  BY <1>3 DEF Good, IsKeyspace, IsFunction, GoodEntry

LEMMA WrapInU64 ==
  ASSUME NEW n \in Nat
  PROVE  Wrap(n) \in U64
BY KeyspaceAssumption DEF KeyspaceAssumption, Wrap, U64

LEMMA Lists1Type ==
  ASSUME NEW S, NEW s \in Lists1(S)
  PROVE  s \in Seq(S) /\ s # <<>> /\ Len(s) > 0
BY KeyspaceAssumption DEF KeyspaceAssumption, Lists1, BoundedSeq, SeqOf

-----------------------------------------------------------------------------
(* Every operation keeps the map good.                                     *)

LEMMA PexpireGood ==
  ASSUME NEW d, NEW k, NEW ms \in Nat, NEW t1, NEW t2 \in Nat, Good(d)
  PROVE  Good(Pexpire(d, k, ms, t1, t2).data)
<1>1. Good(FindLiveMut(d, k, t1))
  BY FindLiveMutGood
<1>2. Wrap(t2 + ms) \in U64
  BY WrapInU64
<1> QED
  BY <1>1, <1>2, DeadlineGood DEF Pexpire, Returns

LEMMA PersistGood ==
  ASSUME NEW d, NEW k, NEW t, Good(d)
  PROVE  Good(Persist(d, k, t).data)
BY FindLiveMutGood, ZeroInU64, DeadlineGood DEF Persist, Returns

LEMMA RenameGood ==
  ASSUME NEW d, NEW src, NEW dst \in Keys, NEW t, Good(d)
  PROVE  Good(Rename(d, src, dst, t).data)
<1> DEFINE m == FindLiveMut(d, src, t)
<1>1. Good(m)
  BY FindLiveMutGood
<1>2. Good(Erase(m, {src}))
  BY <1>1, EraseGood
<1>3. src \in DOMAIN m => GoodEntry(m[src])
  BY <1>1 DEF Good, IsKeyspace, GoodEntry
<1> QED
  BY <1>1, <1>2, <1>3, PutGood DEF Rename, Returns

LEMMA StringGood ==
  ASSUME NEW v \in Str
  PROVE  GoodValue("string", v)
BY DEF GoodValue, IsValue, IsEmpty, Entry

LEMMA SetGood ==
  ASSUME NEW d, NEW k \in Keys, NEW v \in Str, NEW deadline \in U64, Good(d)
  PROVE  Good(Set(d, k, v, deadline).data)
BY StringGood, EntryGood, PutGood DEF Set, Returns

LEMMA AddToGood ==
  ASSUME NEW d, NEW k \in Keys, NEW n \in Int, NEW t, Good(d)
  PROVE  Good(AddTo(d, k, n, t).data)
<1> DEFINE m == FindLiveMut(d, k, t)
           current == IF k \in DOMAIN m THEN ParseI64(m[k].value) ELSE 0
<1>1. Good(m)
  BY FindLiveMutGood
<1>2. current + n \in I64 => GoodValue("string", TextOf(current + n))
  BY StringGood, StringsAssumption DEF StringsAssumption
<1>3. current + n \in I64 => Good(Update(m, k, "string", TextOf(current + n)))
  BY <1>1, <1>2, UpdateGood
<1> QED
  BY <1>1, <1>3 DEF AddTo, Returns

\* The guard of HandleAppend keeps the value in Str.
LEMMA AppendToGood ==
  ASSUME NEW d, NEW k \in Keys, NEW v \in Str, NEW t, Good(d),
         (Live(d, k, t) /\ d[k].type = "string") => Concat(d[k].value, v) \in Str
  PROVE  Good(AppendTo(d, k, v, t).data)
<1> DEFINE m == FindLiveMut(d, k, t)
           value == Concat(ValueAt(m, k, Empty), v)
<1>1. Good(m)
  BY FindLiveMutGood
<1>2. ASSUME ~Conflict(m, k, "string")
      PROVE  value \in Str
  <2>1. CASE k \in DOMAIN m
    <3>1. Live(d, k, t) /\ m[k] = d[k]
      BY <2>1 DEF FindLiveMut, Live, Erase, Restrict
    <3> QED
      BY <1>2, <2>1, <3>1 DEF Conflict, ValueAt
  <2>2. CASE k \notin DOMAIN m
    BY <2>2, StringsAssumption DEF StringsAssumption, ValueAt
  <2> QED
    BY <2>1, <2>2
<1>3. ~Conflict(m, k, "string") => Good(Update(m, k, "string", value))
  BY <1>1, <1>2, StringGood, UpdateGood
<1> QED
  BY <1>1, <1>3 DEF AppendTo, Returns

LEMMA GetsetGood ==
  ASSUME NEW d, NEW k \in Keys, NEW v \in Str, NEW t, Good(d)
  PROVE  Good(Getset(d, k, v, t).data)
<1> DEFINE m == FindLiveMut(d, k, t)
<1>1. Good(m)
  BY FindLiveMutGood
<1>2. Good(Put(m, k, Entry("string", v, 0)))
  BY <1>1, StringGood, ZeroInU64, EntryGood, PutGood
<1> QED
  BY <1>1, <1>2 DEF Getset, Returns

\* A non-empty set of positions has a last one, so LastGiven is well defined.
LEMMA GreatestExists ==
  ASSUME NEW n \in Nat, NEW S, S \subseteq 1..n, S # {}
  PROVE  \E i \in S : \A j \in S : j <= i
<1> DEFINE T == {m \in Nat : n - m \in S}
<1>1. PICK s \in S : s \in 1..n
  OBVIOUS
<1>2. n - s \in Nat /\ n - (n - s) = s
  BY <1>1
<1>3. T \subseteq Nat /\ T # {}
  BY <1>2
<1>4. PICK x \in T : \A y \in T : ~ (<<y, x>> \in OpToRel(<, Nat))
  BY <1>3, NatLessThanWellFounded, WFMin
<1>5. x \in Nat /\ \A y \in T : ~(y < x)
  BY <1>3, <1>4 DEF OpToRel
<1>6. ASSUME NEW j \in S
      PROVE  j <= n - x
  <2>1. j \in 1..n
    OBVIOUS
  <2>2. n - j \in Nat /\ n - (n - j) = j
    BY <2>1
  <2>3. n - j \in T
    BY <2>2
  <2>4. ~(n - j < x)
    BY <1>5, <2>3
  <2> QED
    BY <1>5, <2>1, <2>4
<1> QED
  BY <1>6

LEMMA LastGivenType ==
  ASSUME NEW N, NEW V, NEW pairs \in Seq(N \X V),
         NEW x \in {pairs[i][1] : i \in DOMAIN pairs}
  PROVE  LastGiven(pairs, x) \in V
<1> DEFINE S == Given(pairs, x)
           i == CHOOSE i \in S : \A j \in S : j <= i
<1>1. Len(pairs) \in Nat /\ S \subseteq 1..Len(pairs) /\ S # {}
  BY DEF Given
<1>2. \E k \in S : \A j \in S : j <= k
  BY <1>1, GreatestExists
<1>3. i \in S
  BY <1>2
<1>4. pairs[i] \in N \X V
  BY <1>1, <1>3
<1> QED
  BY <1>4 DEF LastGiven

LEMMA MsetGood ==
  ASSUME NEW d, NEW pairs \in Seq(Keys \X Str), Good(d)
  PROVE  Good(Mset(d, pairs).data)
<1> DEFINE named == {pairs[i][1] : i \in DOMAIN pairs}
           result == Mset(d, pairs).data
<1>1. result = [k \in DOMAIN d \cup named |->
                  IF k \in named THEN Entry("string", LastGiven(pairs, k), 0) ELSE d[k]]
  BY DEF Mset, Returns
<1>2. named \subseteq Keys /\ IsFiniteSet(named)
  BY NamesFinite
<1>3. ASSUME NEW k \in named
      PROVE  GoodEntry(result[k])
  <2>1. LastGiven(pairs, k) \in Str
    BY LastGivenType
  <2> QED
    BY <1>1, <2>1, StringGood, ZeroInU64, EntryGood
<1>4. \A k \in DOMAIN d \ named : GoodEntry(result[k])
  BY <1>1 DEF Good, IsKeyspace, GoodEntry
<1> HIDE DEF named
<1>5. IsFiniteSet(DOMAIN d \cup named)
  BY <1>2, FS_Union DEF Good, IsKeyspace
<1> QED
  BY <1>1, <1>2, <1>3, <1>4, <1>5 DEF Good, IsKeyspace, IsFunction, GoodEntry

LEMMA PushGood ==
  ASSUME NEW d, NEW k \in Keys, NEW front \in Seq(Str), NEW back \in Seq(Str), NEW t,
         Len(front) > 0 \/ Len(back) > 0, Good(d)
  PROVE  Good(PushInto(d, k, front, back, t).data)
<1> DEFINE m == FindLiveMut(d, k, t)
           list == front \o ValueAt(m, k, <<>>) \o back
<1>1. Good(m)
  BY FindLiveMutGood
<1>2. ~Conflict(m, k, "list") => ValueAt(m, k, <<>>) \in Seq(Str)
  BY <1>1 DEF Good, IsKeyspace, IsEntry, IsValue, Conflict, ValueAt
<1>3. ~Conflict(m, k, "list") => list \in Seq(Str) /\ list # <<>>
  BY <1>2
<1>4. ~Conflict(m, k, "list") => GoodValue("list", list)
  BY <1>3 DEF GoodValue, IsValue, IsEmpty, Entry
<1> QED
  BY <1>1, <1>4, UpdateGood DEF PushInto, Returns

LEMMA ShortenGood ==
  ASSUME NEW m, NEW k \in Keys, NEW list \in Seq(Str), Good(m)
  PROVE  Good(Shorten(m, k, list))
<1>1. list # <<>> => GoodValue("list", list)
  BY DEF GoodValue, IsValue, IsEmpty, Entry
<1> QED
  BY <1>1, EraseGood, UpdateGood DEF Shorten

LEMMA PopGood ==
  ASSUME NEW d, NEW k \in Keys, NEW t, Good(d)
  PROVE  Good(Lpop(d, k, t).data) /\ Good(Rpop(d, k, t).data)
<1> DEFINE m == FindLiveMut(d, k, t)
           list == m[k].value
<1>1. Good(m)
  BY FindLiveMutGood
<1>2. k \in DOMAIN m /\ ~Conflict(m, k, "list") => list \in Seq(Str)
  BY <1>1 DEF Good, IsKeyspace, IsEntry, IsValue, Conflict
<1>3. ASSUME list \in Seq(Str), list # <<>>, NEW i \in 1..Len(list)
      PROVE  RemoveAt(list, i) \in Seq(Str)
  BY <1>3 DEF RemoveAt
<1>4. list \in Seq(Str) /\ list # <<>> => 1 \in 1..Len(list) /\ Len(list) \in 1..Len(list)
  OBVIOUS
<1> QED
  BY <1>1, <1>2, <1>3, <1>4, EraseGood, ShortenGood DEF Lpop, Rpop, PopFrom, Returns

LEMMA HsetGood ==
  ASSUME NEW d, NEW k \in Keys, NEW pairs \in Seq(Str \X Str), NEW t,
         Len(pairs) > 0, Good(d)
  PROVE  Good(Hset(d, k, pairs, t).data)
<1> DEFINE m == FindLiveMut(d, k, t)
           hash == ValueAt(m, k, EmptyMap)
           named == {pairs[i][1] : i \in DOMAIN pairs}
           assigned == Assign(hash, pairs)
<1>1. Good(m)
  BY FindLiveMutGood
<1>2. ASSUME ~Conflict(m, k, "hash")
      PROVE  IsHash(hash)
  <2>1. IsHash(EmptyMap)
    BY FS_EmptySet DEF IsHash, IsFunction, EmptyMap
  <2> QED
    BY <1>1, <1>2, <2>1
    DEF Good, IsKeyspace, IsEntry, IsValue, Conflict, ValueAt
<1>3. named \subseteq Str /\ named # {} /\ IsFiniteSet(named)
  <2>1. 1 \in DOMAIN pairs
    OBVIOUS
  <2> QED
    BY <2>1, NamesFinite
<1>4. \A f \in named : LastGiven(pairs, f) \in Str
  BY LastGivenType
<1>5. assigned = [f \in DOMAIN hash \cup named |->
                    IF f \in named THEN LastGiven(pairs, f) ELSE hash[f]]
  BY DEF Assign
<1> HIDE DEF named
<1>6. ASSUME ~Conflict(m, k, "hash")
      PROVE  IsHash(assigned) /\ DOMAIN assigned # {}
  <2>1. IsFiniteSet(DOMAIN hash \cup named)
    BY <1>2, <1>3, <1>6, FS_Union DEF IsHash
  <2> QED
    BY <1>2, <1>3, <1>4, <1>5, <1>6, <2>1 DEF IsHash, IsFunction
<1>7. ~Conflict(m, k, "hash") => GoodValue("hash", assigned)
  BY <1>6 DEF GoodValue, IsValue, IsEmpty, Entry
<1> QED
  BY <1>1, <1>7, UpdateGood DEF Hset, Returns

LEMMA HdelGood ==
  ASSUME NEW d, NEW k \in Keys, NEW fs, NEW t, Good(d)
  PROVE  Good(Hdel(d, k, fs, t).data)
<1> DEFINE m == FindLiveMut(d, k, t)
           hash == ValueAt(m, k, EmptyMap)
           rest == Erase(hash, ToSet(fs))
<1>1. Good(m)
  BY FindLiveMutGood
<1>2. k \in DOMAIN m /\ ~Conflict(m, k, "hash") => IsHash(hash)
  BY <1>1 DEF Good, IsKeyspace, IsEntry, IsValue, Conflict, ValueAt
<1>3. ASSUME IsHash(hash)
      PROVE  IsHash(rest)
  <2>1. DOMAIN rest \in SUBSET DOMAIN hash
    BY DEF Erase, Restrict
  <2>2. IsFiniteSet(DOMAIN rest)
    BY <1>3, <2>1, FS_Subset DEF IsHash
  <2> QED
    BY <1>3, <2>2 DEF IsHash, IsFunction, Erase, Restrict
<1>4. IsHash(rest) /\ DOMAIN rest # {} => GoodValue("hash", rest)
  BY DEF GoodValue, IsValue, IsEmpty, Entry
<1> QED
  BY <1>1, <1>2, <1>3, <1>4, EraseGood, UpdateGood DEF Hdel, Returns

LEMMA SaddGood ==
  ASSUME NEW d, NEW k \in Keys, NEW members \in Seq(Str), NEW t,
         Len(members) > 0, Good(d)
  PROVE  Good(Sadd(d, k, members, t).data)
<1> DEFINE m == FindLiveMut(d, k, t)
           set == ValueAt(m, k, {})
<1>1. Good(m)
  BY FindLiveMutGood
<1>2. ~Conflict(m, k, "set") => set \subseteq Str /\ IsFiniteSet(set)
  BY <1>1, FS_EmptySet DEF Good, IsKeyspace, IsEntry, IsValue, Conflict, ValueAt
<1>3. ToSet(members) \subseteq Str /\ ToSet(members) # {} /\ IsFiniteSet(ToSet(members))
  <2>1. 1 \in DOMAIN members
    OBVIOUS
  <2>2. IsFiniteSet(ToSet(members))
    BY MentionsFinite
  <2> QED
    BY <2>1, <2>2 DEF ToSet
<1>4. set \subseteq Str /\ IsFiniteSet(set) => GoodValue("set", set \cup ToSet(members))
  BY <1>3, FS_Union DEF GoodValue, IsValue, IsEmpty, Entry
<1> QED
  BY <1>1, <1>2, <1>4, UpdateGood DEF Sadd, Returns

LEMMA SremGood ==
  ASSUME NEW d, NEW k \in Keys, NEW members, NEW t, Good(d)
  PROVE  Good(Srem(d, k, members, t).data)
<1> DEFINE m == FindLiveMut(d, k, t)
           rest == ValueAt(m, k, {}) \ ToSet(members)
<1>1. Good(m)
  BY FindLiveMutGood
<1>2. k \in DOMAIN m /\ ~Conflict(m, k, "set") => rest \subseteq Str /\ IsFiniteSet(rest)
  BY <1>1, FS_Difference DEF Good, IsKeyspace, IsEntry, IsValue, Conflict, ValueAt
<1>3. rest \subseteq Str /\ IsFiniteSet(rest) /\ rest # {} => GoodValue("set", rest)
  BY DEF GoodValue, IsValue, IsEmpty, Entry
<1> QED
  BY <1>1, <1>2, <1>3, EraseGood, UpdateGood DEF Srem, Returns

-----------------------------------------------------------------------------
(* Every step keeps the invariant.                                         *)

LEMMA CommandGood ==
  ASSUME NEW cmd, NEW keys, NEW arg, NEW now \in Now, NEW outcome,
         Command(cmd, keys, arg, now, outcome), Inv, Good(outcome.data)
  PROVE  Inv'
BY KeyspaceAssumption DEF KeyspaceAssumption, Command, Inv, Good, Now

LEMMA NowType ==
  ASSUME Inv
  PROVE  /\ Now \subseteq Nat
         /\ \A t1 \in Now : t1..MaxClock \subseteq Now
         /\ \A ts : After(ts) \subseteq Now
BY KeyspaceAssumption DEF KeyspaceAssumption, Inv, Now, After

LEMMA MillisType ==
  ASSUME NEW unit, NEW span \in Nat
  PROVE  Millis(unit, span) \in Nat
<1>1. span * MsPerSecond \in Nat
  BY KeyspaceAssumption DEF KeyspaceAssumption
<1>2. U64 \subseteq Nat
  BY DEF U64
<1> QED
  BY <1>1, <1>2, WrapInU64 DEF Millis

LEMMA SpansType == Spans \subseteq Nat
BY KeyspaceAssumption DEF KeyspaceAssumption, U64

LEMMA KeyspaceStep ==
  ASSUME Inv, KeyspaceNext
  PROVE  Inv'
<1> USE NowType
<1>0. Good(data)
  BY DEF Inv
<1>1. CASE HandleDel
  <2>1. \A ks, ts : Good(Del(data, ks, ts).data)
    BY <1>0, EraseGood DEF Del, Returns
  <2> QED
    BY <1>1, <2>1, CommandGood DEF HandleDel
<1>2. CASE HandleExists
  <2>1. \A ks, ts : Good(Exists(data, ks, ts).data)
    BY <1>0 DEF Exists, Returns
  <2> QED
    BY <1>2, <2>1, CommandGood DEF HandleExists
<1>3. CASE HandleExpire
  <2>1. PICK k \in Keys, s \in Spans, t1 \in Now, t2 \in Now :
          Command("EXPIRE", {k}, Millis("EX", s), t2, Expire(data, k, s, t1, t2))
    BY <1>3 DEF HandleExpire
  <2>2. Good(Expire(data, k, s, t1, t2).data)
    BY <1>0, SpansType, MillisType, PexpireGood DEF Expire
  <2> QED
    BY <2>1, <2>2, CommandGood
<1>4. CASE HandlePexpire
  <2>1. PICK k \in Keys, ms \in Spans, t1 \in Now, t2 \in Now :
          Command("PEXPIRE", {k}, ms, t2, Pexpire(data, k, ms, t1, t2))
    BY <1>4 DEF HandlePexpire
  <2>2. Good(Pexpire(data, k, ms, t1, t2).data)
    BY <1>0, SpansType, PexpireGood
  <2> QED
    BY <2>1, <2>2, CommandGood
<1>5. CASE HandlePersist
  BY <1>0, <1>5, PersistGood, CommandGood DEF HandlePersist
<1>6. CASE HandlePttl
  <2>1. \A r : Good(Returns(data, r).data)
    BY <1>0 DEF Returns
  <2> QED
    BY <1>6, <2>1, CommandGood DEF HandlePttl
<1>7. CASE HandleTtl
  <2>1. \A r : Good(Returns(data, r).data)
    BY <1>0 DEF Returns
  <2> QED
    BY <1>7, <2>1, CommandGood DEF HandleTtl
<1>8. CASE HandleType
  BY <1>0, <1>8, CommandGood DEF HandleType, Type, Returns
<1>9. CASE HandleRename
  BY <1>0, <1>9, RenameGood, CommandGood DEF HandleRename
<1>10. CASE HandleDbsize
  <2>1. \A ts : Good(Dbsize(data, ts).data)
    BY <1>0 DEF Dbsize, Returns
  <2> QED
    BY <1>10, <2>1, CommandGood DEF HandleDbsize
<1>11. CASE HandleKeys
  <2>1. \A matching, ts : Good(KeysOp(data, matching, ts).data)
    BY <1>0 DEF KeysOp, Returns
  <2> QED
    BY <1>11, <2>1, CommandGood DEF HandleKeys
<1>12. CASE HandleFlushdb
  <2>1. Good(EmptyMap)
    BY FS_EmptySet DEF Good, IsKeyspace, IsFunction, EmptyMap
  <2> QED
    BY <1>12, <2>1, CommandGood DEF HandleFlushdb, Returns
<1>13. CASE HandleRejected
  BY <1>0, <1>13, CommandGood DEF HandleRejected, Returns
<1>14. CASE Sweep
  <2>1. \A ts : Good(SweepExpired(data, ts).data)
    BY <1>0, EraseGood DEF SweepExpired, Returns
  <2> QED
    BY <1>14, <2>1, CommandGood DEF Sweep
<1> QED
  BY <1>1, <1>2, <1>3, <1>4, <1>5, <1>6, <1>7, <1>8, <1>9, <1>10, <1>11, <1>12, <1>13,
     <1>14 DEF KeyspaceNext

LEMMA ValuesType == Values \subseteq Str
BY StringsAssumption DEF StringsAssumption

LEMMA DeadlineType ==
  ASSUME NEW expiry \in Expiries, NEW t \in Nat
  PROVE  Deadline(expiry, t) \in U64
<1>1. expiry[2] \in Nat
  <2>1. CASE expiry = <<"none", 0>>
    BY <2>1
  <2>2. CASE expiry \in {"EX", "PX"} \X (Spans \ {0})
    BY <2>2, SpansType
  <2> QED
    BY <2>1, <2>2 DEF Expiries
<1>2. t + Millis(expiry[1], expiry[2]) \in Nat
  BY <1>1, MillisType
<1> QED
  BY <1>2, WrapInU64, ZeroInU64 DEF Deadline

LEMMA I64Type == I64 \subseteq Int /\ 1 \in Int /\ \A n \in I64 : -n \in Int
BY DEF I64

LEMMA StringsStep ==
  ASSUME Inv, StringsNext
  PROVE  Inv'
<1> USE NowType
<1>0. Good(data)
  BY DEF Inv
<1>1. CASE HandleSet
  <2>1. PICK k \in Keys, v \in Values, expiry \in Expiries, cond \in {"always", "NX", "XX"},
             t1 \in Now, t2 \in Now :
          Command("SET", {k}, <<v, expiry, cond>>, t2,
                  IF Refused(cond, Live(data, k, t2)) THEN Returns(data, Nil)
                  ELSE Set(data, k, v, Deadline(expiry, t1)))
    BY <1>1 DEF HandleSet
  <2>2. Good(Set(data, k, v, Deadline(expiry, t1)).data)
    BY <1>0, ValuesType, DeadlineType, SetGood
  <2>3. Good(Returns(data, Nil).data)
    BY <1>0 DEF Returns
  <2> QED
    BY <2>1, <2>2, <2>3, CommandGood
<1>2. CASE HandleGet
  <2>1. \A k, t : Good(Get(data, k, t).data)
    BY <1>0 DEF Get, ReadAs, Returns
  <2> QED
    BY <1>2, <2>1, CommandGood DEF HandleGet
<1>3. CASE HandleStrlen
  <2>1. \A k, t : Good(Strlen(data, k, t).data)
    BY <1>0 DEF Strlen, ReadAs, Returns
  <2> QED
    BY <1>3, <2>1, CommandGood DEF HandleStrlen
<1>4. CASE HandleIncr
  <2>1. \A t : \A k \in Keys : Good(Incrby(data, k, 1, t).data)
    BY <1>0, AddToGood DEF Incrby
  <2> QED
    BY <1>4, <2>1, CommandGood DEF HandleIncr
<1>5. CASE HandleDecr
  <2>1. \A t : \A k \in Keys : Good(Decrby(data, k, 1, t).data)
    BY <1>0, AddToGood DEF Decrby
  <2> QED
    BY <1>5, <2>1, CommandGood DEF HandleDecr
<1>6. CASE HandleIncrby
  <2>1. \A t : \A k \in Keys, delta \in I64 : Good(Incrby(data, k, delta, t).data)
    BY <1>0, I64Type, AddToGood DEF Incrby
  <2> QED
    BY <1>6, <2>1, CommandGood DEF HandleIncrby
<1>7. CASE HandleDecrby
  <2>1. \A t : \A k \in Keys, delta \in I64 : Good(Decrby(data, k, delta, t).data)
    BY <1>0, I64Type, AddToGood DEF Decrby
  <2> QED
    BY <1>7, <2>1, CommandGood DEF HandleDecrby
<1>8. CASE HandleAppend
  BY <1>0, <1>8, ValuesType, AppendToGood, CommandGood DEF HandleAppend
<1>9. CASE HandleGetset
  BY <1>0, <1>9, ValuesType, GetsetGood, CommandGood DEF HandleGetset
<1>10. CASE HandleMset
  <2>1. PICK pairs \in Lists1(Keys \X Values), t \in Now :
          Command("MSET", {pairs[i][1] : i \in DOMAIN pairs}, pairs, t, Mset(data, pairs))
    BY <1>10 DEF HandleMset
  <2>2. pairs \in Seq(Keys \X Str)
    BY Lists1Type, ValuesType
  <2> QED
    BY <1>0, <2>1, <2>2, MsetGood, CommandGood
<1>11. CASE HandleMget
  <2>1. \A ks, ts : Good(Mget(data, ks, ts).data)
    BY <1>0 DEF Mget, ReadAs, Returns
  <2> QED
    BY <1>11, <2>1, CommandGood DEF HandleMget
<1> QED
  BY <1>1, <1>2, <1>3, <1>4, <1>5, <1>6, <1>7, <1>8, <1>9, <1>10, <1>11 DEF StringsNext

LEMMA ListsStep ==
  ASSUME Inv, ListsNext
  PROVE  Inv'
<1> USE NowType
<1>0. Good(data)
  BY DEF Inv
<1>1. \A vs \in Lists1(Values) : /\ vs \in Seq(Str) /\ Len(vs) > 0
                                /\ Reverse(vs) \in Seq(Str) /\ Len(Reverse(vs)) > 0
  <2>1. \A vs \in Lists1(Values) : vs \in Seq(Str) /\ Len(vs) > 0
    BY Lists1Type, ValuesType
  <2>2. \A vs \in Seq(Str) : Reverse(vs) \in Seq(Str) /\ Len(Reverse(vs)) = Len(vs)
    BY DEF Reverse
  <2> QED
    BY <2>1, <2>2
<1>2. <<>> \in Seq(Str)
  OBVIOUS
<1>3. CASE HandleLpush
  <2>1. \A t : \A k \in Keys, vs \in Lists1(Values) : Good(Lpush(data, k, vs, t).data)
    BY <1>0, <1>1, <1>2, PushGood DEF Lpush
  <2> QED
    BY <1>3, <2>1, CommandGood DEF HandleLpush
<1>4. CASE HandleRpush
  <2>1. \A t : \A k \in Keys, vs \in Lists1(Values) : Good(Rpush(data, k, vs, t).data)
    BY <1>0, <1>1, <1>2, PushGood DEF Rpush
  <2> QED
    BY <1>4, <2>1, CommandGood DEF HandleRpush
<1>5. CASE HandleLpop
  BY <1>0, <1>5, PopGood, CommandGood DEF HandleLpop
<1>6. CASE HandleRpop
  BY <1>0, <1>6, PopGood, CommandGood DEF HandleRpop
<1>7. CASE HandleLrange
  <2>1. \A k, start, stop, t : Good(Lrange(data, k, start, stop, t).data)
    BY <1>0 DEF Lrange, ReadAs, Returns
  <2> QED
    BY <1>7, <2>1, CommandGood DEF HandleLrange
<1>8. CASE HandleLlen
  <2>1. \A k, t : Good(Llen(data, k, t).data)
    BY <1>0 DEF Llen, ReadAs, Returns
  <2> QED
    BY <1>8, <2>1, CommandGood DEF HandleLlen
<1>9. CASE HandleLindex
  <2>1. \A k, index, t : Good(Lindex(data, k, index, t).data)
    BY <1>0 DEF Lindex, ReadAs, Returns
  <2> QED
    BY <1>9, <2>1, CommandGood DEF HandleLindex
<1> QED
  BY <1>3, <1>4, <1>5, <1>6, <1>7, <1>8, <1>9 DEF ListsNext

LEMMA HashesStep ==
  ASSUME Inv, HashesNext
  PROVE  Inv'
<1> USE NowType
<1>0. Good(data)
  BY DEF Inv
<1>1. CASE HandleHset
  <2>1. PICK k \in Keys, pairs \in Lists1(Values \X Values), t \in Now :
          Command("HSET", {k}, pairs, t, Hset(data, k, pairs, t))
    BY <1>1 DEF HandleHset
  <2>2. pairs \in Seq(Str \X Str) /\ Len(pairs) > 0
    BY Lists1Type, ValuesType
  <2> QED
    BY <1>0, <2>1, <2>2, HsetGood, CommandGood
<1>2. CASE HandleHget
  <2>1. \A k, f, t : Good(Hget(data, k, f, t).data)
    BY <1>0 DEF Hget, ReadAs, Returns
  <2> QED
    BY <1>2, <2>1, CommandGood DEF HandleHget
<1>3. CASE HandleHdel
  BY <1>0, <1>3, HdelGood, CommandGood DEF HandleHdel
<1>4. CASE HandleHgetall
  <2>1. \A k, t : Good(Hgetall(data, k, t).data)
    BY <1>0 DEF Hgetall, ReadAs, Returns
  <2> QED
    BY <1>4, <2>1, CommandGood DEF HandleHgetall
<1>5. CASE HandleHexists
  <2>1. \A k, f, t : Good(Hexists(data, k, f, t).data)
    BY <1>0 DEF Hexists, ReadAs, Returns
  <2> QED
    BY <1>5, <2>1, CommandGood DEF HandleHexists
<1>6. CASE HandleHlen
  <2>1. \A k, t : Good(Hlen(data, k, t).data)
    BY <1>0 DEF Hlen, ReadAs, Returns
  <2> QED
    BY <1>6, <2>1, CommandGood DEF HandleHlen
<1>7. CASE HandleHkeys
  <2>1. \A k, t : Good(Hkeys(data, k, t).data)
    BY <1>0 DEF Hkeys, ReadAs, Returns
  <2> QED
    BY <1>7, <2>1, CommandGood DEF HandleHkeys
<1>8. CASE HandleHvals
  <2>1. \A k, t : Good(Hvals(data, k, t).data)
    BY <1>0 DEF Hvals, ReadAs, Returns
  <2> QED
    BY <1>8, <2>1, CommandGood DEF HandleHvals
<1> QED
  BY <1>1, <1>2, <1>3, <1>4, <1>5, <1>6, <1>7, <1>8 DEF HashesNext

LEMMA SetsStep ==
  ASSUME Inv, SetsNext
  PROVE  Inv'
<1> USE NowType
<1>0. Good(data)
  BY DEF Inv
<1>1. CASE HandleSadd
  <2>1. \A vs \in Lists1(Values) : vs \in Seq(Str) /\ Len(vs) > 0
    BY Lists1Type, ValuesType
  <2>2. \A t : \A k \in Keys, vs \in Lists1(Values) : Good(Sadd(data, k, vs, t).data)
    BY <1>0, <2>1, SaddGood
  <2> QED
    BY <1>1, <2>2, CommandGood DEF HandleSadd
<1>2. CASE HandleSrem
  BY <1>0, <1>2, SremGood, CommandGood DEF HandleSrem
<1>3. CASE HandleSmembers
  <2>1. \A k, t : Good(Smembers(data, k, t).data)
    BY <1>0 DEF Smembers, ReadAs, Returns
  <2> QED
    BY <1>3, <2>1, CommandGood DEF HandleSmembers
<1>4. CASE HandleSismember
  <2>1. \A k, v, t : Good(Sismember(data, k, v, t).data)
    BY <1>0 DEF Sismember, ReadAs, Returns
  <2> QED
    BY <1>4, <2>1, CommandGood DEF HandleSismember
<1>5. CASE HandleScard
  <2>1. \A k, t : Good(Scard(data, k, t).data)
    BY <1>0 DEF Scard, ReadAs, Returns
  <2> QED
    BY <1>5, <2>1, CommandGood DEF HandleScard
<1>6. ASSUME NEW cmd, SetOperation(cmd)
      PROVE  Inv'
  <2>1. \A r : Good(Returns(data, r).data)
    BY <1>0 DEF Returns
  <2> QED
    BY <1>6, <2>1, CommandGood DEF SetOperation
<1>7. CASE HandleSunion
  BY <1>6, <1>7 DEF HandleSunion
<1>8. CASE HandleSinter
  BY <1>6, <1>8 DEF HandleSinter
<1> QED
  BY <1>1, <1>2, <1>3, <1>4, <1>5, <1>7, <1>8 DEF SetsNext

LEMMA InvInit == Init => Inv
BY KeyspaceAssumption, FS_EmptySet
DEF KeyspaceAssumption, Init, Inv, Good, IsKeyspace, IsFunction, EmptyMap

LEMMA InvStep == Inv /\ [Next]_vars => Inv'
<1> SUFFICES ASSUME Inv, [Next]_vars
             PROVE  Inv'
  OBVIOUS
<1>1. CASE UNCHANGED vars
  BY <1>1 DEF vars, Inv, Good
<1> QED
  BY <1>1, KeyspaceStep, StringsStep, ListsStep, HashesStep, SetsStep DEF Next

LEMMA InvAlways == Spec => []Inv
BY InvInit, InvStep, PTL DEF Spec

-----------------------------------------------------------------------------
(* The theorems about states.                                              *)

\* Store::data_ stays type correct under every sequence of commands: each entry holds
\* a value of its type and a deadline that fits a std::uint64_t.
THEOREM TypeCorrect == Spec => []TypeOK
<1>1. Inv => TypeOK
  BY DEF Inv, Good, TypeOK
<1> QED
  BY <1>1, InvAlways, PTL

\* No command leaves an empty list, hash or set behind: LPOP, RPOP, HDEL and SREM
\* erase the key with its last element, and nothing creates an empty one.
THEOREM NeverEmpty == Spec => []NoEmptyAggregate
<1>1. Inv => NoEmptyAggregate
  BY DEF Inv, Good, NoEmptyAggregate
<1> QED
  BY <1>1, InvAlways, PTL

-----------------------------------------------------------------------------
(* What one step does to one key: it leaves it alone, or it is a write that *)
(* names the key and has not failed.                                       *)

\* The commands that give a key another deadline, and those that give it another type.
Redating == {"SET", "GETSET", "MSET", "EXPIRE", "PEXPIRE", "PERSIST", "RENAME"}
Retyping == {"SET", "MSET", "RENAME"}

\* The entry is as it was, or it is gone and had expired before the step ended.
Spared(k) ==
  /\ k \in DOMAIN data' => k \in DOMAIN data /\ data'[k] = data[k]
  /\ Outlives(k) => k \in DOMAIN data'

Written(k) ==
  /\ last'.cmd \in WriteCommands /\ ~Replied("err")
  /\ k \in last'.keys \/ last'.cmd = "FLUSHDB"
  /\ k \in DOMAIN data' => LiveAtStart(k) \/ (last'.cmd \in Creating /\ k \in last'.keys)
  /\ Outlives(k) /\ k \in DOMAIN data' =>
       /\ last'.cmd \in Redating \/ data'[k].expires_at_ms = data[k].expires_at_ms
       /\ last'.cmd \in Retyping \/ data'[k].type = data[k].type

StepRule ==
  /\ clock \in Nat /\ clock' \in Nat /\ clock <= clock'
  /\ \A k \in Keys : Spared(k) \/ Written(k)

-----------------------------------------------------------------------------
(* Lookup and time.                                                        *)

LEMMA NowFacts ==
  ASSUME Inv, NEW t \in Now
  PROVE  clock \in Nat /\ t \in Nat /\ clock <= t
BY KeyspaceAssumption DEF KeyspaceAssumption, Inv, Now

\* An entry that is live at a later instant is live at an earlier one.
LEMMA LiveBefore ==
  ASSUME Good(data), NEW k, NEW t1 \in Nat, NEW t2 \in Nat, t1 <= t2, Live(data, k, t2)
  PROVE  Live(data, k, t1)
<1>1. k \in DOMAIN data /\ data[k].expires_at_ms \in Nat
  BY DEF Good, IsKeyspace, IsEntry, Live, U64
<1> QED
  BY <1>1 DEF Live, IsExpired

\* A mutating lookup at t finds k exactly when k is live at t, and leaves alone the
\* other keys.
LEMMA FindLiveMutFacts ==
  ASSUME NEW k, NEW t
  PROVE  LET m == FindLiveMut(data, k, t)
         IN  /\ k \in DOMAIN m <=> Live(data, k, t)
             /\ k \in DOMAIN m => m[k] = data[k]
             /\ \A j : j # k => /\ j \in DOMAIN m <=> j \in DOMAIN data
                                /\ j \in DOMAIN m => m[j] = data[j]
BY DEF FindLiveMut, Live, Erase, Restrict

-----------------------------------------------------------------------------
(* The shapes of a step.                                                   *)

LEMMA ReadStep ==
  ASSUME Inv, NEW cmd, NEW keys, NEW arg, NEW now \in Now, NEW outcome,
         Command(cmd, keys, arg, now, outcome), outcome.data = data
  PROVE  StepRule
<1>1. clock \in Nat /\ now \in Nat /\ clock <= now
  BY NowFacts
<1> QED
  BY <1>1 DEF StepRule, Command, Spared, Outlives, Live

\* A write to k, whose lookup reads the clock at t: it stops there, or erases the
\* entry, or stores one.
LEMMA WriteStep ==
  ASSUME Inv, NEW cmd \in WriteCommands, NEW k \in Keys, NEW arg, NEW t \in Now,
         NEW now \in Now, t <= now, NEW outcome, Command(cmd, {k}, arg, now, outcome),
         LET m == FindLiveMut(data, k, t)
         IN  \/ outcome.data = m
             \/ outcome.reply.kind # "err" /\ outcome.data = Erase(m, {k})
             \/ /\ outcome.reply.kind # "err"
                /\ k \in DOMAIN m \/ cmd \in Creating
                /\ \E e : /\ outcome.data = Put(m, k, e)
                          /\ k \in DOMAIN m =>
                               /\ cmd \in Redating \/ e.expires_at_ms = m[k].expires_at_ms
                               /\ cmd \in Retyping \/ e.type = m[k].type
  PROVE  StepRule
<1> DEFINE m == FindLiveMut(data, k, t)
<1>1. /\ data' = outcome.data /\ clock' = now
      /\ last'.cmd = cmd /\ last'.keys = {k} /\ last'.reply = outcome.reply
  BY DEF Command
<1>2. clock \in Nat /\ now \in Nat /\ t \in Nat /\ clock <= now /\ clock <= t
  BY NowFacts
<1>3. /\ k \in DOMAIN m <=> Live(data, k, t)
      /\ k \in DOMAIN m => m[k] = data[k]
      /\ \A j : j # k => /\ j \in DOMAIN m <=> j \in DOMAIN data
                         /\ j \in DOMAIN m => m[j] = data[j]
  BY FindLiveMutFacts
<1>4. Live(data, k, now) => Live(data, k, t)
  BY <1>2, LiveBefore DEF Inv
<1>5. Live(data, k, t) => Live(data, k, clock)
  BY <1>2, LiveBefore DEF Inv
<1> HIDE DEF m
<1>6. ASSUME NEW j \in Keys, j # k
      PROVE  Spared(j)
  BY <1>1, <1>3, <1>6 DEF Spared, Outlives, Live, Erase, Restrict, Put, m
<1>7. CASE outcome.data = m
  <2>1. Spared(k)
    BY <1>1, <1>3, <1>4, <1>7 DEF Spared, Outlives, Live
  <2> QED
    BY <1>1, <1>2, <1>6, <2>1 DEF StepRule
<1>8. CASE outcome.reply.kind # "err" /\ outcome.data = Erase(m, {k})
  <2>1. k \notin DOMAIN data'
    BY <1>1, <1>8 DEF Erase, Restrict
  <2>2. Written(k)
    BY <1>1, <1>8, <2>1 DEF Written, Replied
  <2> QED
    BY <1>1, <1>2, <1>6, <2>2 DEF StepRule
<1>9. ASSUME outcome.reply.kind # "err", k \in DOMAIN m \/ cmd \in Creating,
             NEW e, outcome.data = Put(m, k, e),
             k \in DOMAIN m => /\ cmd \in Redating \/ e.expires_at_ms = m[k].expires_at_ms
                               /\ cmd \in Retyping \/ e.type = m[k].type
      PROVE  StepRule
  <2>1. data'[k] = e
    BY <1>1, <1>9 DEF Put
  <2>2. LiveAtStart(k) \/ cmd \in Creating
    BY <1>3, <1>5, <1>9 DEF LiveAtStart
  <2>3. Outlives(k) => k \in DOMAIN m /\ m[k] = data[k]
    BY <1>1, <1>3, <1>4 DEF Outlives
  <2>4. Written(k)
    BY <1>1, <1>9, <2>1, <2>2, <2>3 DEF Written, Replied
  <2> QED
    BY <1>1, <1>2, <1>6, <2>4 DEF StepRule
<1> QED
  BY <1>7, <1>8, <1>9 DEF m

-----------------------------------------------------------------------------
(* Each command has one of the shapes.                                     *)

LEMMA NowsOf ==
  ASSUME NEW t1 \in Now, NEW t2 \in t1..MaxClock, Inv
  PROVE  t2 \in Now /\ t1 <= t2
<1>1. t1 \in Int /\ clock \in Int
  BY NowFacts
<1> QED
  BY <1>1, KeyspaceAssumption DEF KeyspaceAssumption, Now

LEMMA AtOnce ==
  ASSUME NEW t \in Now, Inv
  PROVE  t <= t
BY NowFacts

\* Changing one field of the entry at k is storing a changed entry there.
LEMMA RedatedIsPut ==
  ASSUME NEW d, NEW k \in DOMAIN d, NEW deadline, Good(d)
  PROVE  [d EXCEPT ![k].expires_at_ms = deadline] =
           Put(d, k, Entry(d[k].type, d[k].value, deadline))
<1>1. d = [j \in DOMAIN d |-> d[j]] /\ d[k] = Entry(d[k].type, d[k].value, d[k].expires_at_ms)
  BY DEF Good, IsKeyspace, IsFunction, IsEntry
<1>2. [d[k] EXCEPT !.expires_at_ms = deadline] = Entry(d[k].type, d[k].value, deadline)
  BY <1>1 DEF Entry
<1>3. [d EXCEPT ![k].expires_at_ms = deadline] =
        [j \in DOMAIN d |-> IF j = k THEN [d[k] EXCEPT !.expires_at_ms = deadline] ELSE d[j]]
  BY <1>1
<1>4. DOMAIN d \cup {k} = DOMAIN d
  OBVIOUS
<1> QED
  BY <1>2, <1>3, <1>4 DEF Put

LEMMA PexpireStep ==
  ASSUME Inv, NEW cmd \in {"EXPIRE", "PEXPIRE"}, NEW k \in Keys, NEW arg, NEW ms,
         NEW t1 \in Now, NEW t2 \in t1..MaxClock,
         Command(cmd, {k}, arg, t2, Pexpire(data, k, ms, t1, t2))
  PROVE  StepRule
<1> DEFINE m == FindLiveMut(data, k, t1)
           e == Entry(m[k].type, m[k].value, Wrap(t2 + ms))
           out == Pexpire(data, k, ms, t1, t2)
<1>1. t2 \in Now /\ t1 <= t2
  BY NowsOf
<1>2. cmd \in WriteCommands /\ cmd \in Redating
  BY DEF WriteCommands, Redating
<1>3. Good(m)
  BY FindLiveMutGood DEF Inv
<1>4. e.type = m[k].type
  BY DEF Entry
<1>5. k \notin DOMAIN m => out.data = m
  BY DEF Pexpire, Returns
<1>6. k \in DOMAIN m => out.data = Put(m, k, e) /\ out.reply.kind # "err"
  <2>1. ASSUME k \in DOMAIN m
        PROVE  [m EXCEPT ![k].expires_at_ms = Wrap(t2 + ms)] = Put(m, k, e)
    BY <1>3, <2>1, RedatedIsPut
  <2> HIDE DEF e
  <2> QED
    BY <2>1 DEF Pexpire, Returns, Flag, Number
<1> HIDE DEF m, e, out
<1>7. \/ out.data = m
      \/ /\ out.reply.kind # "err" /\ k \in DOMAIN m
         /\ \E x : /\ out.data = Put(m, k, x)
                   /\ k \in DOMAIN m => x.type = m[k].type
  BY <1>4, <1>5, <1>6
<1> QED
  BY <1>1, <1>2, <1>7, WriteStep DEF m, out

LEMMA PersistStep ==
  ASSUME Inv, NEW k \in Keys, NEW arg, NEW t \in Now,
         Command("PERSIST", {k}, arg, t, Persist(data, k, t))
  PROVE  StepRule
<1> DEFINE m == FindLiveMut(data, k, t)
           e == Entry(m[k].type, m[k].value, 0)
           out == Persist(data, k, t)
<1>1. t <= t
  BY AtOnce
<1>2. "PERSIST" \in WriteCommands /\ "PERSIST" \in Redating
  BY DEF WriteCommands, Redating
<1>3. Good(m)
  BY FindLiveMutGood DEF Inv
<1>4. e.type = m[k].type
  BY DEF Entry
<1>5. \/ out.data = m
      \/ k \in DOMAIN m /\ out.data = Put(m, k, e) /\ out.reply.kind # "err"
  <2>1. ASSUME k \in DOMAIN m
        PROVE  [m EXCEPT ![k].expires_at_ms = 0] = Put(m, k, e)
    BY <1>3, <2>1, RedatedIsPut
  <2> HIDE DEF e
  <2> QED
    BY <2>1 DEF Persist, Returns, Flag, Number
<1> HIDE DEF m, e, out
<1>6. \/ out.data = m
      \/ /\ out.reply.kind # "err" /\ k \in DOMAIN m
         /\ \E x : /\ out.data = Put(m, k, x)
                   /\ k \in DOMAIN m => x.type = m[k].type
  BY <1>4, <1>5
<1> QED
  BY <1>1, <1>2, <1>6, WriteStep DEF m, out

LEMMA DelStep ==
  ASSUME Inv, NEW ks, NEW ts, NEW arg, NEW t \in Now,
         Command("DEL", ToSet(ks), arg, t, Del(data, ks, ts))
  PROVE  StepRule
<1>1. clock \in Nat /\ t \in Nat /\ clock <= t
  BY NowFacts
<1>2. /\ clock' = t /\ data' = Erase(data, ToSet(ks)) /\ last'.cmd = "DEL"
      /\ last'.keys = ToSet(ks) /\ last'.reply.kind = "int"
  BY DEF Command, Del, Returns, Number
<1>3. ASSUME NEW k \in Keys, k \in ToSet(ks)
      PROVE  Written(k)
  BY <1>2, <1>3 DEF Written, Replied, WriteCommands, Erase, Restrict
<1>4. ASSUME NEW k \in Keys, k \notin ToSet(ks)
      PROVE  Spared(k)
  BY <1>2, <1>4 DEF Spared, Outlives, Live, Erase, Restrict
<1> QED
  BY <1>1, <1>2, <1>3, <1>4 DEF StepRule

LEMMA RenameStep ==
  ASSUME Inv, NEW src \in Keys, NEW dst \in Keys, NEW arg, NEW t \in Now,
         Command("RENAME", {src, dst}, arg, t, Rename(data, src, dst, t))
  PROVE  StepRule
<1> DEFINE m == FindLiveMut(data, src, t)
<1>1. clock \in Nat /\ t \in Nat /\ clock <= t
  BY NowFacts
<1>2. /\ clock' = t /\ last'.cmd = "RENAME" /\ last'.keys = {src, dst}
      /\ data' = Rename(data, src, dst, t).data
      /\ last'.reply = Rename(data, src, dst, t).reply
  BY DEF Command
<1>3. /\ src \in DOMAIN m <=> Live(data, src, t)
      /\ src \in DOMAIN m => m[src] = data[src]
      /\ \A j : j # src => /\ j \in DOMAIN m <=> j \in DOMAIN data
                           /\ j \in DOMAIN m => m[j] = data[j]
  BY FindLiveMutFacts
<1>4. CASE src \notin DOMAIN m
  <2>1. data' = m
    BY <1>2, <1>4 DEF Rename, Returns
  <2>2. \A k \in Keys : Spared(k)
    BY <1>2, <1>3, <1>4, <2>1 DEF Spared, Outlives, Live
  <2> QED
    BY <1>1, <1>2, <2>2 DEF StepRule
<1>5. CASE src \in DOMAIN m
  <2>1. data' = Put(Erase(m, {src}), dst, m[src]) /\ last'.reply.kind = "ok"
    BY <1>2, <1>5 DEF Rename, Returns, Ok
  <2> HIDE DEF m
  <2>2. ASSUME NEW k \in Keys, k \in {src, dst}
        PROVE  Written(k)
    <3>1. k \in DOMAIN data' => k = dst
      BY <2>1, <2>2 DEF Put, Erase, Restrict
    <3>2. "RENAME" \in WriteCommands \cap Creating \cap Redating \cap Retyping
      BY DEF WriteCommands, Creating, Redating, Retyping
    <3> QED
      BY <1>2, <2>1, <2>2, <3>1, <3>2 DEF Written, Replied
  <2>3. ASSUME NEW k \in Keys, k \notin {src, dst}
        PROVE  Spared(k)
    BY <1>3, <2>1, <2>3 DEF Spared, Outlives, Live, Put, Erase, Restrict
  <2> QED
    BY <1>1, <1>2, <2>2, <2>3 DEF StepRule
<1> QED
  BY <1>4, <1>5

LEMMA FlushdbStep ==
  ASSUME Inv, NEW t \in Now, NEW arg, Command("FLUSHDB", {}, arg, t, Returns(EmptyMap, Ok))
  PROVE  StepRule
<1>1. clock \in Nat /\ t \in Nat /\ clock <= t
  BY NowFacts
<1>2. /\ clock' = t /\ DOMAIN data' = {} /\ last'.cmd = "FLUSHDB" /\ last'.reply.kind = "ok"
  BY DEF Command, Returns, EmptyMap, Ok
<1>3. \A k \in Keys : Written(k)
  BY <1>2 DEF Written, Replied, WriteCommands
<1> QED
  BY <1>1, <1>2, <1>3 DEF StepRule

LEMMA SweepStep ==
  ASSUME Inv, NEW ts \in Readings(DOMAIN data), NEW t \in After(ts), NEW arg,
         Command("sweep", {}, arg, t, SweepExpired(data, ts))
  PROVE  StepRule
<1>1. t \in Now
  BY DEF After
<1>2. clock \in Nat /\ t \in Nat /\ clock <= t
  BY <1>1, NowFacts
<1>3. /\ clock' = t
      /\ data' = Erase(data, {k \in Visited(data) : IsExpired(data[k], ts[k])})
  BY DEF Command, SweepExpired, Returns
<1>4. ASSUME NEW k \in Keys
      PROVE  Spared(k)
  <2>1. CASE k \in DOMAIN data /\ IsExpired(data[k], ts[k])
    <3>1. ts \in [DOMAIN data -> Now] /\ ts[k] <= t
      BY <2>1 DEF Readings, After
    <3>2. ts[k] \in Nat
      BY <2>1, <3>1, NowFacts
    <3>3. ~Live(data, k, ts[k])
      BY <2>1 DEF Live
    <3>4. ~Live(data, k, t)
      BY <1>2, <3>1, <3>2, <3>3, LiveBefore DEF Inv
    <3> QED
      BY <1>3, <3>4 DEF Spared, Outlives, Erase, Restrict
  <2>2. CASE ~(k \in DOMAIN data /\ IsExpired(data[k], ts[k]))
    BY <1>3, <2>2 DEF Spared, Outlives, Live, Erase, Restrict, Visited
  <2> QED
    BY <2>1, <2>2
<1> QED
  BY <1>2, <1>3, <1>4 DEF StepRule

\* The commands that update a value in place.
LEMMA UpdateStep ==
  ASSUME Inv, NEW cmd \in WriteCommands, NEW k \in Keys, NEW arg, NEW t \in Now,
         NEW outcome, Command(cmd, {k}, arg, t, outcome), NEW type, NEW value,
         LET m == FindLiveMut(data, k, t)
         IN  \/ outcome.data = m
             \/ outcome.reply.kind # "err" /\ outcome.data = Erase(m, {k})
             \/ /\ outcome.reply.kind # "err" /\ ~Conflict(m, k, type)
                /\ k \in DOMAIN m \/ cmd \in Creating
                /\ outcome.data = Update(m, k, type, value)
  PROVE  StepRule
<1> DEFINE m == FindLiveMut(data, k, t)
           e == Entry(type, value, IF k \in DOMAIN m THEN m[k].expires_at_ms ELSE 0)
<1>1. t <= t
  BY AtOnce
<1>2. Update(m, k, type, value) = Put(m, k, e)
  BY DEF Update
<1>3. k \in DOMAIN m => e.expires_at_ms = m[k].expires_at_ms
  BY DEF Entry
<1>4. k \in DOMAIN m /\ ~Conflict(m, k, type) => e.type = m[k].type
  BY DEF Entry, Conflict
<1> HIDE DEF e, m
<1>5. \/ outcome.data = m
      \/ outcome.reply.kind # "err" /\ outcome.data = Erase(m, {k})
      \/ /\ outcome.reply.kind # "err"
         /\ k \in DOMAIN m \/ cmd \in Creating
         /\ \E x : /\ outcome.data = Put(m, k, x)
                   /\ k \in DOMAIN m =>
                        x.expires_at_ms = m[k].expires_at_ms /\ x.type = m[k].type
  BY <1>2, <1>3, <1>4 DEF m
<1> QED
  BY <1>1, <1>5, WriteStep DEF m

LEMMA SetStep ==
  ASSUME Inv, NEW k \in Keys, NEW v, NEW deadline, NEW arg, NEW t \in Now,
         NEW outcome, Command("SET", {k}, arg, t, outcome),
         outcome = Returns(data, Nil) \/ outcome = Set(data, k, v, deadline)
  PROVE  StepRule
<1>1. clock \in Nat /\ t \in Nat /\ clock <= t
  BY NowFacts
<1>2. CASE outcome = Returns(data, Nil)
  BY <1>2, ReadStep DEF Returns
<1>3. CASE outcome = Set(data, k, v, deadline)
  <2>1. /\ clock' = t /\ data' = Put(data, k, Entry("string", v, deadline))
        /\ last'.cmd = "SET" /\ last'.keys = {k} /\ last'.reply.kind = "ok"
    BY <1>3 DEF Command, Set, Returns, Ok
  <2>2. "SET" \in WriteCommands \cap Creating \cap Redating \cap Retyping
    BY DEF WriteCommands, Creating, Redating, Retyping
  <2>3. Written(k)
    BY <2>1, <2>2 DEF Written, Replied
  <2>4. ASSUME NEW j \in Keys, j # k
        PROVE  Spared(j)
    BY <2>1, <2>4 DEF Spared, Outlives, Live, Put
  <2> QED
    BY <1>1, <2>1, <2>3, <2>4 DEF StepRule
<1> QED
  BY <1>2, <1>3

LEMMA MsetStep ==
  ASSUME Inv, NEW pairs, NEW arg, NEW t \in Now,
         Command("MSET", {pairs[i][1] : i \in DOMAIN pairs}, arg, t, Mset(data, pairs))
  PROVE  StepRule
<1> DEFINE named == {pairs[i][1] : i \in DOMAIN pairs}
<1>1. clock \in Nat /\ t \in Nat /\ clock <= t
  BY NowFacts
<1>2. /\ clock' = t /\ last'.cmd = "MSET" /\ last'.keys = named /\ last'.reply.kind = "ok"
      /\ data' = [k \in DOMAIN data \cup named |->
                    IF k \in named THEN Entry("string", LastGiven(pairs, k), 0) ELSE data[k]]
  BY DEF Command, Mset, Returns, Ok
<1> HIDE DEF named
<1>3. "MSET" \in WriteCommands \cap Creating \cap Redating \cap Retyping
  BY DEF WriteCommands, Creating, Redating, Retyping
<1>4. ASSUME NEW k \in Keys, k \in named
      PROVE  Written(k)
  BY <1>2, <1>3, <1>4 DEF Written, Replied
<1>5. ASSUME NEW k \in Keys, k \notin named
      PROVE  Spared(k)
  BY <1>2, <1>5 DEF Spared, Outlives, Live
<1> QED
  BY <1>1, <1>2, <1>4, <1>5 DEF StepRule

LEMMA AddToStep ==
  ASSUME Inv, NEW cmd \in {"INCR", "INCRBY", "DECR", "DECRBY"}, NEW k \in Keys, NEW n,
         NEW arg, NEW t \in Now, Command(cmd, {k}, arg, t, AddTo(data, k, n, t))
  PROVE  StepRule
<1> DEFINE m == FindLiveMut(data, k, t)
           current == IF k \in DOMAIN m THEN ParseI64(m[k].value) ELSE 0
           out == AddTo(data, k, n, t)
<1>1. cmd \in WriteCommands /\ cmd \in Creating
  BY DEF WriteCommands, Creating
<1>2. \/ out.data = m
      \/ /\ out.reply.kind # "err" /\ ~Conflict(m, k, "string")
         /\ out.data = Update(m, k, "string", TextOf(current + n))
  BY DEF AddTo, Returns, Number
<1> HIDE DEF out, current
<1> QED
  BY <1>1, <1>2, UpdateStep DEF out

LEMMA AppendToStep ==
  ASSUME Inv, NEW k \in Keys, NEW v, NEW arg, NEW t \in Now,
         Command("APPEND", {k}, arg, t, AppendTo(data, k, v, t))
  PROVE  StepRule
<1> DEFINE m == FindLiveMut(data, k, t)
           value == Concat(ValueAt(m, k, Empty), v)
           out == AppendTo(data, k, v, t)
<1>1. "APPEND" \in WriteCommands /\ "APPEND" \in Creating
  BY DEF WriteCommands, Creating
<1>2. \/ out.data = m
      \/ /\ out.reply.kind # "err" /\ ~Conflict(m, k, "string")
         /\ out.data = Update(m, k, "string", value)
  BY DEF AppendTo, Returns, Number
<1> HIDE DEF out, value
<1> QED
  BY <1>1, <1>2, UpdateStep DEF out

LEMMA GetsetStep ==
  ASSUME Inv, NEW k \in Keys, NEW v, NEW arg, NEW t \in Now,
         Command("GETSET", {k}, arg, t, Getset(data, k, v, t))
  PROVE  StepRule
<1> DEFINE m == FindLiveMut(data, k, t)
           e == Entry("string", v, 0)
           out == Getset(data, k, v, t)
<1>1. t <= t
  BY AtOnce
<1>2. "GETSET" \in WriteCommands /\ "GETSET" \in Creating /\ "GETSET" \in Redating
  BY DEF WriteCommands, Creating, Redating
<1>3. \/ out.data = m
      \/ out.reply.kind # "err" /\ ~Conflict(m, k, "string") /\ out.data = Put(m, k, e)
  BY DEF Getset, Returns, Bulk, Nil
<1>4. k \in DOMAIN m /\ ~Conflict(m, k, "string") => e.type = m[k].type
  BY DEF Entry, Conflict
<1> HIDE DEF out, e, m
<1>5. \/ out.data = m
      \/ /\ out.reply.kind # "err"
         /\ \E x : /\ out.data = Put(m, k, x)
                   /\ k \in DOMAIN m => x.type = m[k].type
  BY <1>3, <1>4
<1> QED
  BY <1>1, <1>2, <1>5, WriteStep DEF out, m

LEMMA PushStep ==
  ASSUME Inv, NEW cmd \in {"LPUSH", "RPUSH"}, NEW k \in Keys, NEW front, NEW back,
         NEW arg, NEW t \in Now, Command(cmd, {k}, arg, t, PushInto(data, k, front, back, t))
  PROVE  StepRule
<1> DEFINE m == FindLiveMut(data, k, t)
           list == front \o ValueAt(m, k, <<>>) \o back
           out == PushInto(data, k, front, back, t)
<1>1. cmd \in WriteCommands /\ cmd \in Creating
  BY DEF WriteCommands, Creating
<1>2. \/ out.data = m
      \/ /\ out.reply.kind # "err" /\ ~Conflict(m, k, "list")
         /\ out.data = Update(m, k, "list", list)
  BY DEF PushInto, Returns, Number
<1> HIDE DEF out, list
<1> QED
  BY <1>1, <1>2, UpdateStep DEF out

LEMMA PopStep ==
  ASSUME Inv, NEW cmd \in {"LPOP", "RPOP"}, NEW k \in Keys, NEW end,
         NEW arg, NEW t \in Now, Command(cmd, {k}, arg, t, PopFrom(data, k, t, end))
  PROVE  StepRule
<1> DEFINE m == FindLiveMut(data, k, t)
           list == m[k].value
           rest == RemoveAt(list, IF end = "left" THEN 1 ELSE Len(list))
           out == PopFrom(data, k, t, end)
<1>1. cmd \in WriteCommands
  BY DEF WriteCommands
<1> HIDE DEF m, list, rest
<1>2. \/ out.data = m
      \/ out.reply.kind # "err" /\ out.data = Erase(m, {k})
      \/ /\ out.reply.kind # "err" /\ k \in DOMAIN m /\ ~Conflict(m, k, "list")
         /\ out.data = Shorten(m, k, rest)
  BY DEF PopFrom, Returns, Bulk, Nil, m, list, rest
<1>3. Shorten(m, k, rest) = Erase(m, {k}) \/ Shorten(m, k, rest) = Update(m, k, "list", rest)
  BY DEF Shorten
<1> HIDE DEF out
<1> QED
  BY <1>1, <1>2, <1>3, UpdateStep DEF out, m

LEMMA HsetStep ==
  ASSUME Inv, NEW k \in Keys, NEW pairs, NEW arg, NEW t \in Now,
         Command("HSET", {k}, arg, t, Hset(data, k, pairs, t))
  PROVE  StepRule
<1> DEFINE m == FindLiveMut(data, k, t)
           hash == Assign(ValueAt(m, k, EmptyMap), pairs)
           out == Hset(data, k, pairs, t)
<1>1. "HSET" \in WriteCommands /\ "HSET" \in Creating
  BY DEF WriteCommands, Creating
<1>2. \/ out.data = m
      \/ /\ out.reply.kind # "err" /\ ~Conflict(m, k, "hash")
         /\ out.data = Update(m, k, "hash", hash)
  BY DEF Hset, Returns, Number
<1> HIDE DEF out, hash
<1> QED
  BY <1>1, <1>2, UpdateStep DEF out

LEMMA HdelStep ==
  ASSUME Inv, NEW k \in Keys, NEW fs, NEW arg, NEW t \in Now,
         Command("HDEL", {k}, arg, t, Hdel(data, k, fs, t))
  PROVE  StepRule
<1> DEFINE m == FindLiveMut(data, k, t)
           rest == Erase(ValueAt(m, k, EmptyMap), ToSet(fs))
           out == Hdel(data, k, fs, t)
<1>1. "HDEL" \in WriteCommands
  BY DEF WriteCommands
<1>2. \/ out.data = m
      \/ out.reply.kind # "err" /\ out.data = Erase(m, {k})
      \/ /\ out.reply.kind # "err" /\ ~Conflict(m, k, "hash") /\ k \in DOMAIN m
         /\ out.data = Update(m, k, "hash", rest)
  BY DEF Hdel, Returns, Number
<1> HIDE DEF out, rest
<1> QED
  BY <1>1, <1>2, UpdateStep DEF out

LEMMA SaddStep ==
  ASSUME Inv, NEW k \in Keys, NEW members, NEW arg, NEW t \in Now,
         Command("SADD", {k}, arg, t, Sadd(data, k, members, t))
  PROVE  StepRule
<1> DEFINE m == FindLiveMut(data, k, t)
           set == ValueAt(m, k, {}) \cup ToSet(members)
           out == Sadd(data, k, members, t)
<1>1. "SADD" \in WriteCommands /\ "SADD" \in Creating
  BY DEF WriteCommands, Creating
<1>2. \/ out.data = m
      \/ /\ out.reply.kind # "err" /\ ~Conflict(m, k, "set")
         /\ out.data = Update(m, k, "set", set)
  BY DEF Sadd, Returns, Number
<1> HIDE DEF out, set
<1> QED
  BY <1>1, <1>2, UpdateStep DEF out

LEMMA SremStep ==
  ASSUME Inv, NEW k \in Keys, NEW members, NEW arg, NEW t \in Now,
         Command("SREM", {k}, arg, t, Srem(data, k, members, t))
  PROVE  StepRule
<1> DEFINE m == FindLiveMut(data, k, t)
           rest == ValueAt(m, k, {}) \ ToSet(members)
           out == Srem(data, k, members, t)
<1>1. "SREM" \in WriteCommands
  BY DEF WriteCommands
<1>2. \/ out.data = m
      \/ out.reply.kind # "err" /\ out.data = Erase(m, {k})
      \/ /\ out.reply.kind # "err" /\ ~Conflict(m, k, "set") /\ k \in DOMAIN m
         /\ out.data = Update(m, k, "set", rest)
  BY DEF Srem, Returns, Number
<1> HIDE DEF out, rest
<1> QED
  BY <1>1, <1>2, UpdateStep DEF out

-----------------------------------------------------------------------------
(* Every step keeps the rule.                                              *)

LEMMA AfterNow ==
  ASSUME NEW ts, NEW t \in After(ts)
  PROVE  t \in Now
BY DEF After

LEMMA KeyspaceStepRule ==
  ASSUME Inv, KeyspaceNext
  PROVE  StepRule
<1>1. CASE HandleDel
  BY <1>1, AfterNow, DelStep DEF HandleDel
<1>2. CASE HandleExists
  <2>1. \A ks, ts : Exists(data, ks, ts).data = data
    BY DEF Exists, Returns
  <2> QED
    BY <1>2, <2>1, AfterNow, ReadStep DEF HandleExists
<1>3. CASE HandleExpire
  BY <1>3, PexpireStep DEF HandleExpire, Expire
<1>4. CASE HandlePexpire
  BY <1>4, PexpireStep DEF HandlePexpire
<1>5. CASE HandlePersist
  BY <1>5, PersistStep DEF HandlePersist
<1>6. CASE HandlePttl
  <2>1. \A r : Returns(data, r).data = data
    BY DEF Returns
  <2> QED
    BY <1>6, <2>1, NowsOf, ReadStep DEF HandlePttl
<1>7. CASE HandleTtl
  <2>1. \A r : Returns(data, r).data = data
    BY DEF Returns
  <2> QED
    BY <1>7, <2>1, NowsOf, ReadStep DEF HandleTtl
<1>8. CASE HandleType
  <2>1. \A k, t : Type(data, k, t).data = data
    BY DEF Type, Returns
  <2> QED
    BY <1>8, <2>1, ReadStep DEF HandleType
<1>9. CASE HandleRename
  BY <1>9, RenameStep DEF HandleRename
<1>10. CASE HandleDbsize
  <2>1. \A ts : Dbsize(data, ts).data = data
    BY DEF Dbsize, Returns
  <2> QED
    BY <1>10, <2>1, AfterNow, ReadStep DEF HandleDbsize
<1>11. CASE HandleKeys
  <2>1. \A matching, ts : KeysOp(data, matching, ts).data = data
    BY DEF KeysOp, Returns
  <2> QED
    BY <1>11, <2>1, AfterNow, ReadStep DEF HandleKeys
<1>12. CASE HandleFlushdb
  BY <1>12, FlushdbStep DEF HandleFlushdb
<1>13. CASE HandleRejected
  <2>1. \A r : Returns(data, r).data = data
    BY DEF Returns
  <2> QED
    BY <1>13, <2>1, ReadStep DEF HandleRejected
<1>14. CASE Sweep
  BY <1>14, SweepStep DEF Sweep
<1> QED
  BY <1>1, <1>2, <1>3, <1>4, <1>5, <1>6, <1>7, <1>8, <1>9, <1>10, <1>11, <1>12, <1>13,
     <1>14 DEF KeyspaceNext

LEMMA StringsStepRule ==
  ASSUME Inv, StringsNext
  PROVE  StepRule
<1>1. CASE HandleSet
  <2>1. PICK k \in Keys, v \in Values, expiry \in Expiries, cond \in {"always", "NX", "XX"},
             t1 \in Now, t2 \in Now :
          Command("SET", {k}, <<v, expiry, cond>>, t2,
                  IF Refused(cond, Live(data, k, t2)) THEN Returns(data, Nil)
                  ELSE Set(data, k, v, Deadline(expiry, t1)))
    BY <1>1, NowType DEF HandleSet
  <2> QED
    BY <2>1, SetStep
<1>2. CASE HandleGet
  <2>1. \A k, t : Get(data, k, t).data = data
    BY DEF Get, ReadAs, Returns
  <2> QED
    BY <1>2, <2>1, ReadStep DEF HandleGet
<1>3. CASE HandleStrlen
  <2>1. \A k, t : Strlen(data, k, t).data = data
    BY DEF Strlen, ReadAs, Returns
  <2> QED
    BY <1>3, <2>1, ReadStep DEF HandleStrlen
<1>4. CASE HandleIncr \/ HandleDecr \/ HandleIncrby \/ HandleDecrby
  BY <1>4, AddToStep DEF HandleIncr, HandleDecr, HandleIncrby, HandleDecrby, Incrby, Decrby
<1>5. CASE HandleAppend
  BY <1>5, AppendToStep DEF HandleAppend
<1>6. CASE HandleGetset
  BY <1>6, GetsetStep DEF HandleGetset
<1>7. CASE HandleMset
  BY <1>7, MsetStep DEF HandleMset
<1>8. CASE HandleMget
  <2>1. \A ks, ts : Mget(data, ks, ts).data = data
    BY DEF Mget, Returns
  <2> QED
    BY <1>8, <2>1, AfterNow, ReadStep DEF HandleMget
<1> QED
  BY <1>1, <1>2, <1>3, <1>4, <1>5, <1>6, <1>7, <1>8 DEF StringsNext

LEMMA ListsStepRule ==
  ASSUME Inv, ListsNext
  PROVE  StepRule
<1>1. CASE HandleLpush
  BY <1>1, PushStep DEF HandleLpush, Lpush
<1>2. CASE HandleRpush
  BY <1>2, PushStep DEF HandleRpush, Rpush
<1>3. CASE HandleLpop
  BY <1>3, PopStep DEF HandleLpop, Lpop
<1>4. CASE HandleRpop
  BY <1>4, PopStep DEF HandleRpop, Rpop
<1>5. CASE HandleLrange
  <2>1. \A k, start, stop, t : Lrange(data, k, start, stop, t).data = data
    BY DEF Lrange, ReadAs, Returns
  <2> QED
    BY <1>5, <2>1, ReadStep DEF HandleLrange
<1>6. CASE HandleLlen
  <2>1. \A k, t : Llen(data, k, t).data = data
    BY DEF Llen, ReadAs, Returns
  <2> QED
    BY <1>6, <2>1, ReadStep DEF HandleLlen
<1>7. CASE HandleLindex
  <2>1. \A k, index, t : Lindex(data, k, index, t).data = data
    BY DEF Lindex, ReadAs, Returns
  <2> QED
    BY <1>7, <2>1, ReadStep DEF HandleLindex
<1> QED
  BY <1>1, <1>2, <1>3, <1>4, <1>5, <1>6, <1>7 DEF ListsNext

LEMMA HashesStepRule ==
  ASSUME Inv, HashesNext
  PROVE  StepRule
<1>1. CASE HandleHset
  BY <1>1, HsetStep DEF HandleHset
<1>2. CASE HandleHdel
  BY <1>2, HdelStep DEF HandleHdel
<1>3. ASSUME NEW cmd, NEW k, NEW arg, NEW t \in Now, NEW type, NEW missing, NEW answer,
             Command(cmd, {k}, arg, t, ReadAs(type, data, k, t, missing, answer))
      PROVE  StepRule
  <2>1. ReadAs(type, data, k, t, missing, answer).data = data
    BY DEF ReadAs, Returns
  <2> QED
    BY <1>3, <2>1, ReadStep
<1>4. CASE HandleHget
  BY <1>3, <1>4 DEF HandleHget, Hget
<1>5. CASE HandleHgetall
  BY <1>3, <1>5 DEF HandleHgetall, Hgetall
<1>6. CASE HandleHexists
  BY <1>3, <1>6 DEF HandleHexists, Hexists
<1>7. CASE HandleHlen
  BY <1>3, <1>7 DEF HandleHlen, Hlen
<1>8. CASE HandleHkeys
  BY <1>3, <1>8 DEF HandleHkeys, Hkeys
<1>9. CASE HandleHvals
  BY <1>3, <1>9 DEF HandleHvals, Hvals
<1> QED
  BY <1>1, <1>2, <1>4, <1>5, <1>6, <1>7, <1>8, <1>9 DEF HashesNext

LEMMA SetsStepRule ==
  ASSUME Inv, SetsNext
  PROVE  StepRule
<1>1. CASE HandleSadd
  BY <1>1, SaddStep DEF HandleSadd
<1>2. CASE HandleSrem
  BY <1>2, SremStep DEF HandleSrem
<1>3. ASSUME NEW cmd, NEW k, NEW arg, NEW t \in Now, NEW type, NEW missing, NEW answer,
             Command(cmd, {k}, arg, t, ReadAs(type, data, k, t, missing, answer))
      PROVE  StepRule
  <2>1. ReadAs(type, data, k, t, missing, answer).data = data
    BY DEF ReadAs, Returns
  <2> QED
    BY <1>3, <2>1, ReadStep
<1>4. CASE HandleSmembers
  BY <1>3, <1>4 DEF HandleSmembers, Smembers
<1>5. CASE HandleSismember
  BY <1>3, <1>5 DEF HandleSismember, Sismember
<1>6. CASE HandleScard
  BY <1>3, <1>6 DEF HandleScard, Scard
<1>7. ASSUME NEW cmd, SetOperation(cmd)
      PROVE  StepRule
  <2>1. \A r : Returns(data, r).data = data
    BY DEF Returns
  <2> QED
    BY <1>7, <2>1, AfterNow, ReadStep DEF SetOperation
<1>8. CASE HandleSunion \/ HandleSinter
  BY <1>7, <1>8 DEF HandleSunion, HandleSinter
<1> QED
  BY <1>1, <1>2, <1>4, <1>5, <1>6, <1>8 DEF SetsNext

LEMMA EveryStepRule ==
  ASSUME Inv, Next
  PROVE  StepRule
BY KeyspaceStepRule, StringsStepRule, ListsStepRule, HashesStepRule, SetsStepRule DEF Next

-----------------------------------------------------------------------------
(* What a command stores: counters, and keys that did not exist.           *)

Counting == {"INCR", "INCRBY", "DECR", "DECRBY"}

Added(cmd, arg) == IF cmd \in {"DECR", "DECRBY"} THEN -arg ELSE arg

\* One step of INCR, INCRBY, DECR or DECRBY.
Count ==
  \E cmd \in Counting, k \in Keys, arg \in I64 \cup {1}, t \in Now :
    Command(cmd, {k}, arg, t, AddTo(data, k, Added(cmd, arg), t))

\* The commands that create a key by updating it.
Building == Creating \ {"SET", "MSET", "RENAME"}

LEMMA CountSteps ==
  /\ HandleIncr => Count
  /\ HandleDecr => Count
  /\ HandleIncrby => Count
  /\ HandleDecrby => Count
<1>1. HandleIncr => Count
  BY DEF HandleIncr, Incrby, Count, Counting, Added
<1>2. HandleDecr => Count
  BY DEF HandleDecr, Decrby, Count, Counting, Added
<1>3. HandleIncrby => Count
  BY DEF HandleIncrby, Incrby, Count, Counting, Added
<1>4. HandleDecrby => Count
  BY DEF HandleDecrby, Decrby, Count, Counting, Added
<1> QED
  BY <1>1, <1>2, <1>3, <1>4

\* The steps by the name of the command.
LEMMA CreatingSteps ==
  ASSUME Next, last'.cmd \in Creating
  PROVE  \/ HandleSet \/ HandleMset \/ HandleRename
         \/ Count \/ HandleAppend \/ HandleGetset
         \/ HandleLpush \/ HandleRpush \/ HandleHset \/ HandleSadd
<1>1. last'.cmd \in {"INCR", "INCRBY", "DECR", "DECRBY", "APPEND", "GETSET",
                    "LPUSH", "RPUSH", "HSET", "SADD", "SET", "MSET", "RENAME"}
  BY DEF Creating
<1>2. KeyspaceNext => HandleRename
  BY <1>1 DEF KeyspaceNext, Command, HandleDel, HandleExists, HandleExpire, HandlePexpire,
     HandlePersist, HandlePttl, HandleTtl, HandleType, HandleDbsize,
     HandleKeys, HandleFlushdb, HandleRejected, Sweep
<1>3. StringsNext => Count \/ HandleAppend \/ HandleGetset \/ HandleSet \/ HandleMset
  BY <1>1, CountSteps DEF StringsNext, Command, HandleGet, HandleStrlen, HandleMget
<1>4. ListsNext => HandleLpush \/ HandleRpush
  BY <1>1 DEF ListsNext, Command, HandleLpop, HandleRpop, HandleLrange, HandleLlen,
     HandleLindex
<1>5. HashesNext => HandleHset
  BY <1>1 DEF HashesNext, Command, HandleHget, HandleHdel, HandleHgetall, HandleHexists,
     HandleHlen, HandleHkeys, HandleHvals
<1>6. SetsNext => HandleSadd
  <2>1. ASSUME NEW cmd, SetOperation(cmd)
        PROVE  last'.cmd = cmd
    <3>1. PICK ks, t, r : Command(cmd, ToSet(ks), ks, t, Returns(data, r))
      BY <2>1, Zenon DEF SetOperation
    <3> QED
      BY <3>1 DEF Command
  <2> QED
    BY <1>1, <2>1 DEF SetsNext, Command, HandleSrem, HandleSmembers, HandleSismember,
       HandleScard, HandleSunion, HandleSinter
<1> QED
  BY <1>2, <1>3, <1>4, <1>5, <1>6 DEF Next

LEMMA BuildingSteps ==
  ASSUME Next, last'.cmd \in Building
  PROVE  \/ Count \/ HandleAppend \/ HandleGetset
         \/ HandleLpush \/ HandleRpush \/ HandleHset \/ HandleSadd
<1>1. last'.cmd \in Creating /\ last'.cmd \notin {"SET", "MSET", "RENAME"}
  BY DEF Building
<1>2. ~HandleSet /\ ~HandleMset /\ ~HandleRename
  BY <1>1 DEF HandleSet, HandleMset, HandleRename, Command
<1> QED
  BY <1>1, <1>2, CreatingSteps

LEMMA CountingSteps ==
  ASSUME Next, last'.cmd \in Counting
  PROVE  Count
<1>1. last'.cmd \in Building
  BY DEF Counting, Building, Creating
<1>2. /\ ~HandleAppend /\ ~HandleGetset /\ ~HandleLpush /\ ~HandleRpush
      /\ ~HandleHset /\ ~HandleSadd
  BY DEF HandleAppend, HandleGetset, HandleLpush, HandleRpush, HandleHset, HandleSadd,
     Command, Counting
<1> QED
  BY <1>1, <1>2, BuildingSteps

\* The steps of SET and RENAME.
LEMMA NamedSteps ==
  ASSUME Next
  PROVE  /\ last'.cmd = "SET" => HandleSet
         /\ last'.cmd = "RENAME" => HandleRename
<1>1. last'.cmd \in {"SET", "RENAME"} => last'.cmd \in Creating
  BY DEF Creating
<1>2. last'.cmd \in {"SET", "RENAME"} =>
        /\ ~HandleMset /\ ~Count /\ ~HandleAppend /\ ~HandleGetset
        /\ ~HandleLpush /\ ~HandleRpush /\ ~HandleHset /\ ~HandleSadd
  BY DEF HandleMset, Count, Counting, HandleAppend, HandleGetset, HandleLpush, HandleRpush,
     HandleHset, HandleSadd, Command
<1>3. /\ last'.cmd = "SET" => ~HandleRename
      /\ last'.cmd = "RENAME" => ~HandleSet
  BY DEF HandleRename, HandleSet, Command
<1> QED
  BY <1>1, <1>2, <1>3, CreatingSteps

\* The key that a step of a counter is about, and what it answers.
LEMMA CountFacts ==
  ASSUME Inv, NEW cmd \in Counting, NEW k \in Keys, NEW arg, NEW t \in Now,
         Command(cmd, {k}, arg, t, AddTo(data, k, Added(cmd, arg), t))
  PROVE  /\ Replied("int") =>
              /\ last'.reply.n \in I64
              /\ ParseI64(data'[k].value) = last'.reply.n
              /\ Outlives(k) => last'.reply.n = ParseI64(data[k].value) + Delta
         /\ last'.reply = Err("integer") /\ Outlives(k) =>
              ParseI64(data[k].value) = NaN \/ ParseI64(data[k].value) + Delta \notin I64
<1> DEFINE m == FindLiveMut(data, k, t)
           n == Added(cmd, arg)
           current == IF k \in DOMAIN m THEN ParseI64(m[k].value) ELSE 0
           out == AddTo(data, k, n, t)
<1>1. clock' = t /\ data' = out.data /\ last'.reply = out.reply /\ Delta = n
  BY DEF Command, Added, Delta
<1>2. /\ k \in DOMAIN m <=> Live(data, k, t)
      /\ k \in DOMAIN m => m[k] = data[k]
  BY FindLiveMutFacts
<1>3. Outlives(k) => current = ParseI64(data[k].value)
  BY <1>1, <1>2 DEF Outlives
<1> HIDE DEF n, m
<1>4. CASE Conflict(m, k, "string")
  BY <1>1, <1>4 DEF Replied, AddTo, Returns, WrongType, Err, m
<1>5. CASE ~Conflict(m, k, "string") /\ (current = NaN \/ current + n \notin I64)
  <2>1. last'.reply = Err("integer")
    BY <1>1, <1>5 DEF AddTo, Returns, m
  <2> QED
    BY <1>1, <1>3, <1>5, <2>1 DEF Replied, Err
<1>6. CASE ~Conflict(m, k, "string") /\ ~(current = NaN \/ current + n \notin I64)
  <2>1. last'.reply = Number(current + n) /\ data' = Update(m, k, "string", TextOf(current + n))
    BY <1>1, <1>6 DEF AddTo, Returns, m
  <2>2. data'[k].value = TextOf(current + n)
    BY <2>1 DEF Update, Put, Entry
  <2>3. ParseI64(TextOf(current + n)) = current + n
    BY <1>6, StringsAssumption DEF StringsAssumption
  <2> QED
    BY <1>1, <1>3, <1>6, <2>1, <2>2, <2>3 DEF Number, Err
<1> QED
  BY <1>4, <1>5, <1>6

\* A write to a key that was dead when it began starts from nothing.
LEMMA FreshWrite ==
  ASSUME Inv, NEW cmd, NEW k \in Keys, NEW arg, NEW t \in Now, NEW outcome,
         Command(cmd, {k}, arg, t, outcome),
         LET m == FindLiveMut(data, k, t)
         IN  \/ outcome.data = m
             \/ \E e : /\ outcome.data = Put(m, k, e)
                       /\ k \notin DOMAIN m =>
                            e.expires_at_ms = 0 /\ e.value = Afresh(cmd, arg)
  PROVE  \A j \in last'.keys : ~LiveAtStart(j) /\ LiveAtEnd(j) =>
           /\ data'[j].expires_at_ms = 0
           /\ data'[j].value = Afresh(last'.cmd, last'.arg)
<1> DEFINE m == FindLiveMut(data, k, t)
<1>1. /\ data' = outcome.data /\ last'.keys = {k}
      /\ last'.cmd = cmd /\ last'.arg = arg
  BY DEF Command
<1>2. clock \in Nat /\ t \in Nat /\ clock <= t
  BY NowFacts
<1>3. k \in DOMAIN m => LiveAtStart(k)
  BY <1>2, FindLiveMutFacts, LiveBefore DEF LiveAtStart, Inv
<1> HIDE DEF m
<1>4. CASE outcome.data = m
  BY <1>1, <1>3, <1>4 DEF LiveAtEnd, Live
<1>5. ASSUME NEW e, outcome.data = Put(m, k, e),
             k \notin DOMAIN m => e.expires_at_ms = 0 /\ e.value = Afresh(cmd, arg)
      PROVE  ~LiveAtStart(k) => /\ data'[k].expires_at_ms = 0
                                /\ data'[k].value = Afresh(cmd, arg)
  <2>1. data'[k] = e
    BY <1>1, <1>5 DEF Put
  <2> QED
    BY <1>3, <1>5, <2>1
<1> QED
  BY <1>1, <1>4, <1>5 DEF m

LEMMA FreshUpdate ==
  ASSUME Inv, NEW cmd, NEW k \in Keys, NEW arg, NEW t \in Now, NEW outcome,
         Command(cmd, {k}, arg, t, outcome), NEW type, NEW value,
         LET m == FindLiveMut(data, k, t)
         IN  /\ outcome.data = m \/ outcome.data = Update(m, k, type, value)
             /\ k \notin DOMAIN m => value = Afresh(cmd, arg)
  PROVE  \A j \in last'.keys : ~LiveAtStart(j) /\ LiveAtEnd(j) =>
           /\ data'[j].expires_at_ms = 0
           /\ data'[j].value = Afresh(last'.cmd, last'.arg)
<1> DEFINE m == FindLiveMut(data, k, t)
           e == Entry(type, value, IF k \in DOMAIN m THEN m[k].expires_at_ms ELSE 0)
<1>1. Update(m, k, type, value) = Put(m, k, e)
  BY DEF Update
<1>2. e.value = value /\ (k \notin DOMAIN m => e.expires_at_ms = 0)
  BY DEF Entry
<1> HIDE DEF e, m
<1>3. \/ outcome.data = m
      \/ \E x : /\ outcome.data = Put(m, k, x)
                /\ k \notin DOMAIN m => x.expires_at_ms = 0 /\ x.value = Afresh(cmd, arg)
  BY <1>1, <1>2 DEF m
<1> QED
  BY <1>3, FreshWrite DEF m

LEMMA BuiltAfresh ==
  ASSUME Inv, Next, last'.cmd \in Building
  PROVE  \A k \in last'.keys : ~LiveAtStart(k) /\ LiveAtEnd(k) =>
           /\ data'[k].expires_at_ms = 0
           /\ data'[k].value = Afresh(last'.cmd, last'.arg)
<1> DEFINE Made == \A k \in last'.keys : ~LiveAtStart(k) /\ LiveAtEnd(k) =>
                     /\ data'[k].expires_at_ms = 0
                     /\ data'[k].value = Afresh(last'.cmd, last'.arg)
<1>1. CASE Count
  <2>1. PICK cmd \in Counting, k \in Keys, arg \in I64 \cup {1}, t \in Now :
          Command(cmd, {k}, arg, t, AddTo(data, k, Added(cmd, arg), t))
    BY <1>1 DEF Count
  <2> DEFINE m == FindLiveMut(data, k, t)
             n == Added(cmd, arg)
             current == IF k \in DOMAIN m THEN ParseI64(m[k].value) ELSE 0
             out == AddTo(data, k, n, t)
  <2>2. out.data = m \/ out.data = Update(m, k, "string", TextOf(current + n))
    BY DEF AddTo, Returns
  <2>3. n \in Int
    BY <2>1, I64Type DEF Added
  <2>4. k \notin DOMAIN m => current + n = n
    BY <2>3
  <2>5. Afresh(cmd, arg) = TextOf(n)
    BY <2>1 DEF Afresh, Counting, Added
  <2> HIDE DEF out, current, n, m
  <2> QED
    BY <2>1, <2>2, <2>4, <2>5, FreshUpdate DEF out, n, m
<1>2. CASE HandleAppend
  <2>1. PICK k \in Keys, v \in Values, t \in Now :
          Command("APPEND", {k}, v, t, AppendTo(data, k, v, t))
    BY <1>2 DEF HandleAppend
  <2> DEFINE m == FindLiveMut(data, k, t)
             value == Concat(ValueAt(m, k, Empty), v)
             out == AppendTo(data, k, v, t)
  <2>2. out.data = m \/ out.data = Update(m, k, "string", value)
    BY DEF AppendTo, Returns
  <2>3. k \notin DOMAIN m => value = v
    BY ValuesType, StringsAssumption DEF StringsAssumption, ValueAt
  <2>4. Afresh("APPEND", v) = v
    BY DEF Afresh
  <2> HIDE DEF out, value, m
  <2> QED
    BY <2>1, <2>2, <2>3, <2>4, FreshUpdate DEF out, m
<1>3. CASE HandleGetset
  <2>1. PICK k \in Keys, v \in Values, t \in Now :
          Command("GETSET", {k}, v, t, Getset(data, k, v, t))
    BY <1>3 DEF HandleGetset
  <2> DEFINE m == FindLiveMut(data, k, t)
             e == Entry("string", v, 0)
             out == Getset(data, k, v, t)
  <2>2. out.data = m \/ out.data = Put(m, k, e)
    BY DEF Getset, Returns
  <2>3. e.expires_at_ms = 0 /\ e.value = v
    BY DEF Entry
  <2>4. Afresh("GETSET", v) = v
    BY DEF Afresh
  <2> HIDE DEF out, e, m
  <2>5. \/ out.data = m
        \/ \E x : /\ out.data = Put(m, k, x)
                  /\ k \notin DOMAIN m =>
                       x.expires_at_ms = 0 /\ x.value = Afresh("GETSET", v)
    BY <2>2, <2>3, <2>4
  <2> QED
    BY <2>1, <2>5, FreshWrite DEF out, m
<1>4. ASSUME NEW cmd, NEW k \in Keys, NEW vs, NEW t \in Now,
             NEW front \in Seq(Str), NEW back \in Seq(Str),
             Command(cmd, {k}, vs, t, PushInto(data, k, front, back, t)),
             front \o back = Afresh(cmd, vs)
      PROVE  Made
  <2> DEFINE m == FindLiveMut(data, k, t)
             list == front \o ValueAt(m, k, <<>>) \o back
             out == PushInto(data, k, front, back, t)
  <2>1. out.data = m \/ out.data = Update(m, k, "list", list)
    BY DEF PushInto, Returns
  <2>2. k \notin DOMAIN m => list = front \o back
    BY DEF ValueAt
  <2> HIDE DEF out, list, m
  <2> QED
    BY <1>4, <2>1, <2>2, FreshUpdate DEF out, m
<1>5. \A vs \in Lists1(Values) : vs \in Seq(Str)
  BY Lists1Type, ValuesType
<1>6. CASE HandleLpush
  <2>1. PICK k \in Keys, vs \in Lists1(Values), t \in Now :
          Command("LPUSH", {k}, vs, t, PushInto(data, k, Reverse(vs), <<>>, t))
    BY <1>6 DEF HandleLpush, Lpush
  <2>2. vs \in Seq(Str)
    BY <1>5, <2>1
  <2>3. Reverse(vs) \in Seq(Str) /\ <<>> \in Seq(Str)
    BY <2>2 DEF Reverse
  <2>4. Reverse(vs) \o <<>> = Afresh("LPUSH", vs)
    BY <2>3 DEF Afresh
  <2> QED
    BY <1>4, <2>1, <2>3, <2>4
<1>7. CASE HandleRpush
  <2>1. PICK k \in Keys, vs \in Lists1(Values), t \in Now :
          Command("RPUSH", {k}, vs, t, PushInto(data, k, <<>>, vs, t))
    BY <1>7 DEF HandleRpush, Rpush
  <2>2. vs \in Seq(Str) /\ <<>> \in Seq(Str)
    BY <1>5, <2>1
  <2>3. <<>> \o vs = Afresh("RPUSH", vs)
    BY <2>2 DEF Afresh
  <2> QED
    BY <1>4, <2>1, <2>2, <2>3
<1>8. CASE HandleHset
  <2>1. PICK k \in Keys, pairs \in Lists1(Values \X Values), t \in Now :
          Command("HSET", {k}, pairs, t, Hset(data, k, pairs, t))
    BY <1>8 DEF HandleHset
  <2> DEFINE m == FindLiveMut(data, k, t)
             hash == Assign(ValueAt(m, k, EmptyMap), pairs)
             out == Hset(data, k, pairs, t)
  <2>2. out.data = m \/ out.data = Update(m, k, "hash", hash)
    BY DEF Hset, Returns
  <2>3. k \notin DOMAIN m => hash = Afresh("HSET", pairs)
    BY DEF ValueAt, Afresh
  <2> HIDE DEF out, hash, m
  <2> QED
    BY <2>1, <2>2, <2>3, FreshUpdate DEF out, m
<1>9. CASE HandleSadd
  <2>1. PICK k \in Keys, vs \in Lists1(Values), t \in Now :
          Command("SADD", {k}, vs, t, Sadd(data, k, vs, t))
    BY <1>9 DEF HandleSadd
  <2> DEFINE m == FindLiveMut(data, k, t)
             set == ValueAt(m, k, {}) \cup ToSet(vs)
             out == Sadd(data, k, vs, t)
  <2>2. out.data = m \/ out.data = Update(m, k, "set", set)
    BY DEF Sadd, Returns
  <2>3. k \notin DOMAIN m => set = Afresh("SADD", vs)
    BY DEF ValueAt, Afresh
  <2> HIDE DEF out, set, m
  <2> QED
    BY <2>1, <2>2, <2>3, FreshUpdate DEF out, m
<1> QED
  BY <1>1, <1>2, <1>3, <1>6, <1>7, <1>8, <1>9, BuildingSteps

LEMMA TtlSteps ==
  ASSUME Next, last'.cmd \in {"TTL", "PTTL"}
  PROVE  HandleTtl \/ HandlePttl
<1>1. KeyspaceNext => HandleTtl \/ HandlePttl
  BY DEF KeyspaceNext, Command, HandleDel, HandleExists, HandleExpire, HandlePexpire,
     HandlePersist, HandleType, HandleRename, HandleDbsize, HandleKeys, HandleFlushdb,
     HandleRejected, Sweep
<1>2. ~StringsNext
  BY DEF StringsNext, Command, HandleSet, HandleGet, HandleStrlen, HandleIncr, HandleDecr,
     HandleIncrby, HandleDecrby, HandleAppend, HandleGetset, HandleMset, HandleMget
<1>3. ~ListsNext
  BY DEF ListsNext, Command, HandleLpush, HandleRpush, HandleLpop, HandleRpop, HandleLrange,
     HandleLlen, HandleLindex
<1>4. ~HashesNext
  BY DEF HashesNext, Command, HandleHset, HandleHget, HandleHdel, HandleHgetall,
     HandleHexists, HandleHlen, HandleHkeys, HandleHvals
<1>5. ~SetsNext
  <2>1. ASSUME NEW cmd, SetOperation(cmd)
        PROVE  last'.cmd = cmd
    <3>1. PICK ks, t, r : Command(cmd, ToSet(ks), ks, t, Returns(data, r))
      BY <2>1, Zenon DEF SetOperation
    <3> QED
      BY <3>1 DEF Command
  <2> QED
    BY <2>1 DEF SetsNext, Command, HandleSadd, HandleSrem, HandleSmembers, HandleSismember,
       HandleScard, HandleSunion, HandleSinter
<1> QED
  BY <1>1, <1>2, <1>3, <1>4, <1>5 DEF Next

\* What PTTL finds.
LEMMA PttlFacts ==
  ASSUME Inv, NEW k \in Keys, NEW t1 \in Now, NEW t2 \in Now, t1 <= t2
  PROVE  \/ Pttl(data, k, t1, t2) = -2 /\ ~Live(data, k, t2)
         \/ Pttl(data, k, t1, t2) = -1 /\ Live(data, k, clock) /\ data[k].expires_at_ms = 0
         \/ /\ Live(data, k, t2) /\ data[k].expires_at_ms # 0
            /\ Pttl(data, k, t1, t2) = AsI64(data[k].expires_at_ms - t2)
            /\ Pttl(data, k, t1, t2) \in I64
<1>1. /\ clock \in Nat /\ t1 \in Nat /\ t2 \in Nat /\ clock <= t1
      /\ I64Max \in Nat
  BY NowFacts, KeyspaceAssumption DEF KeyspaceAssumption
<1>2. Live(data, k, t2) => Live(data, k, t1)
  BY <1>1, LiveBefore DEF Inv
<1>3. Live(data, k, t1) => Live(data, k, clock)
  BY <1>1, LiveBefore DEF Inv
<1>4. CASE ~Live(data, k, t1)
  BY <1>2, <1>4 DEF Pttl
<1>5. CASE Live(data, k, t1)
  <2>1. k \in DOMAIN data /\ data[k].expires_at_ms \in Nat
    BY <1>5 DEF Inv, Good, IsKeyspace, IsEntry, Live, U64
  <2>2. PICK deadline \in Nat : deadline = data[k].expires_at_ms
    BY <2>1
  <2>3. CASE deadline = 0
    BY <1>3, <1>5, <2>2, <2>3 DEF Pttl
  <2>4. CASE deadline # 0 /\ deadline <= t2
    BY <1>5, <2>2, <2>4 DEF Pttl, Live, IsExpired
  <2>5. CASE deadline # 0 /\ ~(deadline <= t2)
    <3>1. deadline \in U64
      BY <1>5, <2>2 DEF Inv, Good, IsKeyspace, IsEntry, Live
    <3>2. deadline - t2 \in U64
      BY <1>1, <2>5, <3>1 DEF U64
    <3>3. AsI64(deadline - t2) \in I64
      BY <1>1, <3>2 DEF AsI64, U64, I64
    <3>4. Live(data, k, t2)
      BY <1>1, <2>1, <2>2, <2>5 DEF Live, IsExpired
    <3> QED
      BY <1>5, <2>2, <2>5, <3>3, <3>4 DEF Pttl
  <2> QED
    BY <2>3, <2>4, <2>5
<1> QED
  BY <1>4, <1>5

\* TTL rounds a positive remainder up, unless the sum overflows and is wrapped.
LEMMA TtlFacts ==
  ASSUME NEW r \in I64, NEW n \in Ttl(r)
  PROVE  /\ r <= 0 => n = r
         /\ r > 0 => \/ r <= n * MsPerSecond /\ n * MsPerSecond < r + MsPerSecond
                     \/ r + MsPerSecond - 1 > I64Max /\ n <= 0
<1> DEFINE sum == r + MsPerSecond - 1
           Quotient(x) == IF x >= 0 THEN x \div MsPerSecond ELSE -((-x) \div MsPerSecond)
<1>1. I64Max \in Nat /\ MsPerSecond \in 1..I64Max
  BY KeyspaceAssumption DEF KeyspaceAssumption
<1>2. CASE r <= 0
  BY <1>2 DEF Ttl, I64
<1>3. CASE r > 0
  <2>1. sum \in Nat /\ sum >= MsPerSecond /\ sum <= 2 * I64Max
    BY <1>1, <1>3 DEF I64
  <2>2. n \in {Quotient(x) : x \in {sum, AsI64(Wrap(sum))}}
    <3>1. ~(r <= 0)
      BY <1>1, <1>3 DEF I64
    <3> QED
      BY <3>1 DEF Ttl
  <2>3. CASE n = Quotient(sum)
    <3>1. PICK m \in Nat : m = MsPerSecond /\ m > 0
      BY <1>1
    <3>2. n = sum \div m /\ n \in Nat
      BY <2>1, <2>3, <3>1
    <3>3. sum = m * (sum \div m) + (sum % m) /\ (sum % m) \in 0..(m - 1)
      BY <2>1, <3>1
    <3>4. m * n <= sum /\ sum < m * n + m
      <4>1. PICK rest \in 0..(m - 1) : rest = sum % m
        BY <3>3
      <4>2. sum = m * n + rest
        BY <3>2, <3>3, <4>1
      <4>3. m * n \in Int
        BY <3>1, <3>2
      <4> QED
        BY <3>1, <4>1, <4>2, <4>3
    <3>5. m * n \in Nat /\ n * m = m * n
      BY <3>1, <3>2
    <3> QED
      BY <1>3, <3>1, <3>4, <3>5 DEF I64
  <2>4. CASE n = Quotient(AsI64(Wrap(sum))) /\ n # Quotient(sum)
    <3>1. Wrap(sum) = sum
      <4>1. sum % (2 * I64Max + 2) = sum
        BY <1>1, <2>1
      <4> QED
        BY <4>1 DEF Wrap
    <3>2. sum > I64Max
      BY <1>1, <2>1, <2>4, <3>1 DEF AsI64
    <3>3. PICK x \in Nat : x > 0 /\ AsI64(Wrap(sum)) = -x
      <4>1. (2 * I64Max + 2) - sum \in Nat /\ (2 * I64Max + 2) - sum > 0
        BY <1>1, <2>1
      <4>2. AsI64(Wrap(sum)) = -((2 * I64Max + 2) - sum)
        BY <1>1, <2>1, <3>1, <3>2 DEF AsI64
      <4> QED
        BY <4>1, <4>2
    <3>4. n = -(x \div MsPerSecond)
      BY <2>4, <3>3
    <3>5. x \div MsPerSecond \in Nat
      BY <1>1
    <3>6. n <= 0
      BY <3>4, <3>5
    <3>7. r + MsPerSecond - 1 > I64Max
      BY <3>2
    <3>8. ~(r <= 0)
      BY <1>1, <1>3 DEF I64
    <3> QED
      BY <3>6, <3>7, <3>8, Zenon
  <2> QED
    BY <1>3, <2>2, <2>3, <2>4
<1> QED
  BY <1>2, <1>3

LEMMA NoneRevived ==
  ASSUME Inv, Next, NEW k \in Keys, ~LiveAtStart(k), LiveAtEnd(k)
  PROVE  last'.cmd \in Creating /\ k \in last'.keys
<1>1. StepRule
  BY EveryStepRule
<1>2. ~Spared(k)
  BY <1>1, LiveBefore DEF StepRule, Spared, LiveAtStart, LiveAtEnd, Live, Inv
<1>3. Written(k)
  BY <1>1, <1>2 DEF StepRule
<1> QED
  BY <1>3 DEF Written, LiveAtEnd, Live

-----------------------------------------------------------------------------
(* The theorems.                                                           *)

\* An expired key never comes back to life, although lookups that only read leave its
\* entry in data_: only a command that creates its key and names it makes it live.
THEOREM NoRevival == Spec => DeadStaysDead
<1>1. ASSUME Inv, [Next]_vars
      PROVE  [\A k \in Keys : ~LiveAtStart(k) /\ LiveAtEnd(k) =>
                last'.cmd \in Creating /\ k \in last'.keys]_vars
  BY <1>1, NoneRevived
<1> QED
  BY <1>1, InvAlways, PTL DEF Spec, DeadStaysDead

\* A live entry changes or disappears only under a command that is_write_command lists
\* and that names its key, or under FLUSHDB.
THEOREM NoLiveEntryLost == Spec => LiveEntriesSafe
<1>1. ASSUME Inv, [Next]_vars
      PROVE  [\A k \in Keys : Outlives(k) /\ (k \in DOMAIN data' => data'[k] # data[k]) =>
                /\ last'.cmd \in WriteCommands
                /\ k \in last'.keys \/ last'.cmd = "FLUSHDB"]_vars
  <2>1. SUFFICES ASSUME Next, NEW k \in Keys, Outlives(k),
                        k \in DOMAIN data' => data'[k] # data[k]
                 PROVE  /\ last'.cmd \in WriteCommands
                        /\ k \in last'.keys \/ last'.cmd = "FLUSHDB"
    BY <1>1
  <2>2. Spared(k) \/ Written(k)
    BY <1>1, <2>1, EveryStepRule DEF StepRule
  <2> QED
    BY <2>1, <2>2 DEF Spared, Written
<1> QED
  BY <1>1, InvAlways, PTL DEF Spec, LiveEntriesSafe

\* A command that answers with an error has changed no live entry and made none live.
THEOREM ErrorsLeaveNoTrace == Spec => ErrorsChangeNothing
<1>1. ASSUME Inv, [Next]_vars
      PROVE  [Replied("err") => \A k \in Keys :
                /\ Outlives(k) => k \in DOMAIN data' /\ data'[k] = data[k]
                /\ LiveAtEnd(k) => Outlives(k)]_vars
  <2>1. SUFFICES ASSUME Next, Replied("err"), NEW k \in Keys
                 PROVE  /\ Outlives(k) => k \in DOMAIN data' /\ data'[k] = data[k]
                        /\ LiveAtEnd(k) => Outlives(k)
    BY <1>1
  <2>2. Spared(k)
    BY <1>1, <2>1, EveryStepRule DEF StepRule, Written
  <2> QED
    BY <2>2 DEF Spared, Outlives, LiveAtEnd, Live
<1> QED
  BY <1>1, InvAlways, PTL DEF Spec, ErrorsChangeNothing

\* Only the commands that set a deadline change the one of a live key, and only those
\* that replace a value change its type: updates in place keep both.
THEOREM UpdatesKeep == Spec => DeadlinesAndTypesKept
<1>1. ASSUME Inv, [Next]_vars
      PROVE  [\A k \in Keys : Outlives(k) /\ k \in DOMAIN data' =>
                /\ data'[k].expires_at_ms # data[k].expires_at_ms =>
                     last'.cmd \in {"SET", "GETSET", "MSET", "EXPIRE", "PEXPIRE", "PERSIST",
                                    "RENAME"}
                /\ data'[k].type # data[k].type =>
                     last'.cmd \in {"SET", "MSET", "RENAME"}]_vars
  <2>1. SUFFICES ASSUME Next, NEW k \in Keys, Outlives(k), k \in DOMAIN data'
                 PROVE  /\ last'.cmd \in Redating
                             \/ data'[k].expires_at_ms = data[k].expires_at_ms
                        /\ last'.cmd \in Retyping \/ data'[k].type = data[k].type
    BY <1>1 DEF Redating, Retyping
  <2>2. Spared(k) \/ Written(k)
    BY <1>1, <2>1, EveryStepRule DEF StepRule
  <2> QED
    BY <2>1, <2>2 DEF Spared, Written
<1> QED
  BY <1>1, InvAlways, PTL DEF Spec, DeadlinesAndTypesKept

\* A command that creates its key over an expired entry, which may still be in data_,
\* inherits neither its deadline nor any part of its value.
THEOREM FreshStart == Spec => NothingInherited
<1>1. ASSUME Inv, [Next]_vars
      PROVE  [\A k \in Keys : ~LiveAtStart(k) /\ LiveAtEnd(k) /\
                              last'.cmd \in Creating \ {"SET", "MSET", "RENAME"} =>
                data'[k].expires_at_ms = 0 /\
                data'[k].value = Afresh(last'.cmd, last'.arg)]_vars
  <2>1. SUFFICES ASSUME Next, NEW k \in Keys, ~LiveAtStart(k), LiveAtEnd(k),
                        last'.cmd \in Building
                 PROVE  /\ data'[k].expires_at_ms = 0
                        /\ data'[k].value = Afresh(last'.cmd, last'.arg)
    BY <1>1 DEF Building
  <2>2. k \in last'.keys
    BY <1>1, <2>1, NoneRevived
  <2> QED
    BY <1>1, <2>1, <2>2, BuiltAfresh
<1> QED
  BY <1>1, InvAlways, PTL DEF Spec, NothingInherited

\* INCR, INCRBY, DECR and DECRBY store exactly the sum that they answer, and fail only
\* if there is none: no std::int64_t overflows.
THEOREM ExactCounters == Spec => CountersExact
<1>1. ASSUME Inv, [Next]_vars
      PROVE  [last'.cmd \in {"INCR", "INCRBY", "DECR", "DECRBY"} => \A k \in last'.keys :
                /\ Replied("int") =>
                     /\ last'.reply.n \in I64
                     /\ ParseI64(data'[k].value) = last'.reply.n
                     /\ Outlives(k) => last'.reply.n = ParseI64(data[k].value) + Delta
                /\ last'.reply = Err("integer") /\ Outlives(k) =>
                     ParseI64(data[k].value) = NaN \/ ParseI64(data[k].value) + Delta \notin I64]_vars
  <2>1. SUFFICES ASSUME Next, last'.cmd \in Counting, NEW k \in last'.keys
                 PROVE  /\ Replied("int") =>
                             /\ last'.reply.n \in I64
                             /\ ParseI64(data'[k].value) = last'.reply.n
                             /\ Outlives(k) => last'.reply.n = ParseI64(data[k].value) + Delta
                        /\ last'.reply = Err("integer") /\ Outlives(k) =>
                             ParseI64(data[k].value) = NaN
                               \/ ParseI64(data[k].value) + Delta \notin I64
    BY <1>1 DEF Counting
  <2>2. PICK cmd \in Counting, j \in Keys, arg \in I64 \cup {1}, t \in Now :
          Command(cmd, {j}, arg, t, AddTo(data, j, Added(cmd, arg), t))
    BY <2>1, CountingSteps DEF Count
  <2>3. k = j
    BY <2>1, <2>2 DEF Command
  <2> QED
    BY <1>1, <2>2, <2>3, CountFacts
<1> QED
  BY <1>1, InvAlways, PTL DEF Spec, CountersExact

\* SET NX overwrites no live value and SET XX creates none, also when the key expires
\* between the parsing of the options and the lookup, and the reply says which it was.
THEOREM SetKeepsConditions == Spec => SetConditionsHold
<1>1. ASSUME Inv, [Next]_vars
      PROVE  [last'.cmd = "SET" => \A k \in last'.keys :
                /\ last'.arg[3] = "NX" /\ Outlives(k) => data' = data /\ Replied("nil")
                /\ last'.arg[3] = "XX" /\ ~LiveAtStart(k) => data' = data /\ Replied("nil")
                /\ Replied("ok") => data'[k].value = last'.arg[1]]_vars
  <2>1. SUFFICES ASSUME Next, last'.cmd = "SET", NEW k \in last'.keys
                 PROVE  /\ last'.arg[3] = "NX" /\ Outlives(k) => data' = data /\ Replied("nil")
                        /\ last'.arg[3] = "XX" /\ ~LiveAtStart(k) =>
                             data' = data /\ Replied("nil")
                        /\ Replied("ok") => data'[k].value = last'.arg[1]
    BY <1>1
  <2>2. HandleSet
    BY <2>1, NamedSteps
  <2>3. PICK j \in Keys, v \in Values, expiry \in Expiries, cond \in {"always", "NX", "XX"},
             t1 \in Now, t2 \in Now :
          Command("SET", {j}, <<v, expiry, cond>>, t2,
                  IF Refused(cond, Live(data, j, t2)) THEN Returns(data, Nil)
                  ELSE Set(data, j, v, Deadline(expiry, t1)))
    BY <1>1, <2>2, NowType DEF HandleSet
  <2>4. k = j /\ last'.arg = <<v, expiry, cond>> /\ clock' = t2
    BY <2>1, <2>3 DEF Command
  <2>5. Refused(cond, Live(data, k, t2)) => data' = data /\ last'.reply = Nil
    BY <2>3, <2>4 DEF Command, Returns
  <2>6. ~Refused(cond, Live(data, k, t2)) =>
          /\ data' = Put(data, k, Entry("string", v, Deadline(expiry, t1)))
          /\ last'.reply = Ok
    BY <2>3, <2>4 DEF Command, Set, Returns
  <2>7. ~LiveAtStart(k) => ~Live(data, k, t2)
    BY <1>1, <2>3, NowFacts, LiveBefore DEF LiveAtStart, Inv
  <2>8. last'.arg[3] = "NX" /\ Outlives(k) => Refused(cond, Live(data, k, t2))
    BY <2>4 DEF Outlives, Refused
  <2>9. last'.arg[3] = "XX" /\ ~LiveAtStart(k) => Refused(cond, Live(data, k, t2))
    BY <2>4, <2>7 DEF Refused
  <2>10. Replied("ok") => data'[k].value = last'.arg[1]
    BY <2>4, <2>5, <2>6 DEF Replied, Nil, Put, Entry
  <2> QED
    BY <2>5, <2>8, <2>9, <2>10 DEF Replied, Nil
<1> QED
  BY <1>1, InvAlways, PTL DEF Spec, SetConditionsHold

\* RENAME moves the entry with its deadline, also onto its own name, and fails only if
\* the source is dead.
THEOREM RenameCorrect == Spec => RenameMoves
<1>1. ASSUME Inv, [Next]_vars
      PROVE  [last'.cmd = "RENAME" =>
                LET src == last'.arg[1]
                    dst == last'.arg[2]
                IN  IF Replied("ok")
                    THEN /\ dst \in DOMAIN data' /\ data'[dst] = data[src]
                         /\ src \in DOMAIN data' => src = dst
                    ELSE ~Outlives(src)]_vars
  <2>1. SUFFICES ASSUME Next, last'.cmd = "RENAME"
                 PROVE  LET src == last'.arg[1]
                            dst == last'.arg[2]
                        IN  IF Replied("ok")
                            THEN /\ dst \in DOMAIN data' /\ data'[dst] = data[src]
                                 /\ src \in DOMAIN data' => src = dst
                            ELSE ~Outlives(src)
    BY <1>1
  <2>2. HandleRename
    BY <2>1, NamedSteps
  <2>3. PICK src \in Keys, dst \in Keys, t \in Now :
          Command("RENAME", {src, dst}, <<src, dst>>, t, Rename(data, src, dst, t))
    BY <2>2 DEF HandleRename
  <2> DEFINE m == FindLiveMut(data, src, t)
  <2>4. /\ last'.arg = <<src, dst>> /\ clock' = t
        /\ data' = Rename(data, src, dst, t).data
        /\ last'.reply = Rename(data, src, dst, t).reply
    BY <2>3 DEF Command
  <2>5. /\ src \in DOMAIN m <=> Live(data, src, t)
        /\ src \in DOMAIN m => m[src] = data[src]
    BY FindLiveMutFacts
  <2>6. CASE src \notin DOMAIN m
    <3>1. ~Replied("ok")
      <4>1. last'.reply = Err("no such key")
        BY <2>4, <2>6 DEF Rename, Returns
      <4>2. PICK e : last'.reply = Err(e)
        BY <4>1, Zenon
      <4> QED
        BY <4>2 DEF Replied, Err
    <3> QED
      BY <2>4, <2>5, <2>6, <3>1 DEF Outlives
  <2>7. CASE src \in DOMAIN m
    <3>1. Replied("ok") /\ data' = Put(Erase(m, {src}), dst, m[src])
      BY <2>4, <2>7 DEF Rename, Returns, Replied, Ok
    <3> HIDE DEF m
    <3>2. dst \in DOMAIN data' /\ data'[dst] = data[src] /\ (src \in DOMAIN data' => src = dst)
      BY <2>5, <2>7, <3>1 DEF Put, Erase, Restrict
    <3> QED
      BY <2>4, <3>1, <3>2
  <2> QED
    BY <2>6, <2>7
<1> QED
  BY <1>1, InvAlways, PTL DEF Spec, RenameMoves

\* PTTL and TTL answer -2 only for a key that is dead when they end, -1 only for one
\* without deadline and else what was left at an instant at which the key lived, with the
\* wrapping and overflow at the ends of the range.
THEOREM TtlHonest == Spec => TtlRepliesHonest
<1>1. ASSUME Inv, [Next]_vars
      PROVE  [last'.cmd \in {"TTL", "PTTL"} => \A k \in last'.keys :
                \/ last'.reply.n = -2 /\ ~Outlives(k)
                \/ last'.reply.n = -1 /\ LiveAtStart(k) /\ data[k].expires_at_ms = 0
                \/ \E t \in clock..clock' :
                     /\ Live(data, k, t) /\ data[k].expires_at_ms # 0
                     /\ Tells(last'.reply.n, AsI64(data[k].expires_at_ms - t))]_vars
  <2>1. SUFFICES ASSUME Next, last'.cmd \in {"TTL", "PTTL"}, NEW k \in last'.keys
                 PROVE  \/ last'.reply.n = -2 /\ ~Outlives(k)
                        \/ last'.reply.n = -1 /\ LiveAtStart(k) /\ data[k].expires_at_ms = 0
                        \/ \E t \in clock..clock' :
                             /\ Live(data, k, t) /\ data[k].expires_at_ms # 0
                             /\ Tells(last'.reply.n, AsI64(data[k].expires_at_ms - t))
    BY <1>1
  <2>2. PICK j \in Keys, t1 \in Now, t2 \in Now :
          /\ t1 <= t2
          /\ \/ Command("PTTL", {j}, <<>>, t2, Returns(data, Number(Pttl(data, j, t1, t2))))
             \/ \E n \in Ttl(Pttl(data, j, t1, t2)) :
                  Command("TTL", {j}, <<>>, t2, Returns(data, Number(n)))
    BY <1>1, <2>1, TtlSteps, NowsOf DEF HandleTtl, HandlePttl
  <2>3. PICK r : r = Pttl(data, j, t1, t2)
    OBVIOUS
  <2>4. /\ k = j /\ clock' = t2
        /\ \/ last'.cmd = "PTTL" /\ last'.reply.n = r
           \/ last'.cmd = "TTL" /\ last'.reply.n \in Ttl(r)
    BY <2>1, <2>2, <2>3 DEF Command, Returns, Number
  <2>5. \/ r = -2 /\ ~Live(data, k, t2)
        \/ r = -1 /\ Live(data, k, clock) /\ data[k].expires_at_ms = 0
        \/ /\ Live(data, k, t2) /\ data[k].expires_at_ms # 0
           /\ r = AsI64(data[k].expires_at_ms - t2) /\ r \in I64
    BY <1>1, <2>2, <2>3, <2>4, PttlFacts
  <2>6. CASE \/ r = -2 /\ ~Live(data, k, t2)
             \/ r = -1 /\ Live(data, k, clock) /\ data[k].expires_at_ms = 0
    <3>1. last'.reply.n = r
      BY <2>4, <2>6 DEF Ttl
    <3> QED
      BY <2>4, <2>6, <3>1 DEF Outlives, LiveAtStart
  <2>7. CASE /\ Live(data, k, t2) /\ data[k].expires_at_ms # 0
             /\ r = AsI64(data[k].expires_at_ms - t2) /\ r \in I64
    <3>1. Tells(last'.reply.n, r)
      <4>1. CASE last'.cmd = "PTTL" /\ last'.reply.n = r
        BY <4>1 DEF Tells
      <4>2. CASE last'.cmd = "TTL" /\ last'.reply.n \in Ttl(r)
        <5>1. PICK n : n = last'.reply.n
          OBVIOUS
        <5>2. /\ r <= 0 => n = r
              /\ r > 0 => \/ r <= n * MsPerSecond /\ n * MsPerSecond < r + MsPerSecond
                          \/ r + MsPerSecond - 1 > I64Max /\ n <= 0
          BY <2>7, <4>2, <5>1, TtlFacts
        <5>3. r \in Int
          BY <2>7, KeyspaceAssumption DEF KeyspaceAssumption, I64
        <5>4. r <= 0 \/ r > 0
          BY <5>3
        <5> QED
          BY <4>2, <5>1, <5>2, <5>4 DEF Tells
      <4> QED
        BY <2>4, <4>1, <4>2
    <3>2. clock' \in clock..clock'
      BY <1>1, <2>4, NowFacts
    <3> QED
      BY <2>4, <2>7, <3>1, <3>2
  <2> QED
    BY <2>5, <2>6, <2>7
<1> QED
  BY <1>1, InvAlways, PTL DEF Spec, TtlRepliesHonest

-----------------------------------------------------------------------------
(* Commands that read the clock once per entry or argument.                *)

KeyspaceNames ==
  {"DEL", "EXISTS", "EXPIRE", "PEXPIRE", "PERSIST", "PTTL", "TTL", "TYPE", "RENAME",
   "DBSIZE", "KEYS", "FLUSHDB", "rejected", "sweep"}
StringsNames ==
  {"SET", "GET", "STRLEN", "INCR", "DECR", "INCRBY", "DECRBY", "APPEND", "GETSET",
   "MSET", "MGET"}
ListsNames == {"LPUSH", "RPUSH", "LPOP", "RPOP", "LRANGE", "LLEN", "LINDEX"}
HashesNames ==
  {"HSET", "HGET", "HDEL", "HGETALL", "HEXISTS", "HLEN", "HKEYS", "HVALS"}
SetsNames ==
  {"SADD", "SREM", "SMEMBERS", "SISMEMBER", "SCARD", "SUNION", "SINTER"}

\* The family of a step is told by the name of its command.
LEMMA FamilyNames ==
  /\ KeyspaceNext => last'.cmd \in KeyspaceNames
  /\ StringsNext => last'.cmd \in StringsNames
  /\ ListsNext => last'.cmd \in ListsNames
  /\ HashesNext => last'.cmd \in HashesNames
  /\ SetsNext => last'.cmd \in SetsNames
<1>1. KeyspaceNext => last'.cmd \in KeyspaceNames
  BY DEF KeyspaceNext, Command, HandleDel, HandleExists, HandleExpire, HandlePexpire,
     HandlePersist, HandlePttl, HandleTtl, HandleType, HandleRename, HandleDbsize,
     HandleKeys, HandleFlushdb, HandleRejected, Sweep, KeyspaceNames
<1>2. StringsNext => last'.cmd \in StringsNames
  BY DEF StringsNext, Command, HandleSet, HandleGet, HandleStrlen, HandleIncr, HandleDecr,
     HandleIncrby, HandleDecrby, HandleAppend, HandleGetset, HandleMset, HandleMget,
     StringsNames
<1>3. ListsNext => last'.cmd \in ListsNames
  BY DEF ListsNext, Command, HandleLpush, HandleRpush, HandleLpop, HandleRpop, HandleLrange,
     HandleLlen, HandleLindex, ListsNames
<1>4. HashesNext => last'.cmd \in HashesNames
  BY DEF HashesNext, Command, HandleHset, HandleHget, HandleHdel, HandleHgetall,
     HandleHexists, HandleHlen, HandleHkeys, HandleHvals, HashesNames
<1>5. SetsNext => last'.cmd \in SetsNames
  <2>1. ASSUME NEW cmd, SetOperation(cmd)
        PROVE  last'.cmd = cmd
    <3>1. PICK ks, t, r : Command(cmd, ToSet(ks), ks, t, Returns(data, r))
      BY <2>1, Zenon DEF SetOperation
    <3> QED
      BY <3>1 DEF Command
  <2> QED
    BY <2>1 DEF SetsNext, Command, HandleSadd, HandleSrem, HandleSmembers, HandleSismember,
       HandleScard, HandleSunion, HandleSinter, SetsNames
<1> QED
  BY <1>1, <1>2, <1>3, <1>4, <1>5

\* The steps that look at many keys.
LEMMA ScanSteps ==
  ASSUME Next
  PROVE  /\ last'.cmd = "DEL" => HandleDel
         /\ last'.cmd = "EXISTS" => HandleExists
         /\ last'.cmd = "DBSIZE" => HandleDbsize
         /\ last'.cmd = "KEYS" => HandleKeys
         /\ last'.cmd = "sweep" => Sweep
<1> DEFINE Scanning == {"DEL", "EXISTS", "DBSIZE", "KEYS", "sweep"}
<1>1. last'.cmd \in Scanning => KeyspaceNext
  BY FamilyNames DEF Next, StringsNames, ListsNames, HashesNames, SetsNames
<1>2. last'.cmd \in Scanning =>
        HandleDel \/ HandleExists \/ HandleDbsize \/ HandleKeys \/ Sweep
  BY <1>1 DEF KeyspaceNext, Command, HandleExpire, HandlePexpire, HandlePersist, HandlePttl,
     HandleTtl, HandleType, HandleRename, HandleFlushdb, HandleRejected
<1> QED
  BY <1>2 DEF Command, HandleDel, HandleExists, HandleDbsize, HandleKeys, Sweep

\* A reading lies between the beginning and the end of its command.
LEMMA ReadingFacts ==
  ASSUME Inv, NEW I, NEW ts \in Readings(I), NEW t \in After(ts), NEW i \in I, NEW k
  PROVE  /\ Live(data, k, t) => Live(data, k, ts[i])
         /\ Live(data, k, ts[i]) => Live(data, k, clock)
<1>1. ts \in [I -> Now] /\ t \in Now /\ ts[i] <= t
  BY DEF Readings, After
<1>2. ts[i] \in Nat /\ t \in Nat /\ clock \in Nat /\ clock <= ts[i]
  BY <1>1, NowFacts
<1> QED
  BY <1>1, <1>2, LiveBefore DEF Inv

LEMMA LiveFinite ==
  ASSUME Inv, NEW S, NEW t
  PROVE  IsFiniteSet({k \in S : Live(data, k, t)})
<1>1. {k \in S : Live(data, k, t)} \in SUBSET DOMAIN data
  BY DEF Live
<1>2. IsFiniteSet(DOMAIN data)
  BY DEF Inv, Good, IsKeyspace
<1> QED
  BY <1>1, <1>2, FS_Subset

LEMMA CountsOrdered ==
  ASSUME NEW lower, NEW counted, NEW upper, IsFiniteSet(upper),
         lower \subseteq counted, counted \subseteq upper
  PROVE  Cardinality(lower) <= Cardinality(counted)
         /\ Cardinality(counted) <= Cardinality(upper)
<1>1. counted \in SUBSET upper /\ lower \in SUBSET counted
  OBVIOUS
<1>2. IsFiniteSet(counted) /\ Cardinality(counted) <= Cardinality(upper)
  BY <1>1, FS_Subset
<1> QED
  BY <1>1, <1>2, FS_Subset

LEMMA DbsizeBracketed ==
  ASSUME Inv, HandleDbsize
  PROVE  Between(last'.reply.n, Keys, Outlives, LiveAtStart)
<1>1. PICK ts \in Readings(DOMAIN data) : \E t \in After(ts) :
             Command("DBSIZE", {}, <<>>, t, Dbsize(data, ts))
  BY DEF HandleDbsize
<1>2. PICK t \in After(ts) : Command("DBSIZE", {}, <<>>, t, Dbsize(data, ts))
  BY <1>1
<1> DEFINE counted == {k \in DOMAIN data : Live(data, k, ts[k])}
           lower == {k \in Keys : Outlives(k)}
           upper == {k \in Keys : LiveAtStart(k)}
<1>3. clock' = t /\ last'.reply.n = Cardinality(counted)
  BY <1>2 DEF Command, Dbsize, Returns, Number
<1>4. DOMAIN data \subseteq Keys
  BY DEF Inv, Good, IsKeyspace
<1>5. lower \subseteq counted
  <2>1. \A k \in lower : k \in DOMAIN data /\ Live(data, k, t)
    BY <1>3 DEF Outlives, Live
  <2> QED
    BY <2>1, ReadingFacts
<1>6. counted \subseteq upper
  BY <1>4, ReadingFacts DEF LiveAtStart
<1>7. IsFiniteSet(upper)
  BY LiveFinite DEF LiveAtStart
<1> HIDE DEF counted
<1>8. Cardinality(lower) <= Cardinality(counted) /\ Cardinality(counted) <= Cardinality(upper)
  BY <1>5, <1>6, <1>7, CountsOrdered
<1> QED
  BY <1>3, <1>8 DEF Between

LEMMA KeysBracketed ==
  ASSUME Inv, HandleKeys
  PROVE  /\ {k \in last'.arg : Outlives(k)} \subseteq last'.reply.a
         /\ last'.reply.a \subseteq {k \in last'.arg : LiveAtStart(k)}
<1>1. PICK matching \in SUBSET Keys : \E ts \in Readings(DOMAIN data) : \E t \in After(ts) :
             Command("KEYS", {}, matching, t, KeysOp(data, matching, ts))
  BY DEF HandleKeys
<1>2. PICK ts \in Readings(DOMAIN data) : \E t \in After(ts) :
             Command("KEYS", {}, matching, t, KeysOp(data, matching, ts))
  BY <1>1
<1>3. PICK t \in After(ts) : Command("KEYS", {}, matching, t, KeysOp(data, matching, ts))
  BY <1>2
<1>4. /\ clock' = t /\ last'.arg = matching
      /\ last'.reply.a = {k \in matching \cap DOMAIN data : Live(data, k, ts[k])}
  BY <1>3 DEF Command, KeysOp, Returns, Items
<1>5. \A k \in DOMAIN data : /\ Live(data, k, t) => Live(data, k, ts[k])
                            /\ Live(data, k, ts[k]) => Live(data, k, clock)
  BY ReadingFacts
<1>6. /\ {k \in matching : Outlives(k)} \subseteq last'.reply.a
      /\ last'.reply.a \subseteq {k \in matching : LiveAtStart(k)}
  <2>1. ASSUME NEW k \in matching, Outlives(k)
        PROVE  k \in last'.reply.a
    <3>1. k \in DOMAIN data /\ Live(data, k, t)
      BY <1>4, <2>1 DEF Outlives, Live
    <3>2. Live(data, k, ts[k])
      BY <3>1, ReadingFacts
    <3> QED
      BY <1>4, <3>1, <3>2
  <2>2. ASSUME NEW k \in last'.reply.a
        PROVE  k \in matching /\ LiveAtStart(k)
    BY <1>4, <1>5, <2>2 DEF LiveAtStart
  <2> QED
    BY <2>1, <2>2
<1> QED
  BY <1>4, <1>6

LEMMA ExistsBracketed ==
  ASSUME Inv, HandleExists
  PROVE  Between(last'.reply.n, DOMAIN last'.arg, LAMBDA i : Outlives(last'.arg[i]),
                 LAMBDA i : LiveAtStart(last'.arg[i]))
<1>1. PICK ks \in Lists1(Keys) : \E ts \in Readings(DOMAIN ks) : \E t \in After(ts) :
             Command("EXISTS", ToSet(ks), ks, t, Exists(data, ks, ts))
  BY DEF HandleExists
<1>2. PICK ts \in Readings(DOMAIN ks) : \E t \in After(ts) :
             Command("EXISTS", ToSet(ks), ks, t, Exists(data, ks, ts))
  BY <1>1
<1>3. PICK t \in After(ts) : Command("EXISTS", ToSet(ks), ks, t, Exists(data, ks, ts))
  BY <1>2
<1> DEFINE counted == {i \in DOMAIN ks : Live(data, ks[i], ts[i])}
           lower == {i \in DOMAIN ks : Live(data, ks[i], t)}
           upper == {i \in DOMAIN ks : Live(data, ks[i], clock)}
<1>4. clock' = t /\ last'.arg = ks /\ last'.reply.n = Cardinality(counted)
  BY <1>3 DEF Command, Exists, Returns, Number
<1>5. lower \subseteq counted /\ counted \subseteq upper
  BY ReadingFacts
<1>6. IsFiniteSet(upper)
  <2>1. DOMAIN ks = 1..Len(ks) /\ Len(ks) \in Nat
    BY Lists1Type
  <2>2. upper \in SUBSET (1..Len(ks))
    BY <2>1
  <2>3. IsFiniteSet(1..Len(ks))
    BY <2>1, FS_Interval
  <2> QED
    BY <2>2, <2>3, FS_Subset
<1> HIDE DEF counted, lower, upper
<1>7. Cardinality(lower) <= Cardinality(counted) /\ Cardinality(counted) <= Cardinality(upper)
  BY <1>5, <1>6, CountsOrdered
<1>8. /\ lower = {i \in DOMAIN last'.arg : Outlives(last'.arg[i])}
      /\ upper = {i \in DOMAIN last'.arg : LiveAtStart(last'.arg[i])}
  BY <1>4 DEF lower, upper, Outlives, LiveAtStart
<1> QED
  BY <1>4, <1>7, <1>8 DEF Between

LEMMA LeastExists ==
  ASSUME NEW n \in Nat, NEW S, S \subseteq 1..n, S # {}
  PROVE  \E i \in S : \A j \in S : i <= j
<1>1. S \subseteq Nat
  OBVIOUS
<1>2. PICK x \in S : \A y \in S : ~ (<<y, x>> \in OpToRel(<, Nat))
  BY <1>1, NatLessThanWellFounded, WFMin
<1>3. \A y \in S : ~(y < x)
  BY <1>1, <1>2 DEF OpToRel
<1> QED
  BY <1>1, <1>3

\* DEL counts each key once, at its first mention.
LEMMA DelBracketed ==
  ASSUME Inv, HandleDel
  PROVE  Between(last'.reply.n, last'.keys, Outlives, LiveAtStart)
<1>1. PICK ks \in Lists1(Keys) : \E ts \in Readings(DOMAIN ks) : \E t \in After(ts) :
             Command("DEL", ToSet(ks), ks, t, Del(data, ks, ts))
  BY DEF HandleDel
<1>2. PICK ts \in Readings(DOMAIN ks) : \E t \in After(ts) :
             Command("DEL", ToSet(ks), ks, t, Del(data, ks, ts))
  BY <1>1
<1>3. PICK t \in After(ts) : Command("DEL", ToSet(ks), ks, t, Del(data, ks, ts))
  BY <1>2
<1> DEFINE counted == {i \in DOMAIN ks : /\ Live(data, ks[i], ts[i])
                                         /\ \A j \in 1..(i - 1) : ks[j] # ks[i]}
           lower == {k \in ToSet(ks) : Live(data, k, t)}
           upper == {k \in ToSet(ks) : Live(data, k, clock)}
           named == {ks[i] : i \in counted}
           f == [i \in counted |-> ks[i]]
<1>4. clock' = t /\ last'.keys = ToSet(ks) /\ last'.reply.n = Cardinality(counted)
  BY <1>3 DEF Command, Del, Returns, Number
<1>5. DOMAIN ks = 1..Len(ks) /\ Len(ks) \in Nat
  BY Lists1Type
<1>6. IsFiniteSet(counted)
  <2>1. counted \in SUBSET (1..Len(ks))
    BY <1>5
  <2>2. IsFiniteSet(1..Len(ks))
    BY <1>5, FS_Interval
  <2> QED
    BY <2>1, <2>2, FS_Subset
<1>7. f \in Injection(counted, named)
  <2>1. f \in [counted -> named] /\ \A i \in counted : f[i] = ks[i]
    OBVIOUS
  <2>2. ASSUME NEW i \in counted, NEW j \in counted, ks[i] = ks[j]
        PROVE  i = j
    <3>1. i \in 1..Len(ks) /\ j \in 1..Len(ks)
      BY <1>5
    <3>2. ~(j \in 1..(i - 1)) /\ ~(i \in 1..(j - 1))
      BY <2>2
    <3> QED
      BY <1>5, <3>1, <3>2
  <2> HIDE DEF f, counted, named
  <2> QED
    BY <2>1, <2>2 DEF Injection, IsInjective
<1>8. f \in Surjection(counted, named)
  BY DEF Surjection
<1>9. named \subseteq upper
  <2> SUFFICES ASSUME NEW i \in counted
               PROVE  ks[i] \in upper
    OBVIOUS
  <2>1. i \in DOMAIN ks /\ Live(data, ks[i], ts[i])
    OBVIOUS
  <2>2. Live(data, ks[i], clock)
    BY <2>1, ReadingFacts
  <2> QED
    BY <2>1, <2>2 DEF ToSet
<1>10. lower \subseteq named
  <2> SUFFICES ASSUME NEW k \in lower
               PROVE  k \in named
    OBVIOUS
  <2> DEFINE S == {i \in DOMAIN ks : ks[i] = k}
  <2>1. S \subseteq 1..Len(ks) /\ S # {}
    BY <1>5 DEF ToSet
  <2>2. PICK i \in S : \A j \in S : i <= j
    BY <1>5, <2>1, LeastExists
  <2>3. i \in 1..Len(ks) /\ ks[i] = k /\ Live(data, k, t)
    BY <2>1
  <2>4. Live(data, k, ts[i])
    BY <1>5, <2>3, ReadingFacts
  <2>5. ASSUME NEW j \in 1..(i - 1)
        PROVE  ks[j] # ks[i]
    <3>1. j \in DOMAIN ks /\ ~(i <= j)
      BY <1>5, <2>3
    <3> QED
      BY <2>2, <2>3, <3>1
  <2>6. i \in counted
    BY <1>5, <2>3, <2>4, <2>5
  <2> QED
    BY <2>3, <2>6
<1> HIDE DEF counted, named, lower, upper, f
<1>11. Cardinality(named) = Cardinality(counted)
  BY <1>6, <1>7, <1>8, FS_Surjection
<1>12. IsFiniteSet(upper)
  BY LiveFinite DEF upper
<1>13. Cardinality(lower) <= Cardinality(named) /\ Cardinality(named) <= Cardinality(upper)
  BY <1>9, <1>10, <1>12, CountsOrdered
<1>14. /\ lower = {k \in last'.keys : Outlives(k)}
       /\ upper = {k \in last'.keys : LiveAtStart(k)}
  BY <1>4 DEF lower, upper, Outlives, LiveAtStart
<1> QED
  BY <1>4, <1>11, <1>13, <1>14 DEF Between

LEMMA SweepVisitsAll ==
  ASSUME Inv, Sweep, NEW k \in DOMAIN data',
         ~(Cardinality({j \in DOMAIN data : j < k}) >= SweepLimit)
  PROVE  LiveAtStart(k)
<1>1. PICK ts \in Readings(DOMAIN data) : \E t \in After(ts) :
             Command("sweep", {}, <<>>, t, SweepExpired(data, ts))
  BY DEF Sweep
<1>2. PICK t \in After(ts) : Command("sweep", {}, <<>>, t, SweepExpired(data, ts))
  BY <1>1
<1> DEFINE before == {j \in DOMAIN data : j < k}
<1>3. /\ k \in DOMAIN data
      /\ ~(k \in Visited(data) /\ IsExpired(data[k], ts[k]))
  BY <1>2 DEF Command, SweepExpired, Returns, Erase, Restrict
<1>4. IsFiniteSet(DOMAIN data) /\ DOMAIN data \subseteq Nat
  BY KeyspaceAssumption DEF KeyspaceAssumption, Inv, Good, IsKeyspace
<1>5. before \in SUBSET DOMAIN data
  OBVIOUS
<1>6. Cardinality(before) \in Nat
  BY <1>4, <1>5, FS_Subset, FS_CardinalityType
<1>7. Cardinality(before) < SweepLimit
  BY <1>6, KeyspaceAssumption DEF KeyspaceAssumption
<1>8. k \in Visited(data)
  BY <1>3, <1>7 DEF Visited
<1>9. Live(data, k, ts[k])
  BY <1>3, <1>8 DEF Live
<1> QED
  BY <1>3, <1>9, ReadingFacts DEF LiveAtStart

\* The answers of EXISTS, DBSIZE, DEL and KEYS, which read the clock once per key, lie
\* between what is live when they end and what was live when they began.
THEOREM ScansHonest == Spec => ScansBracketed
<1>1. ASSUME Inv, [Next]_vars
      PROVE  [/\ last'.cmd = "DBSIZE" => Between(last'.reply.n, Keys, Outlives, LiveAtStart)
              /\ last'.cmd = "EXISTS" =>
                   Between(last'.reply.n, DOMAIN last'.arg,
                           LAMBDA i : Outlives(last'.arg[i]),
                           LAMBDA i : LiveAtStart(last'.arg[i]))
              /\ last'.cmd = "DEL" => Between(last'.reply.n, last'.keys, Outlives, LiveAtStart)
              /\ last'.cmd = "KEYS" =>
                   /\ {k \in last'.arg : Outlives(k)} \subseteq last'.reply.a
                   /\ last'.reply.a \subseteq {k \in last'.arg : LiveAtStart(k)}]_vars
  BY <1>1, ScanSteps, DbsizeBracketed, ExistsBracketed, DelBracketed, KeysBracketed
<1> QED
  BY <1>1, InvAlways, PTL DEF Spec, ScansBracketed

\* sweep_expired leaves no entry that was expired when it began but those that lie behind
\* as many others as it visits.
THEOREM SweepLeavesLive == Spec => SweepsComplete
<1>1. ASSUME Inv, [Next]_vars
      PROVE  [last'.cmd = "sweep" => \A k \in DOMAIN data' :
                LiveAtStart(k) \/ Cardinality({j \in DOMAIN data : j < k}) >= SweepLimit]_vars
  BY <1>1, ScanSteps, SweepVisitsAll
<1> QED
  BY <1>1, InvAlways, PTL DEF Spec, SweepsComplete

=============================================================================
