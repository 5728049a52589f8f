------------------------------- MODULE Hashes -------------------------------
(* The hash commands of redix::Store.  A hash is a function from fields.   *)
EXTENDS Strings

\* insert_or_assign of the <<field, value>> pairs in order.
Assign(hash, pairs) ==
  LET named == {pairs[i][1] : i \in DOMAIN pairs}
  IN  [f \in DOMAIN hash \cup named |-> IF f \in named THEN LastGiven(pairs, f) ELSE hash[f]]

\* Mutant of Hset: every pair counts as a new field.
HsetCountsPairs(d, k, pairs, t) ==
  LET m == FindLiveMut(d, k, t)
  IN  IF Conflict(m, k, "hash") THEN Returns(m, WrongType)
      ELSE Returns(Update(m, k, "hash", Assign(ValueAt(m, k, EmptyMap), pairs)),
                   Number(Len(pairs)))

\* Answers the number of new fields.
Hset(d, k, pairs, t) ==
  LET m == FindLiveMut(d, k, t)
      hash == ValueAt(m, k, EmptyMap)
      assigned == Assign(hash, pairs)
  IN  IF Conflict(m, k, "hash") THEN Returns(m, WrongType)
      ELSE Returns(Update(m, k, "hash", assigned),
                   Number(Cardinality(DOMAIN assigned \ DOMAIN hash)))

Hget(d, k, f, t) ==
  ReadAs("hash", d, k, t, Nil,
         IF f \in DOMAIN d[k].value THEN Bulk(d[k].value[f]) ELSE Nil)

\* Mutant of Hdel: the emptied hash stays.
HdelKeeps(d, k, fs, t) ==
  LET m == FindLiveMut(d, k, t)
      hash == ValueAt(m, k, EmptyMap)
  IN  IF k \notin DOMAIN m THEN Returns(m, Number(0))
      ELSE IF Conflict(m, k, "hash") THEN Returns(m, WrongType)
      ELSE Returns(Update(m, k, "hash", Erase(hash, ToSet(fs))),
                   Number(Cardinality(DOMAIN hash \cap ToSet(fs))))

\* A hash that loses its last field is erased with its key.
Hdel(d, k, fs, t) ==
  LET m == FindLiveMut(d, k, t)
      hash == ValueAt(m, k, EmptyMap)
      rest == Erase(hash, ToSet(fs))
  IN  IF k \notin DOMAIN m THEN Returns(m, Number(0))
      ELSE IF Conflict(m, k, "hash") THEN Returns(m, WrongType)
      ELSE Returns(IF DOMAIN rest = {} THEN Erase(m, {k}) ELSE Update(m, k, "hash", rest),
                   Number(Cardinality(DOMAIN hash \cap ToSet(fs))))

Hgetall(d, k, t) == ReadAs("hash", d, k, t, Items(EmptyMap), Items(d[k].value))

Hexists(d, k, f, t) ==
  ReadAs("hash", d, k, t, Flag(FALSE), Flag(f \in DOMAIN d[k].value))

Hlen(d, k, t) ==
  ReadAs("hash", d, k, t, Number(0), Number(Cardinality(DOMAIN d[k].value)))

Hkeys(d, k, t) == ReadAs("hash", d, k, t, Items({}), Items(DOMAIN d[k].value))

\* The values with their multiplicities.
Multiplicity(hash) ==
  [v \in Range(hash) |-> Cardinality({f \in DOMAIN hash : hash[f] = v})]
Hvals(d, k, t) ==
  ReadAs("hash", d, k, t, Items(EmptyMap), Items(Multiplicity(d[k].value)))

-----------------------------------------------------------------------------
(* Command handlers.                                                       *)

HandleHset ==
  \E k \in Keys, pairs \in Lists1(Values \X Values), t \in Now :
    Command("HSET", {k}, pairs, t, Hset(data, k, pairs, t))

HandleHget ==
  \E k \in Keys, f \in Values, t \in Now : Command("HGET", {k}, f, t, Hget(data, k, f, t))

HandleHdel ==
  \E k \in Keys, fs \in Lists1(Values), t \in Now :
    Command("HDEL", {k}, fs, t, Hdel(data, k, fs, t))

HandleHgetall ==
  \E k \in Keys, t \in Now : Command("HGETALL", {k}, <<>>, t, Hgetall(data, k, t))

HandleHexists ==
  \E k \in Keys, f \in Values, t \in Now :
    Command("HEXISTS", {k}, f, t, Hexists(data, k, f, t))

HandleHlen ==
  \E k \in Keys, t \in Now : Command("HLEN", {k}, <<>>, t, Hlen(data, k, t))

HandleHkeys ==
  \E k \in Keys, t \in Now : Command("HKEYS", {k}, <<>>, t, Hkeys(data, k, t))

HandleHvals ==
  \E k \in Keys, t \in Now : Command("HVALS", {k}, <<>>, t, Hvals(data, k, t))

HashesNext ==
  \/ HandleHset \/ HandleHget \/ HandleHdel \/ HandleHgetall
  \/ HandleHexists \/ HandleHlen \/ HandleHkeys \/ HandleHvals

=============================================================================
