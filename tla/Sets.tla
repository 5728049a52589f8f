-------------------------------- MODULE Sets --------------------------------
(* The set commands of redix::Store.                                       *)
EXTENDS Strings

\* Mutant of Sadd: operator[] makes room for the set before the type is tested.
SaddConvertsFirst(d, k, members, t) ==
  LET m == FindLiveMut(d, k, t)
      set == ValueAt(m, k, {})
  IN  IF Conflict(m, k, "set")
      THEN Returns(Update(m, k, "set", ToSet(members)), WrongType)
      ELSE Returns(Update(m, k, "set", set \cup ToSet(members)),
                   Number(Cardinality(ToSet(members) \ set)))

\* Answers the number of new members.
Sadd(d, k, members, t) ==
  LET m == FindLiveMut(d, k, t)
      set == ValueAt(m, k, {})
  IN  IF Conflict(m, k, "set") THEN Returns(m, WrongType)
      ELSE Returns(Update(m, k, "set", set \cup ToSet(members)),
                   Number(Cardinality(ToSet(members) \ set)))

\* A set that loses its last member is erased with its key.
Srem(d, k, members, t) ==
  LET m == FindLiveMut(d, k, t)
      set == ValueAt(m, k, {})
      rest == set \ ToSet(members)
  IN  IF k \notin DOMAIN m THEN Returns(m, Number(0))
      ELSE IF Conflict(m, k, "set") THEN Returns(m, WrongType)
      ELSE Returns(IF rest = {} THEN Erase(m, {k}) ELSE Update(m, k, "set", rest),
                   Number(Cardinality(set \cap ToSet(members))))

Smembers(d, k, t) == ReadAs("set", d, k, t, Items({}), Items(d[k].value))

Sismember(d, k, v, t) == ReadAs("set", d, k, t, Flag(FALSE), Flag(v \in d[k].value))

Scard(d, k, t) == ReadAs("set", d, k, t, Number(0), Number(Cardinality(d[k].value)))

\* The set that the lookup of k at t finds; none for a missing key or another type.
IsLiveSet(d, k, t) == Live(d, k, t) /\ d[k].type = "set"

\* Store::sunion skips whatever is no live set ...
Sunion(d, ks, ts) ==
  UNION {d[ks[i]].value : i \in {j \in DOMAIN ks : IsLiveSet(d, ks[j], ts[j])}}

\* ... and Store::sinter answers the empty set when one is not.
Sinter(d, ks, ts) ==
  IF \A i \in DOMAIN ks : IsLiveSet(d, ks[i], ts[i])
  THEN {v \in d[ks[1]].value : \A i \in DOMAIN ks : v \in d[ks[i]].value}
  ELSE {}

-----------------------------------------------------------------------------
(* Command handlers.                                                       *)

HandleSadd ==
  \E k \in Keys, vs \in Lists1(Values), t \in Now :
    Command("SADD", {k}, vs, t, Sadd(data, k, vs, t))

HandleSrem ==
  \E k \in Keys, vs \in Lists1(Values), t \in Now :
    Command("SREM", {k}, vs, t, Srem(data, k, vs, t))

HandleSmembers ==
  \E k \in Keys, t \in Now : Command("SMEMBERS", {k}, <<>>, t, Smembers(data, k, t))

HandleSismember ==
  \E k \in Keys, v \in Values, t \in Now :
    Command("SISMEMBER", {k}, v, t, Sismember(data, k, v, t))

HandleScard ==
  \E k \in Keys, t \in Now : Command("SCARD", {k}, <<>>, t, Scard(data, k, t))

\* Mutant of KeyIsWrongTypeForSetOp: no key is refused.
KeyIsWrongTypeForSetOpNever(d, k, t) == FALSE

KeyIsWrongTypeForSetOp(d, k, t) == Live(d, k, t) /\ d[k].type # "set"

\* Every key's type is looked up first, then every key again by the operation:
\* twice as many clock readings as keys.
SetOperation(cmd) ==
  \E ks \in Lists1(Keys) :
    LET n == Len(ks)
    IN  \E ts \in Readings(1..(2 * n)) : \E t \in After(ts) :
          LET again == [i \in 1..n |-> ts[n + i]]
          IN  Command(cmd, ToSet(ks), ks, t,
                Returns(data,
                  IF \E i \in 1..n : KeyIsWrongTypeForSetOp(data, ks[i], ts[i]) THEN WrongType
                  ELSE IF cmd = "SUNION" THEN Items(Sunion(data, ks, again))
                  ELSE Items(Sinter(data, ks, again))))

HandleSunion == SetOperation("SUNION")
HandleSinter == SetOperation("SINTER")

SetsNext ==
  \/ HandleSadd \/ HandleSrem \/ HandleSmembers \/ HandleSismember
  \/ HandleScard \/ HandleSunion \/ HandleSinter

=============================================================================
