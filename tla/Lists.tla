-------------------------------- MODULE Lists --------------------------------
(* The list commands of redix::Store.                                      *)
EXTENDS Strings

CONSTANT Indices   \* the index arguments that clients give to LINDEX and LRANGE

ASSUME ListsAssumption == Indices \subseteq I64

-----------------------------------------------------------------------------
PushInto(d, k, front, back, t) ==
  LET m == FindLiveMut(d, k, t)
      list == front \o ValueAt(m, k, <<>>) \o back
  IN  IF Conflict(m, k, "list") THEN Returns(m, WrongType)
      ELSE Returns(Update(m, k, "list", list), Number(Len(list)))

\* Mutant of Rpush: the values go to the front.
RpushInFront(d, k, vs, t) == PushInto(d, k, vs, <<>>, t)

\* The values are pushed one by one, so the last given to LPUSH ends up first.
Lpush(d, k, vs, t) == PushInto(d, k, Reverse(vs), <<>>, t)
Rpush(d, k, vs, t) == PushInto(d, k, <<>>, vs, t)

\* Mutant of Shorten: the emptied list stays.
ShortenKeeps(m, k, list) == Update(m, k, "list", list)

\* An emptied list is erased with its key.
Shorten(m, k, list) ==
  IF list = <<>> THEN Erase(m, {k}) ELSE Update(m, k, "list", list)

PopFrom(d, k, t, end) ==
  LET m == FindLiveMut(d, k, t)
      list == m[k].value
      i == IF end = "left" THEN 1 ELSE Len(list)
  IN  IF k \notin DOMAIN m THEN Returns(m, Nil)
      ELSE IF Conflict(m, k, "list") THEN Returns(m, WrongType)
      ELSE IF list = <<>> THEN Returns(Erase(m, {k}), Nil)
      ELSE Returns(Shorten(m, k, RemoveAt(list, i)), Bulk(list[i]))

Lpop(d, k, t) == PopFrom(d, k, t, "left")
Rpop(d, k, t) == PopFrom(d, k, t, "right")

\* Negative indices count from the end.
NormalizeIndex(i, size) == IF i < 0 THEN size + i ELSE i

\* Mutant of Slice: the end is not clamped to the list.
SliceUnclamped(list, start, stop) ==
  LET size == Len(list)
      first == Max({NormalizeIndex(start, size), 0})
      end == NormalizeIndex(stop, size)
  IN  IF size = 0 \/ first > end \/ first >= size \/ end >= size THEN <<>>
      ELSE SubSeq(list, first + 1, end + 1)

\* Both ends are clamped to the list.
Slice(list, start, stop) ==
  LET size == Len(list)
      first == Max({NormalizeIndex(start, size), 0})
      end == Min({NormalizeIndex(stop, size), size - 1})
  IN  IF size = 0 \/ first > end \/ first >= size \/ end < 0 THEN <<>>
      ELSE SubSeq(list, first + 1, end + 1)

Lrange(d, k, start, stop, t) ==
  ReadAs("list", d, k, t, Items(<<>>), Items(Slice(d[k].value, start, stop)))

Llen(d, k, t) == ReadAs("list", d, k, t, Number(0), Number(Len(d[k].value)))

ElementAt(list, index) ==
  LET i == NormalizeIndex(index, Len(list))
  IN  IF i < 0 \/ i >= Len(list) THEN Nil ELSE Bulk(list[i + 1])

Lindex(d, k, index, t) ==
  ReadAs("list", d, k, t, Nil, ElementAt(d[k].value, index))

-----------------------------------------------------------------------------
(* Command handlers.                                                       *)

\* Bound: lists stay no longer than I64Max, so that a length is a std::int64_t.
MayGrow(k, t, n) ==
  (Live(data, k, t) /\ data[k].type = "list") => Len(data[k].value) + n <= I64Max

HandleLpush ==
  \E k \in Keys, vs \in Lists1(Values), t \in Now :
    MayGrow(k, t, Len(vs)) /\ Command("LPUSH", {k}, vs, t, Lpush(data, k, vs, t))

HandleRpush ==
  \E k \in Keys, vs \in Lists1(Values), t \in Now :
    MayGrow(k, t, Len(vs)) /\ Command("RPUSH", {k}, vs, t, Rpush(data, k, vs, t))

HandleLpop ==
  \E k \in Keys, t \in Now : Command("LPOP", {k}, <<>>, t, Lpop(data, k, t))

HandleRpop ==
  \E k \in Keys, t \in Now : Command("RPOP", {k}, <<>>, t, Rpop(data, k, t))

HandleLrange ==
  \E k \in Keys, start, stop \in Indices, t \in Now :
    Command("LRANGE", {k}, <<start, stop>>, t, Lrange(data, k, start, stop, t))

HandleLlen ==
  \E k \in Keys, t \in Now : Command("LLEN", {k}, <<>>, t, Llen(data, k, t))

HandleLindex ==
  \E k \in Keys, index \in Indices, t \in Now :
    Command("LINDEX", {k}, index, t, Lindex(data, k, index, t))

ListsNext ==
  \/ HandleLpush \/ HandleRpush \/ HandleLpop \/ HandleRpop
  \/ HandleLrange \/ HandleLlen \/ HandleLindex

=============================================================================
