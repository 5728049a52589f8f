------------------------------- MODULE Strings -------------------------------
(***************************************************************************)
(* The string commands of redix::Store, with the counters INCR, INCRBY,    *)
(* DECR and DECRBY.  Byte strings are opaque: all the commands do with one *)
(* is to store it, to measure it, to append to it and to read it as, or    *)
(* write it from, a std::int64_t.                                          *)
(***************************************************************************)
EXTENDS Keyspace

CONSTANTS
  Str,          \* byte strings (bound: those no longer than an instance builds)
  Values,       \* the strings that the clients of an instance send
  Empty,        \* the string of length 0
  Concat(_, _), \* std::string::append
  Size(_),      \* std::string::size
  ParseI64(_),  \* parse_i64: the number a string denotes, or NaN
  TextOf(_),    \* std::to_string
  NaN           \* what parse_i64 makes of any other string

ASSUME StringsAssumption ==
  /\ Values \subseteq Str
  /\ Empty \in Str
  /\ NaN \notin I64
  /\ \A s \in Str : Size(s) \in Nat /\ ParseI64(s) \in I64 \cup {NaN}
  /\ \A s \in Str : Concat(Empty, s) = s
  /\ \A n \in I64 : TextOf(n) \in Str /\ ParseI64(TextOf(n)) = n

-----------------------------------------------------------------------------
\* Overwrites whatever is there, expired or not.
Set(d, k, v, deadline) == Returns(Put(d, k, Entry("string", v, deadline)), Ok)

Get(d, k, t) == ReadAs("string", d, k, t, Nil, Bulk(d[k].value))

Strlen(d, k, t) == ReadAs("string", d, k, t, Number(0), Number(Size(d[k].value)))

\* Mutant of AddTo: the sum wraps around.
AddToWraps(d, k, n, t) ==
  LET m == FindLiveMut(d, k, t)
      current == IF k \in DOMAIN m THEN ParseI64(m[k].value) ELSE 0
      sum == AsI64(Wrap(current + n))
  IN  IF Conflict(m, k, "string") THEN Returns(m, WrongType)
      ELSE IF current = NaN THEN Returns(m, Err("integer"))
      ELSE Returns(Update(m, k, "string", TextOf(sum)), Number(sum))

\* incrby and, with the delta negated, decrby: a missing key counts as 0 but is
\* written with the delta itself, and the sum is checked against std::int64_t.
AddTo(d, k, n, t) ==
  LET m == FindLiveMut(d, k, t)
      current == IF k \in DOMAIN m THEN ParseI64(m[k].value) ELSE 0
  IN  IF Conflict(m, k, "string") THEN Returns(m, WrongType)
      ELSE IF current = NaN \/ current + n \notin I64 THEN Returns(m, Err("integer"))
      ELSE Returns(Update(m, k, "string", TextOf(current + n)), Number(current + n))

Incrby(d, k, delta, t) == AddTo(d, k, delta, t)
Decrby(d, k, delta, t) == AddTo(d, k, -delta, t)

AppendTo(d, k, suffix, t) ==
  LET m == FindLiveMut(d, k, t)
      value == Concat(ValueAt(m, k, Empty), suffix)
  IN  IF Conflict(m, k, "string") THEN Returns(m, WrongType)
      ELSE Returns(Update(m, k, "string", value), Number(Size(value)))

\* Mutant of Getset: the new value is stored before the old one's type is tested.
GetsetStoresFirst(d, k, v, t) ==
  LET m == FindLiveMut(d, k, t)
      stored == Put(m, k, Entry("string", v, 0))
  IN  IF Conflict(m, k, "string") THEN Returns(stored, WrongType)
      ELSE Returns(stored, IF k \in DOMAIN m THEN Bulk(m[k].value) ELSE Nil)

\* The new value has no deadline, whatever the old one had.
Getset(d, k, v, t) ==
  LET m == FindLiveMut(d, k, t)
  IN  IF Conflict(m, k, "string") THEN Returns(m, WrongType)
      ELSE Returns(Put(m, k, Entry("string", v, 0)),
                   IF k \in DOMAIN m THEN Bulk(m[k].value) ELSE Nil)

Mset(d, pairs) ==
  LET named == {pairs[i][1] : i \in DOMAIN pairs}
  IN  Returns([k \in DOMAIN d \cup named |->
                 IF k \in named THEN Entry("string", LastGiven(pairs, k), 0) ELSE d[k]], Ok)

\* A missing key and one of another type are both answered with nil.
Mget(d, ks, ts) ==
  Returns(d, Items([i \in DOMAIN ks |->
                      IF Live(d, ks[i], ts[i]) /\ d[ks[i]].type = "string"
                      THEN Bulk(d[ks[i]].value) ELSE Nil]))

-----------------------------------------------------------------------------
(* Command handlers.                                                       *)

\* The options of SET: an expiry, counted from the reading t1 taken while the
\* options are parsed, and a condition that NX and XX put on the key.
Expiries == {<<"none", 0>>} \cup ({"EX", "PX"} \X (Spans \ {0}))
Deadline(expiry, t) ==
  IF expiry[1] = "none" THEN 0 ELSE Wrap(t + Millis(expiry[1], expiry[2]))
\* Mutant of Refused: NX and XX are swapped.
RefusedSwapped(cond, exists) == (cond = "XX" /\ exists) \/ (cond = "NX" /\ ~exists)

Refused(cond, exists) == (cond = "NX" /\ exists) \/ (cond = "XX" /\ ~exists)

HandleSet ==
  \E k \in Keys, v \in Values, expiry \in Expiries, cond \in {"always", "NX", "XX"},
     t1 \in Now : \E t2 \in t1..MaxClock :
    Command("SET", {k}, <<v, expiry, cond>>, t2,
            IF Refused(cond, Live(data, k, t2)) THEN Returns(data, Nil)
            ELSE Set(data, k, v, Deadline(expiry, t1)))

HandleGet ==
  \E k \in Keys, t \in Now : Command("GET", {k}, <<>>, t, Get(data, k, t))

HandleStrlen ==
  \E k \in Keys, t \in Now : Command("STRLEN", {k}, <<>>, t, Strlen(data, k, t))

HandleIncr ==
  \E k \in Keys, t \in Now : Command("INCR", {k}, 1, t, Incrby(data, k, 1, t))

HandleDecr ==
  \E k \in Keys, t \in Now : Command("DECR", {k}, 1, t, Decrby(data, k, 1, t))

HandleIncrby ==
  \E k \in Keys, delta \in I64, t \in Now :
    Command("INCRBY", {k}, delta, t, Incrby(data, k, delta, t))

HandleDecrby ==
  \E k \in Keys, delta \in I64, t \in Now :
    Command("DECRBY", {k}, delta, t, Decrby(data, k, delta, t))

\* Bound: the value stays in Str.
HandleAppend ==
  \E k \in Keys, v \in Values, t \in Now :
    /\ (Live(data, k, t) /\ data[k].type = "string") => Concat(data[k].value, v) \in Str
    /\ Command("APPEND", {k}, v, t, AppendTo(data, k, v, t))

HandleGetset ==
  \E k \in Keys, v \in Values, t \in Now :
    Command("GETSET", {k}, v, t, Getset(data, k, v, t))

HandleMset ==
  \E pairs \in Lists1(Keys \X Values), t \in Now :
    Command("MSET", {pairs[i][1] : i \in DOMAIN pairs}, pairs, t, Mset(data, pairs))

HandleMget ==
  \E ks \in Lists1(Keys) : \E ts \in Readings(DOMAIN ks) : \E t \in After(ts) :
    Command("MGET", ToSet(ks), ks, t, Mget(data, ks, ts))

StringsNext ==
  \/ HandleSet \/ HandleGet \/ HandleStrlen \/ HandleIncr \/ HandleDecr \/ HandleIncrby
  \/ HandleDecrby \/ HandleAppend \/ HandleGetset \/ HandleMset \/ HandleMget

=============================================================================
