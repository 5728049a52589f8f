------------------------------- MODULE MCStore -------------------------------
(***************************************************************************)
(* Small instances of Store.  A byte string is a sequence over the digits  *)
(* 0..4, a minus sign and a letter; std::int64_t is -4..3, so that sums    *)
(* overflow and time spans wrap within a few steps.                        *)
(***************************************************************************)
EXTENDS Store

Minus == 10
Letter == 11
Digits == 0..4

MCStr == BoundedSeq(Digits \cup {Minus, Letter}, 2)

MCConcat(s, v) == s \o v
MCSize(s) == Len(s)

\* std::to_string and std::from_chars of these numbers; "-0" and leading zeros are read.
MCTextOf(n) == IF n < 0 THEN <<Minus, -n>> ELSE <<n>>
Denoted(s) ==
  IF s # <<>> /\ ToSet(s) \subseteq Digits
  THEN IF Len(s) = 1 THEN {s[1]} ELSE {10 * s[1] + s[2]}
  ELSE IF Len(s) = 2 /\ s[1] = Minus /\ s[2] \in Digits THEN {-s[2]} ELSE {}
MCParseI64(s) == LET ns == Denoted(s) \cap I64
                 IN  IF ns = {} THEN NaN ELSE CHOOSE n \in ns : TRUE

MCEmpty == <<>>
Word == <<Letter>>
One == <<1>>

MCValues == {Word, One}
OneValue == {Word}
NumericValues == {Word, <<3>>}
MCIndices == -3..2
LastIndex == {-1}

-----------------------------------------------------------------------------
(* The commands of each instance.                                          *)

LifetimeCommands ==
  {"SET", "DEL", "EXISTS", "EXPIRE", "PEXPIRE", "PERSIST", "PTTL", "TTL", "TYPE",
   "RENAME", "DBSIZE", "KEYS", "FLUSHDB", "rejected", "sweep"}

StringCommands ==
  {"SET", "GET", "STRLEN", "INCR", "DECR", "INCRBY", "DECRBY", "APPEND", "GETSET",
   "MSET", "MGET", "PEXPIRE"}

ListCommands == {"LPUSH", "RPUSH", "LPOP", "RPOP", "LRANGE", "LLEN", "LINDEX", "PEXPIRE"}

CollectionCommands ==
  {"HSET", "HDEL", "SADD", "SREM", "SUNION", "SINTER", "PEXPIRE", "sweep"}

HashCommands ==
  {"HSET", "HGET", "HDEL", "HGETALL", "HEXISTS", "HLEN", "HKEYS", "HVALS"}

SetCommands == {"SADD", "SREM", "SMEMBERS", "SISMEMBER", "SCARD", "SUNION", "SINTER"}

MixedCommands ==
  StringCommands \cup ListCommands \cup HashCommands \cup SetCommands
    \cup {"PERSIST", "RENAME"}

=============================================================================
