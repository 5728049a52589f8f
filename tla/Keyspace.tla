------------------------------ MODULE Keyspace ------------------------------
(***************************************************************************)
(* The keyspace of redix::Store: the map data_ from key names to typed     *)
(* entries with an expiry deadline, its lookup helpers and the commands    *)
(* that do not depend on the type of a value.  An operator named after a   *)
(* method of Store returns what the call makes of the map d and what it    *)
(* answers; an action Handle... is the command handler around that call.   *)
(*                                                                         *)
(* The server runs every command on one thread, so an action is a whole    *)
(* command.  The wall clock does not stop meanwhile: an action takes one   *)
(* clock reading per call of now_ms(), in order, and the clock may move    *)
(* between any two of them.                                                *)
(***************************************************************************)
EXTENDS Integers, FiniteSets, SequencesExt

CONSTANTS
  Keys,        \* key names, each given by its rank in the map's sort order
  I64Max,      \* largest std::int64_t (2^63 - 1 in the program)
  MsPerSecond, \* milliseconds in a second (1000 in the program)
  SweepLimit,  \* entries one sweep visits (20 in the program)
  MaxClock,    \* bound: the last instant of an instance
  MaxArgs,     \* bound: the most keys, values or fields one command lists
  Spans,       \* the time spans that clients give to SET, EXPIRE and PEXPIRE
  Commands     \* the commands that the clients of an instance send

I64 == (-I64Max - 1)..I64Max
U64 == 0..(2 * I64Max + 1)
Wrap(n) == n % (2 * I64Max + 2)
AsI64(u) == IF u <= I64Max THEN u ELSE u - (2 * I64Max + 2)

ASSUME KeyspaceAssumption ==
  /\ Keys \subseteq Nat
  /\ I64Max \in Nat
  /\ MsPerSecond \in 1..I64Max
  /\ SweepLimit \in Nat \ {0}
  /\ MaxClock \in 1..I64Max
  /\ MaxArgs \in Nat
  /\ Spans \subseteq U64

VARIABLES
  data,   \* Store::data_, a map from some of Keys to entries
  clock,  \* system_clock in milliseconds, at the end of the last command
  last    \* the command executed last: its name, keys, arguments and reply

vars == <<data, clock, last>>

-----------------------------------------------------------------------------
(* Entries, maps and replies.                                              *)

Entry(type, value, deadline) ==
  [type |-> type, value |-> value, expires_at_ms |-> deadline]

EmptyMap == [x \in {} |-> x]
Erase(m, X) == Restrict(m, DOMAIN m \ X)
Put(m, x, v) == [y \in DOMAIN m \cup {x} |-> IF y = x THEN v ELSE m[y]]

\* What x holds after the <<name, value>> pairs were stored in order: the last one.
Given(pairs, x) == {i \in DOMAIN pairs : pairs[i][1] = x}
LastGiven(pairs, x) ==
  pairs[CHOOSE i \in Given(pairs, x) : \A j \in Given(pairs, x) : j <= i][2]

Ok == [kind |-> "ok"]
Nil == [kind |-> "nil"]
Number(n) == [kind |-> "int", n |-> n]
Flag(b) == Number(IF b THEN 1 ELSE 0)
Bulk(s) == [kind |-> "bulk", s |-> s]
Items(a) == [kind |-> "array", a |-> a]
Err(e) == [kind |-> "err", e |-> e]
WrongType == Err("wrongtype")

Returns(d, r) == [data |-> d, reply |-> r]

\* A client's command cmd over keys, with the arguments arg, ends at the instant now.
Command(cmd, keys, arg, now, outcome) ==
  /\ cmd \in Commands
  /\ data' = outcome.data
  /\ clock' = now
  /\ last' = [cmd |-> cmd, keys |-> keys, arg |-> arg, reply |-> outcome.reply]

Now == clock..MaxClock

\* Clock readings taken in the order of the numbers in I, and the instants at
\* which a command that took them may end.
Readings(I) == {ts \in [I -> Now] : \A i, j \in I : i <= j => ts[i] <= ts[j]}
After(ts) == {t \in Now : \A i \in DOMAIN ts : ts[i] <= t}

\* The non-empty lists of arguments drawn from S.
Lists1(S) == BoundedSeq(S, MaxArgs) \ {<<>>}

-----------------------------------------------------------------------------
(* Lookup.                                                                 *)

IsExpired(e, t) == e.expires_at_ms # 0 /\ e.expires_at_ms <= t

\* What a read-only lookup of k answers: an expired entry stays in the map.
Live(d, k, t) == k \in DOMAIN d /\ ~IsExpired(d[k], t)

\* Mutants of FindLiveMut: the lookup forgets to test for expiry; it drops the
\* deadline that has passed and keeps the entry.
FindLiveMutStale(d, k, t) == d
FindLiveMutRevives(d, k, t) ==
  IF k \in DOMAIN d /\ IsExpired(d[k], t) THEN [d EXCEPT ![k].expires_at_ms = 0] ELSE d

\* The map after a mutating lookup of k: an expired entry is gone.
FindLiveMut(d, k, t) ==
  IF k \in DOMAIN d /\ IsExpired(d[k], t) THEN Erase(d, {k}) ELSE d

LiveKeys(d, t) == {k \in DOMAIN d : Live(d, k, t)}

\* A read-only command on k: missing, of another type, or answered.
ReadAs(type, d, k, t, missing, answer) ==
  Returns(d, IF ~Live(d, k, t) THEN missing
             ELSE IF d[k].type # type THEN WrongType
             ELSE answer)

\* Mutant of Update: a rewritten entry starts without deadline.
UpdateResetsDeadline(d, k, type, value) == Put(d, k, Entry(type, value, 0))

\* k holds a value of another type; its value, with one for a missing key; and the
\* update of its value in place, which keeps the deadline, or its creation.
Conflict(d, k, type) == k \in DOMAIN d /\ d[k].type # type
ValueAt(d, k, missing) == IF k \in DOMAIN d THEN d[k].value ELSE missing
Update(d, k, type, value) ==
  Put(d, k, Entry(type, value, IF k \in DOMAIN d THEN d[k].expires_at_ms ELSE 0))

-----------------------------------------------------------------------------
(* Operations on entries of any type.                                      *)

\* The first mention of a key removes it; it counts when it was live then.
Del(d, ks, ts) ==
  Returns(Erase(d, ToSet(ks)),
          Number(Cardinality({i \in DOMAIN ks : /\ Live(d, ks[i], ts[i])
                                                /\ \A j \in 1..(i - 1) : ks[j] # ks[i]})))

Exists(d, ks, ts) ==
  Returns(d, Number(Cardinality({i \in DOMAIN ks : Live(d, ks[i], ts[i])})))

\* Mutant of Pexpire: the deadline is kept in more than 64 bits.
PexpireUnwrapped(d, k, ms, t1, t2) ==
  LET m == FindLiveMut(d, k, t1)
  IN  IF k \notin DOMAIN m THEN Returns(m, Flag(FALSE))
      ELSE Returns([m EXCEPT ![k].expires_at_ms = t2 + ms], Flag(TRUE))

\* Span ms is counted from a second clock reading t2; the sum is a std::uint64_t.
Pexpire(d, k, ms, t1, t2) ==
  LET m == FindLiveMut(d, k, t1)
  IN  IF k \notin DOMAIN m THEN Returns(m, Flag(FALSE))
      ELSE Returns([m EXCEPT ![k].expires_at_ms = Wrap(t2 + ms)], Flag(TRUE))

Millis(unit, span) == IF unit = "EX" THEN Wrap(span * MsPerSecond) ELSE span

Expire(d, k, seconds, t1, t2) == Pexpire(d, k, Millis("EX", seconds), t1, t2)

Persist(d, k, t) ==
  LET m == FindLiveMut(d, k, t)
  IN  IF k \notin DOMAIN m \/ m[k].expires_at_ms = 0 THEN Returns(m, Flag(FALSE))
      ELSE Returns([m EXCEPT ![k].expires_at_ms = 0], Flag(TRUE))

\* Mutant of Pttl: no second test for expiry before the subtraction.
PttlUnchecked(d, k, t1, t2) ==
  IF ~Live(d, k, t1) THEN -2
  ELSE IF d[k].expires_at_ms = 0 THEN -1
  ELSE AsI64(d[k].expires_at_ms - t2)

\* -2 for a missing key, -1 for one without deadline; the lookup and the subtraction
\* read the clock separately.
Pttl(d, k, t1, t2) ==
  IF ~Live(d, k, t1) THEN -2
  ELSE IF d[k].expires_at_ms = 0 THEN -1
  ELSE IF d[k].expires_at_ms <= t2 THEN -2
  ELSE AsI64(d[k].expires_at_ms - t2)

\* Seconds, rounded up.  remaining + 999 may overflow, which is undefined: the
\* build produces the exact or the wrapped sum, then divides towards zero.
Ttl(remaining) ==
  LET sum == remaining + MsPerSecond - 1
      Quotient(n) == IF n >= 0 THEN n \div MsPerSecond ELSE -((-n) \div MsPerSecond)
  IN  IF remaining <= 0 THEN {remaining}
      ELSE {Quotient(n) : n \in {sum, AsI64(Wrap(sum))}}

Type(d, k, t) ==
  Returns(d, IF Live(d, k, t) THEN Bulk(d[k].type) ELSE Bulk("none"))

\* Mutant of Rename: the source is erased last.
RenameErasesLast(d, src, dst, t) ==
  LET m == FindLiveMut(d, src, t)
  IN  IF src \notin DOMAIN m THEN Returns(m, Err("no such key"))
      ELSE Returns(Erase(Put(m, dst, m[src]), {src}), Ok)

\* The source is erased, then the destination overwritten, deadline included.
Rename(d, src, dst, t) ==
  LET m == FindLiveMut(d, src, t)
  IN  IF src \notin DOMAIN m THEN Returns(m, Err("no such key"))
      ELSE Returns(Put(Erase(m, {src}), dst, m[src]), Ok)

\* Mutant of KeysOp: the scan does not test for expiry.
KeysOpRaw(d, matching, ts) == Returns(d, Items(matching \cap DOMAIN d))

\* Scans read the clock once per entry, in key order.
Dbsize(d, ts) == Returns(d, Number(Cardinality({k \in DOMAIN d : Live(d, k, ts[k])})))
KeysOp(d, matching, ts) == Returns(d, Items({k \in matching \cap DOMAIN d : Live(d, k, ts[k])}))

\* One sweep visits the first SweepLimit entries and erases the expired ones.
Visited(d) == {k \in DOMAIN d : Cardinality({j \in DOMAIN d : j < k}) < SweepLimit}
\* Mutants of SweepExpired: any entry with a deadline goes; the entry after an
\* erased one is skipped; the last one that may be visited is not.
SweepExpiredEarly(d, ts) ==
  Returns(Erase(d, {k \in Visited(d) : d[k].expires_at_ms # 0}), Ok)
SweepExpiredSkips(d, ts) ==
  LET expired == {k \in Visited(d) : IsExpired(d[k], ts[k])}
  IN  Returns(Erase(d, {k \in expired : ~\E j \in expired : j < k}), Ok)
SweepExpiredShort(d, ts) ==
  Returns(Erase(d, {k \in Visited(d) : \E j \in Visited(d) : k < j /\ IsExpired(d[k], ts[k])}), Ok)

SweepExpired(d, ts) ==
  Returns(Erase(d, {k \in Visited(d) : IsExpired(d[k], ts[k])}), Ok)

-----------------------------------------------------------------------------
(* Command handlers.                                                       *)

HandleDel ==
  \E ks \in Lists1(Keys) : \E ts \in Readings(DOMAIN ks) : \E t \in After(ts) :
    Command("DEL", ToSet(ks), ks, t, Del(data, ks, ts))

HandleExists ==
  \E ks \in Lists1(Keys) : \E ts \in Readings(DOMAIN ks) : \E t \in After(ts) :
    Command("EXISTS", ToSet(ks), ks, t, Exists(data, ks, ts))

HandleExpire ==
  \E k \in Keys, s \in Spans, t1 \in Now : \E t2 \in t1..MaxClock :
    Command("EXPIRE", {k}, Millis("EX", s), t2, Expire(data, k, s, t1, t2))

HandlePexpire ==
  \E k \in Keys, ms \in Spans, t1 \in Now : \E t2 \in t1..MaxClock :
    Command("PEXPIRE", {k}, ms, t2, Pexpire(data, k, ms, t1, t2))

HandlePersist ==
  \E k \in Keys, t \in Now : Command("PERSIST", {k}, <<>>, t, Persist(data, k, t))

HandlePttl ==
  \E k \in Keys, t1 \in Now : \E t2 \in t1..MaxClock :
    Command("PTTL", {k}, <<>>, t2, Returns(data, Number(Pttl(data, k, t1, t2))))

HandleTtl ==
  \E k \in Keys, t1 \in Now : \E t2 \in t1..MaxClock : \E n \in Ttl(Pttl(data, k, t1, t2)) :
    Command("TTL", {k}, <<>>, t2, Returns(data, Number(n)))

HandleType ==
  \E k \in Keys, t \in Now : Command("TYPE", {k}, <<>>, t, Type(data, k, t))

HandleRename ==
  \E src, dst \in Keys, t \in Now :
    Command("RENAME", {src, dst}, <<src, dst>>, t, Rename(data, src, dst, t))

HandleDbsize ==
  \E ts \in Readings(DOMAIN data) : \E t \in After(ts) :
    Command("DBSIZE", {}, <<>>, t, Dbsize(data, ts))

\* The pattern stands for the set of names it matches.
HandleKeys ==
  \E matching \in SUBSET Keys : \E ts \in Readings(DOMAIN data) : \E t \in After(ts) :
    Command("KEYS", {}, matching, t, KeysOp(data, matching, ts))

HandleFlushdb ==
  \E t \in Now : Command("FLUSHDB", {}, <<>>, t, Returns(EmptyMap, Ok))

\* A wrong number of arguments, an argument that is no integer, bad options of SET
\* and an unknown command are answered before the store is called.
HandleRejected ==
  \E e \in {"arity", "integer", "syntax", "unknown"}, t \in Now :
    Command("rejected", {}, <<>>, t, Returns(data, Err(e)))

\* Store::sweep_expired; nothing in the server calls it (see README).
Sweep ==
  \E ts \in Readings(DOMAIN data) : \E t \in After(ts) :
    Command("sweep", {}, <<>>, t, SweepExpired(data, ts))

KeyspaceNext ==
  \/ HandleDel \/ HandleExists \/ HandleExpire \/ HandlePexpire \/ HandlePersist
  \/ HandlePttl \/ HandleTtl \/ HandleType \/ HandleRename \/ HandleDbsize
  \/ HandleKeys \/ HandleFlushdb \/ HandleRejected \/ Sweep

\* Mutant of WriteCommands: one command is forgotten.
WriteCommandsForgetful ==
  {"SET", "DEL", "INCR", "INCRBY", "DECR", "DECRBY", "APPEND", "MSET", "EXPIRE",
   "PEXPIRE", "PERSIST", "LPUSH", "RPUSH", "LPOP", "RPOP", "HSET", "HDEL", "SADD",
   "SREM", "FLUSHDB", "RENAME"}

\* The commands that the append-only log is to record.
WriteCommands ==
  {"SET", "DEL", "INCR", "INCRBY", "DECR", "DECRBY", "APPEND", "GETSET", "MSET",
   "EXPIRE", "PEXPIRE", "PERSIST", "LPUSH", "RPUSH", "LPOP", "RPOP", "HSET", "HDEL",
   "SADD", "SREM", "FLUSHDB", "RENAME"}

=============================================================================
