-------------------------------- MODULE Store --------------------------------
(***************************************************************************)
(* The store under any sequence of client commands: the composition of the *)
(* command families over one keyspace, and what must hold of it whatever   *)
(* clients send and however the clock advances between two readings.       *)
(***************************************************************************)
EXTENDS Lists, Hashes, Sets

Init ==
  /\ data = EmptyMap
  /\ clock = 1
  /\ last = [cmd |-> "none", keys |-> {}, arg |-> <<>>, reply |-> Nil]

Next == KeyspaceNext \/ StringsNext \/ ListsNext \/ HashesNext \/ SetsNext

Spec == Init /\ [][Next]_vars

-----------------------------------------------------------------------------
(* Invariants.                                                             *)

IsFunction(f) == f = [x \in DOMAIN f |-> f[x]]

IsHash(v) ==
  /\ IsFunction(v)
  /\ DOMAIN v \subseteq Str /\ IsFiniteSet(DOMAIN v)
  /\ \A f \in DOMAIN v : v[f] \in Str

IsValue(type, v) ==
  \/ type = "string" /\ v \in Str
  \/ type = "list" /\ v \in Seq(Str)
  \/ type = "hash" /\ IsHash(v)
  \/ type = "set" /\ v \subseteq Str /\ IsFiniteSet(v)

IsEntry(e) ==
  /\ e = Entry(e.type, e.value, e.expires_at_ms)
  /\ IsValue(e.type, e.value)
  /\ e.expires_at_ms \in U64

IsKeyspace(d) ==
  /\ IsFunction(d)
  /\ DOMAIN d \subseteq Keys /\ IsFiniteSet(DOMAIN d)
  /\ \A k \in DOMAIN d : IsEntry(d[k])

\* Type correctness of the store: finitely many entries, each with a value of its type
\* and a deadline that fits a std::uint64_t, whatever time span a client gave.
TypeOK == IsKeyspace(data) /\ clock \in 1..MaxClock

IsEmpty(e) ==
  \/ e.type = "list" /\ e.value = <<>>
  \/ e.type = "set" /\ e.value = {}
  \/ e.type = "hash" /\ DOMAIN e.value = {}

\* LPOP, RPOP, HDEL and SREM erase a key with its last element, so that EXISTS, TYPE
\* and DBSIZE never see an empty list, hash or set.
NoEmptyAggregate == \A k \in DOMAIN data : ~IsEmpty(data[k])

\* LRANGE and LINDEX agree on every list: a range is the elements of LINDEX at the
\* positions from start to stop, in order, whatever clamping the indices need.
Positions(list, start, stop) ==
  {p \in 0..(Len(list) - 1) : /\ NormalizeIndex(start, Len(list)) <= p
                              /\ p <= NormalizeIndex(stop, Len(list))}
RangesAgreeWithIndices ==
  \A k \in DOMAIN data : data[k].type = "list" =>
    \A start, stop \in Indices :
      LET list == data[k].value
          ps == Positions(list, start, stop)
          range == Slice(list, start, stop)
      IN  /\ Len(range) = Cardinality(ps)
          /\ \A p \in ps :
               Bulk(range[Cardinality({q \in ps : q <= p})]) = ElementAt(list, p)

-----------------------------------------------------------------------------
(* Action properties.  A command runs from clock to clock'; Outlives(k)    *)
(* says that k was live all that time as far as its old entry goes.        *)

LiveAtStart(k) == Live(data, k, clock)
Outlives(k) == Live(data, k, clock')
LiveAtEnd(k) == Live(data', k, clock')
Replied(kind) == last'.reply.kind = kind

Creating ==
  {"SET", "INCR", "INCRBY", "DECR", "DECRBY", "APPEND", "GETSET", "MSET",
   "LPUSH", "RPUSH", "HSET", "SADD", "RENAME"}

\* An expired key, though its entry may still be in data_, never comes back to life:
\* only a command that creates its key and names it makes a dead key live.
DeadStaysDead ==
  [][\A k \in Keys : ~LiveAtStart(k) /\ LiveAtEnd(k) =>
       last'.cmd \in Creating /\ k \in last'.keys]_vars

\* A live entry is changed or removed only by a command that is_write_command lists
\* and that names its key (FLUSHDB names them all): a log of those commands misses
\* no change, and reads, sweeps and lookups of other keys lose nothing.
LiveEntriesSafe ==
  [][\A k \in Keys : Outlives(k) /\ (k \in DOMAIN data' => data'[k] # data[k]) =>
       /\ last'.cmd \in WriteCommands
       /\ k \in last'.keys \/ last'.cmd = "FLUSHDB"]_vars

\* Commands that update a value in place (INCR, APPEND, LPUSH, HSET, SREM, ...) keep
\* the deadline and the type of a live key.
DeadlinesAndTypesKept ==
  [][\A k \in Keys : Outlives(k) /\ k \in DOMAIN data' =>
       /\ data'[k].expires_at_ms # data[k].expires_at_ms =>
            last'.cmd \in {"SET", "GETSET", "MSET", "EXPIRE", "PEXPIRE", "PERSIST", "RENAME"}
       /\ data'[k].type # data[k].type => last'.cmd \in {"SET", "MSET", "RENAME"}]_vars

\* What a command makes of a key that does not exist.
Afresh(cmd, arg) ==
  CASE cmd = "LPUSH" -> Reverse(arg)
    [] cmd \in {"RPUSH", "APPEND", "GETSET"} -> arg
    [] cmd = "HSET" -> Assign(EmptyMap, arg)
    [] cmd = "SADD" -> ToSet(arg)
    [] cmd \in {"INCR", "INCRBY"} -> TextOf(arg)
    [] cmd \in {"DECR", "DECRBY"} -> TextOf(-arg)

\* A command that creates its key over an expired entry inherits nothing from it: no
\* deadline, no element, no digit.
NothingInherited ==
  [][\A k \in Keys : ~LiveAtStart(k) /\ LiveAtEnd(k) /\
                     last'.cmd \in Creating \ {"SET", "MSET", "RENAME"} =>
       data'[k].expires_at_ms = 0 /\ data'[k].value = Afresh(last'.cmd, last'.arg)]_vars

\* A command that answers with an error has done nothing: what was live and has not
\* expired meanwhile is as it was, and nothing else became live.
ErrorsChangeNothing ==
  [][Replied("err") => \A k \in Keys :
       /\ Outlives(k) => k \in DOMAIN data' /\ data'[k] = data[k]
       /\ LiveAtEnd(k) => Outlives(k)]_vars

\* SET NX never overwrites a live value and SET XX never creates one, even when the
\* key expires while the command runs; the reply tells which happened.
SetConditionsHold ==
  [][last'.cmd = "SET" => \A k \in last'.keys :
       /\ last'.arg[3] = "NX" /\ Outlives(k) => data' = data /\ Replied("nil")
       /\ last'.arg[3] = "XX" /\ ~LiveAtStart(k) => data' = data /\ Replied("nil")
       /\ Replied("ok") => data'[k].value = last'.arg[1]]_vars

\* The counter commands either add exactly, leaving the sum they answer in the key,
\* or fail because the sum is no std::int64_t; a wrapped sum is never stored.
Delta == IF last'.cmd \in {"DECR", "DECRBY"} THEN -last'.arg ELSE last'.arg
CountersExact ==
  [][last'.cmd \in {"INCR", "INCRBY", "DECR", "DECRBY"} => \A k \in last'.keys :
       /\ Replied("int") =>
            /\ last'.reply.n \in I64
            /\ ParseI64(data'[k].value) = last'.reply.n
            /\ Outlives(k) => last'.reply.n = ParseI64(data[k].value) + Delta
       /\ last'.reply = Err("integer") /\ Outlives(k) =>
            ParseI64(data[k].value) = NaN \/ ParseI64(data[k].value) + Delta \notin I64]_vars

\* PTTL and TTL answer -2 only for a key that is dead when they end and -1 only for one
\* without deadline, though the clock moves between lookup and subtraction.  Any other
\* answer is the time that was left at an instant of the command at which the key lived,
\* which TTL rounds up to seconds.  The ends of the range show: 2^63 ms or more are a
\* negative number of milliseconds in both, and a little less may overflow in TTL.
Tells(n, left) ==
  \/ last'.cmd = "PTTL" /\ n = left
  \/ last'.cmd = "TTL" /\ left <= 0 /\ n = left
  \/ /\ last'.cmd = "TTL" /\ left > 0
     /\ \/ left <= n * MsPerSecond /\ n * MsPerSecond < left + MsPerSecond
        \/ left + MsPerSecond - 1 > I64Max /\ n <= 0
TtlRepliesHonest ==
  [][last'.cmd \in {"TTL", "PTTL"} => \A k \in last'.keys :
       \/ last'.reply.n = -2 /\ ~Outlives(k)
       \/ last'.reply.n = -1 /\ LiveAtStart(k) /\ data[k].expires_at_ms = 0
       \/ \E t \in clock..clock' :
            /\ Live(data, k, t) /\ data[k].expires_at_ms # 0
            /\ Tells(last'.reply.n, AsI64(data[k].expires_at_ms - t))]_vars

\* EXISTS, DBSIZE and KEYS read the clock once per entry, so an answer is of no single
\* instant; but it lies between what is live at the end and at the start.
Between(n, S, P(_), Q(_)) ==
  Cardinality({x \in S : P(x)}) <= n /\ n <= Cardinality({x \in S : Q(x)})
ScansBracketed ==
  [][/\ last'.cmd = "DBSIZE" => Between(last'.reply.n, Keys, Outlives, LiveAtStart)
     /\ last'.cmd = "EXISTS" =>
          Between(last'.reply.n, DOMAIN last'.arg, LAMBDA i : Outlives(last'.arg[i]),
                  LAMBDA i : LiveAtStart(last'.arg[i]))
     /\ last'.cmd = "DEL" => Between(last'.reply.n, last'.keys, Outlives, LiveAtStart)
     /\ last'.cmd = "KEYS" => /\ {k \in last'.arg : Outlives(k)} \subseteq last'.reply.a
                              /\ last'.reply.a \subseteq {k \in last'.arg : LiveAtStart(k)}]_vars

\* RENAME moves the entry, deadline included, also when both names are the same; it
\* fails only when the source is dead.
RenameMoves ==
  [][last'.cmd = "RENAME" =>
       LET src == last'.arg[1]
           dst == last'.arg[2]
       IN  IF Replied("ok")
           THEN /\ dst \in DOMAIN data' /\ data'[dst] = data[src]
                /\ src \in DOMAIN data' => src = dst
           ELSE ~Outlives(src)]_vars

\* A sweep leaves an entry that was expired when it began only behind SweepLimit others,
\* where it does not reach; it skips none, although it erases while it iterates.
SweepsComplete ==
  [][last'.cmd = "sweep" => \A k \in DOMAIN data' :
       LiveAtStart(k) \/ Cardinality({j \in DOMAIN data : j < k}) >= SweepLimit]_vars

SizeOf(e) ==
  IF e.type = "list" THEN Len(e.value)
  ELSE Cardinality(IF e.type = "hash" THEN DOMAIN e.value ELSE e.value)
SizeIn(d, k) == IF k \in DOMAIN d THEN SizeOf(d[k]) ELSE 0

\* The numbers that HSET, HDEL, SADD and SREM answer account for the change of size
\* of the hash or set, repeated arguments included.
CountsAccountForChange ==
  [][\A k \in last'.keys : Replied("int") /\ (LiveAtStart(k) => Outlives(k)) =>
       LET before == IF Outlives(k) THEN SizeOf(data[k]) ELSE 0
       IN  /\ last'.cmd \in {"HSET", "SADD"} => SizeIn(data', k) = before + last'.reply.n
           /\ last'.cmd \in {"HDEL", "SREM"} => SizeIn(data', k) = before - last'.reply.n]_vars

SetsAmong(ks, Alive(_)) == {k \in ks : Alive(k) /\ data[k].type = "set"}

\* SUNION and SINTER look up each key twice.  They never pass over a key that held
\* another type throughout, and their answer is the union, or intersection, of sets
\* that were live at some time while they ran.
SetAlgebraSound ==
  [][last'.cmd \in {"SUNION", "SINTER"} /\ Replied("array") =>
       LET ks == last'.keys
           kept == SetsAmong(ks, Outlives)
           started == SetsAmong(ks, LiveAtStart)
           Members(S) == UNION {data[k].value : k \in S}
           Common == {v \in Members(ks \cap DOMAIN data) : \A k \in ks : v \in data[k].value}
       IN  /\ {k \in ks : Outlives(k)} \subseteq kept
           /\ last'.cmd = "SUNION" => /\ Members(kept) \subseteq last'.reply.a
                                      /\ last'.reply.a \subseteq Members(started)
           /\ last'.cmd = "SINTER" =>
                last'.reply.a \in IF kept = ks THEN {Common}
                                  ELSE IF started = ks THEN {Common, {}} ELSE {{}}]_vars

-----------------------------------------------------------------------------
(* A claim that does not hold.                                             *)

\* test/store_tests.cpp names its test of lazy expiry "removes key on access", with
\* GET as the access.  GET answers nil but leaves the entry in data_.
AccessRemovesExpired ==
  [][last'.cmd = "GET" => \A k \in last'.keys : ~LiveAtStart(k) => k \notin DOMAIN data']_vars

=============================================================================
