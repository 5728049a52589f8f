# Redix: models, checks and proofs

Redix is a single-threaded key-value server that speaks the Redis protocol.
This directory holds TLA+ modules translated from its C++ source under `src/`,
the TLC configurations that model-check them and proofs about them checked by
TLAPS.  File names below are relative to `src/src/` (headers: `src/include/`).

## 1. The system

One thread runs `Server::start`: it opens a signalfd and a listening socket,
registers both with `EventLoop` and enters `EventLoop::run`.  Everything that
happens afterwards happens inside a callback that `run_once` calls for an event
of epoll.  A client's callback calls `Client::on_readable`, which feeds
`RespParser`, turns every complete value into a `Command`, hands it to
`dispatch`, whose handlers call `Store`, and queues the reply;
`Client::on_writable` sends what is queued.

| Component | State it keeps | Operations | Interacts with |
|---|---|---|---|
| Store (`store.cpp`) | `data_`: key -> entry (a string, list, hash or set; `expires_at_ms`) | about 40 methods, one or two per command; `sweep_expired` | reads the wall clock once per lookup; called by the handlers |
| Command handlers (`command.cpp`) | none; the dispatch table and the list of write commands | `parse_command`, `dispatch`, one handler per command, `is_write_command` | called by `Client`; several handlers call the store more than once |
| RESP (`resp.cpp`) | `RespParser::buf_`, bytes not yet parsed | `feed`, `try_parse`, `reset`; the encoders | called by `Client` with what `recv` returned |
| Client (`client.cpp`) | parser, `write_buf_`, `write_offset_`, `state_`, its descriptor | `on_readable`, `on_writable`, `enqueue_response` | reads and writes its socket; called by `Server` |
| EventLoop (`event_loop.cpp`) | epoll descriptor, `callbacks_`, `running_`; during `run_once` a batch of events | `add`, `modify`, `remove`, `run_once`, `run`, `stop` | calls the callbacks, which call it back |
| Glob (`glob_match` in `store.cpp`) | two indices and a remembered star, while it runs | one loop | called by `Store::keys` for every key |
| FileDescriptor (`fd.cpp`) | `fd_` | construction, move, assignment, `release`, destruction | owns every descriptor of the three above and below |
| Server (`server.cpp`) | `clients_`, `listen_fd_`, `signal_fd_`, `ctx_.connected_clients` | `start`, `on_new_connection`, `on_client_readable`, `on_client_writable`, `on_signal`, `close_client`, `shutdown` | owns all of the above |
| Aof (`aof.cpp`) | `fd_`, `buf_`, never set | every method is a stub | `append` is called behind `is_open`; `open` by nobody |
| Rdb, Config | - ; a struct filled once | - ; `parse_config` | `main.cpp`, `Server` |

What is hard, and what has to hold:

* **Store.**  An expired entry stays in `data_` until a mutating lookup of its
  key or a sweep erases it, so "expired" and "absent" must be the same to every
  command; commands read the clock several times, and a key may expire between
  two readings; time spans wrap around 64 bits; counters meet both ends of
  `std::int64_t`; aggregates must vanish with their last element; a command
  that fails must change nothing.
* **Handlers.**  `SET NX/XX` and `SUNION`/`SINTER` test and act in separate
  calls of the store.
* **RESP.**  The parser starts anew at the head of its buffer each time bytes
  come, and must give the same values wherever the stream was cut; what it
  cannot parse must end the connection exactly there.
* **Glob.**  Only the last star is remembered to come back to.
* **FileDescriptor.**  Numbers are reused, so an owner that closes once too often
  closes a stranger's descriptor.
* **Client.**  Requests come, and replies go, in arbitrary pieces; the buffer
  and its offset are reset by one function and extended by another; a
  connection ends with replies still queued.
* **Event loop and server.**  Events are collected before any of them is
  handled, while callbacks close descriptors and accept reuses their numbers;
  epoll's interest in writing has to be switched on and off at the right
  moments or a reply waits for ever; shutdown runs inside a callback; the
  process can run out of descriptors.

`PROJECT.json` lists every component, and each hazard at its line with the
properties that cover it or the reason why none does.

## 2. The modules

```
Keyspace <- Strings <-+                 Sockets <- EventLoop <- Client <- Server
         <- Lists    <- Store            (peers,   (callbacks,  (one      (handlers,
         <- Hashes   <-+  |               kernel)   batch)       client)   properties)
         <- Sets     <-+  |                                           |
         Store <- Queue <- MCQueue                    Service <--------+ implements
         Store <- MCStore                             MCServer
         StoreProofs <- AggregateProofs               ServerProofs <- ServiceProofs
                        (and Queue)

Resp <- Framing  <-+
     <- Encoding <-+- Protocol <- MCProtocol
        Framing  <- FramingProofs <- ProtocolProofs (and Protocol)
(bytes)                             Glob <- MCGlob         FileDescriptor <- MCFileDescriptor
                                         <- GlobProofs                    <- FileDescriptorProofs
```

The modules of the last lines show in detail what the others abstract: `Protocol`
the bytes behind the units of `Client`, `Glob` the pattern of `KEYS`, and
`FileDescriptor` the ownership that `Server` takes for granted when it closes.

### The store

`Keyspace`, `Strings`, `Lists`, `Hashes` and `Sets` model `store.cpp` and the
handlers of `command.cpp`; `Store` composes them and states the properties.

* `data` is `data_`: a function from the keys that have an entry to records with
  the fields of `Entry`.  Key names are natural numbers, their rank in the
  order of the map.  A string is opaque: what the program asks of one is its
  length (`Size`), concatenation (`Concat`) and its reading as an integer
  (`ParseI64`, `TextOf`), which are constants.
* `clock` is the wall clock in milliseconds.  A command is one action, as it is
  one uninterrupted call of `dispatch`; but time goes on while it runs, and so
  an action takes one reading of the clock per call of `now_ms()` in the code,
  each at or after the one before (`Readings`, `t1`, `t2`).  The clock does not
  run backwards; the program would bring expired keys back if it did.
* `last` is the command executed last, its keys and arguments and its reply.
  The properties of one command relate `data`, `data'` and `last'`.
* An operator named after a method (`Incrby`, `Rename`, `Sinter`) gives the map
  after the call and the reply; the action `Handle...` is the handler around
  it.  `HandleRejected` stands for all requests that are answered before the
  store is called.
* 64-bit arithmetic is kept: `U64`, `Wrap`, `I64`, `AsI64` with `I64Max` as a
  constant (3 in the instances, where a 3-bit clock wraps soon).  Where TTL
  adds 999 to a number near the end of the range, the sum is undefined in C++:
  the action may take the exact or the wrapped sum.
* `Queue` is the store with two histories per list, of what was pushed to it at one
  end and popped from it at the other.
* Left out: the order of fields and members in replies and the wording of errors;
  a pattern is the set of names it matches (see `Glob`).

`Sweep` is `Store::sweep_expired`.  Only `Server::tick_periodic_tasks` calls it,
and nothing calls that; it is modelled as an operation of the store that may
run at any time, so every property of the store holds with and without it.

### The server

* `Sockets` is everything outside the program: peers that connect, send, read,
  send bytes that are no RESP, end or reset their connection; the kernel's two
  buffers per socket; the signal.  It is derived from the system calls in
  `client.cpp` and `server.cpp` and external to the source.
* `EventLoop` has `interest` (the kernel's epoll set), `callbacks`, `batch` (the
  events that `run_once` has yet to hand out, at most `MaxEvents`) and `running`.  An event carries
  the connection it was collected for, which the program does not know; only
  a property looks at it.
* `Client` is a record with the fields of the class and operators for its
  methods.
* `Server` has `clients`, `connected_clients`, `services` (the listening and
  the signal descriptor), `handler` (the callback that runs, and how far it is),
  `executed` (requests executed per connection, which stands for the store),
  `aof` and `life`.
* `life` is the way from `main` to the end of the process: the steps of
  `Server::start` in their order (blocking signals, the signalfd and its
  registration, the socket, `bind`, `listen`, registration), then "serving", then
  "stopped", "failed" (a step of `start` failed and `main` returned, `GiveUp`) or
  "killed" (a signal before it was blocked).  Connections reach the backlog from
  `listen` on, before epoll watches it.

A step of the server is the code between two system calls, so that peers and the
kernel act between any two `recv`s, `send`s and `accept4`s of one callback.
Requests and replies are sequences of units, the pieces in which the network may
deliver them; a reply unit names its request, so a lost, repeated or misplaced
piece shows.  `Accept` gives a connection the least free descriptor, as the
kernel does, so numbers are reused at once; it has the `accept4` of a connection and the
`epoll_ctl` that registers it in one step, between which nothing the peer does can be seen.
When that `epoll_ctl` fails (`AddFails`), the Client is in `clients` and counted already, and
the body of `close_client` (`CloseClientOf`) is applied to those tables.

A signal counts as pending only once it is blocked; before that it ends the
process at once.  `GiveUp` closes what was opened so far, as the destructors do.

`Service` is the abstract specification: what one peer may rely on, without
buffers, descriptors or loop.  `ImplementsService` says that `Server` implements
it under the mapping given there, fairness included.

### The protocol

`Resp` is the parser.  `parse_at` calls itself for the elements of an array; `Resp`
has the calls under way as an explicit stack of open arrays (`OpenArray`), and
`ParseStep` is one call of `parse_at` (`ParseAt`), which ends, opens an array or hands
its message to the innermost one, or one array's return with all its elements.
`Parse` is the outcome of as many steps as there are bytes and one, which is enough
(section 5).  A byte is a symbol; numbers are read and written digit by digit and fall
out of range at `I64Max`.  `MaxReserve` is the length from which `reserve` throws,
which the code does not catch: the process ends (`Terminates`).

`Framing` is the part of `Client::on_readable` that feeds the parser: a peer sends
frames (`Send`), `Recv` appends any piece of what it sent to `buf`, `NextValue` takes
one message, `NeedsMore` goes back to `recv`, `Refuses` closes.  `Frames` are pairs of
bytes and what they mean, and give the properties a reference that does not go
through the pieces: `FramingAssumption` says that the parser makes of a frame that is
alone and whole what the frame means.  `Protocol` adds the other part: a command is
made of each value and its reply queued, with the encoders of `Encoding`.  Handlers
that call the store answer with any value of `StoreValues`: a string, an integer, null or
an array of these, which `ProtocolAssumption` says, as no handler nests arrays; sizes fit a
`std::int64_t`, and the peer can hold an array that the server can hold.  `answers` records
of each reply what it is meant to say and where its bytes end in `out`.

### Glob

One action for each branch of `glob_match`, whose variables are those of the code.
`Aligned` says what a match is without saying how it is found: an assignment of a
character of the pattern to each character of the text, monotone, in which stars
may be assigned many characters or none and all others exactly one.

### File descriptors

Objects (`Handles`) live and die in any order; one action per member function.
`open` is the kernel's table, from which the numbers come and to which closed ones
return; `raw` are numbers in the hands of the program, fresh from a call or
released.

## 3. What the runs check

Store runs use keys 1 and 2 (or 1), the clock up to 3 (or 2) and at most two
arguments per command; the range of `std::int64_t` is -4..3
and a second has two milliseconds.

| Run | Instance | Shows |
|---|---|---|
| `lifetimes` | 2 keys, spans 1, 2, 5, 6 (6 is -2 as a signed number) | dead keys stay dead, live ones are safe, TTL and PTTL are honest, also of times beyond the range, DBSIZE, KEYS, EXISTS and DEL count between what lives at their end and at their start, RENAME moves, sweeps leave nothing expired within their limit |
| `lists` | 2 lists, indices beyond both ends, at most 3 pushes | LRANGE agrees with LINDEX; a list used as a queue keeps its order (`Queue` records what was pushed to and popped from each list) |
| `aggregates` | 2 keys that hold hashes or sets, clock up to 2 | counts account for changes of size; emptied aggregates are gone; errors leave no trace; SUNION and SINTER answer about sets that were alive while they ran; a sweep that may visit one entry (`SweepLimit` 1) leaves an expired one only behind another |
| `mixed` | 1 key, commands of all families (ranges and indices only of the last element), the number 3 and a value that is none, spans 1 and 6 | counters are exact or fail; errors leave no trace; types and deadlines change only where they should; nothing is inherited; a live entry is lost or changed only by a command that writes |
| `server` | 2 connections with 2 and 1 requests of 2 units, replies of 2 units, room for 1 unit in a send buffer, batches of all (up to 3) descriptors that are ready, every fault, failing steps of `start` included | replies exactly once and in order, interest in writing exactly when there is something to write, agreement of the four tables of descriptors, no event reaches the wrong client, nothing open after shutdown or a failed start |
| `progress` | the same with half-close, signal and failing start, batches of 4; only one of the two peers is sure to read | its requests are all answered, a signal ends the process whenever it comes, `Service` is implemented |
| `accepting` | 3 connections, 2 descriptors | a connection that finds no descriptor is accepted once one is free |
| `protocol` | streams of up to 3 of 13 frames (commands with empty, tricky and quoted names, nested arrays, null, bad lengths and numbers, a missing line end, an impossible length), cut between any bytes | the values parsed, the frame that ends the connection and the replies do not depend on the cuts, and a peer reads back exactly the replies meant, but for the one that quotes a line end, which is shorter |
| `glob` | all patterns and texts of up to 4 characters over 2 letters, `?` and `*` | a match is found exactly if there is one (unless both hold a `*`), and the loop ends, after no more steps than the product of the lengths, each increased by one |
| `descriptors` | 3 objects, 3 numbers, objects interchangeable | each open descriptor has one owner, none leaks, none is closed twice |
| `lazy_expiry`, `aof_log` | small | claims that do not hold, see section 6 |

**Why the bounds are enough.**  Store properties speak of one step of one or two
keys; every distinction the code makes (absent, live without deadline, live with
one, expired at the first reading, expired between two readings; same or
different keys; first or repeated argument; wrapped or exact sum) occurs with two
keys, two arguments and two or three instants.  The clock stops at `MaxClock`:
later deadlines stay live, deadlines up to it expire.  In the server instances a
request spans two `recv`s, a `recv` can end one request and begin another
(`RecvSize` 2), a reply needs two `send`s, a second reply is queued behind a
half-sent one, and a descriptor is reused by the other connection.  What a
batch leaves to the next one, which takes more ready descriptors than `MaxEvents`, is
left to the proofs, which hold for any `MaxEvents`.  Three frames are enough for one that
is whole, one that is cut and one behind it, and each piece is any number of bytes.
A pattern of four characters has two stars with something behind each, where coming
back to the last one only could go wrong.  The proofs
of section 5 do without bounds.

Every property is paired in `PROJECT.json` with a mutant, a change to a
definition that models code, under which TLC finds the property violated.  The
mutants stand beside the definitions they change.

**Deadlock.**  The runs allow it: instances end when clients have sent all they
may and the clock stands still, and the server stops after a signal.

## 4. Fairness

The store's properties are all safety: a store does nothing by itself.

For the server, `FairSpec` assumes `WF(ServerStep)`: the process gets to run, and a
single thread with non-blocking calls always has a definite next step until it
waits with nothing ready.  No fairness is assumed among events: in the runs of
progress `epoll_wait` reports all descriptors that are ready (`MaxEvents` is no
less than their number), and the batch is handed out in full before the next one.
With more than `MAX_EVENTS` = 1024 ready descriptors the choice among them is the
kernel's, and progress would rest on its fairness; safety is proved for
any choice.  Peers in `Readers` read
what arrives (`WF(Receives)`); the others may stop reading for ever, and
`progress` shows that they hold up nobody.  Nothing is assumed about peers
sending, connecting or failing.  Each peer sends a bounded number of requests,
and this matters: `on_readable` reads until `recv` would block, and a peer that
sends as fast as the server reads would keep the callback, and all other peers
waiting, for as long as it goes on.

`Glob` is one function that runs to its end: `WF(Next)` says that the thread that
runs it goes on.

## 5. Proofs

The theorems hold for every value of the constants that the named assumptions
allow; TLC evaluates the same assumptions in every run.

**`StoreProofs`** proves, for any set of keys and byte strings, any spans, any
width of the integers and any clock bound,

* `TypeCorrect`: `Spec => []TypeOK` (each entry has a value of its type and a
  deadline that fits a `std::uint64_t`), and
* `NeverEmpty`: `Spec => []NoEmptyAggregate`.

The assumptions are `KeyspaceAssumption`, `StringsAssumption`, `ListsAssumption`
and those of the other families: inputs lie in their ranges, and the byte strings
have a length, a reading as a number and a concatenation that is a string.
The inductive invariant is `Inv`: every entry is well typed *and* no aggregate is
empty, there are finitely many entries, fields and members, and the clock is in range.  `NoEmptyAggregate` alone is not inductive: that
LPOP, HDEL or SREM leaves either nothing or something that is not empty follows only
if the value it shortens is a list, a function or a set of the right kind.  The proof
goes up from what all commands share (erasing, storing and updating an entry
keep a good map good), through one lemma per helper and family, to one step
for each operation.

The module goes on to eleven action properties of the store in the same
generality, what a single command may and may not do: `NoRevival`
(`DeadStaysDead`), `NoLiveEntryLost` (`LiveEntriesSafe`), `ErrorsLeaveNoTrace`,
`UpdatesKeep` (`DeadlinesAndTypesKept`), `FreshStart` (`NothingInherited`),
`ExactCounters`, `SetKeepsConditions`, `RenameCorrect`, `TtlHonest`, `ScansHonest`
(`ScansBracketed`) and `SweepLeavesLive` (`SweepsComplete`).  Most of them
follow from one rule, `StepRule`: time does not go back, and each key is either
*spared* (it keeps its entry, or loses one that has expired by the end of the step) or
*written* by a command that names it and answers no error.  It is shown for three
shapes of command, one that reads (`ReadStep`), one that stores something new
(`WriteStep`) and one that changes a live value in place (`UpdateStep`), and there is one lemma
for each command that says which shape it has.  `FreshStart` adds to it what each
creating command makes of a dead key (`BuiltAfresh`), `ExactCounters` what the
counters compute (`CountFacts`) and `TtlHonest` the arithmetic of wrapped time spans
(`PttlFacts`, `TtlFacts`), undefined sums and remaining times beyond the range included.  `ScansHonest` rests on
`ReadingFacts` (what lives when the command ends lived at each reading, and what lived at a
reading lived at the start), so that the counted set lies between two sets, and on
finiteness, so that its size does; for DEL the first mentions of its keys
correspond one to one to the keys (`DelBracketed`).  `SweepLeavesLive` needs that a key with
fewer than `SweepLimit` others before it is visited (`SweepVisitsAll`).

**`AggregateProofs`** goes into what lists, hashes and sets hold:

* `RangesAgree`: `Spec => []RangesAgreeWithIndices`.  For every list and every two
  indices, `Slice` is the interval of positions that `Positions` says, empty or not,
  and the number of positions up to one of them is its place in the range.
* `QueuesKeepOrder`: `QueueSpec => []QueueOrder`.  `QueueInv` adds to `Inv` that the
  keys hold lists only and that the histories are sequences of strings; the order
  then follows from one lemma on pushing and one on popping at either end
  (`QueueAdvances`), where a push of several values at the head reverses them.
* `CountsHonest`: `Spec => CountsAccountForChange`.  `SizeFound` says how large the
  hash or set is that a mutating lookup finds, and one lemma per command adds what
  is new or takes away what was there (`CountAdded`, `CountRemoved`), where repeated
  arguments are one member of a finite set.
* `SetAlgebraHonest`: `Spec => SetAlgebraSound`.  `SetOperationReads` says what two
  lookups of each key guarantee when none was refused, and `IntersectionFound` what
  SINTER makes of sets that are live wherever they are looked up.

**`ServerProofs`** proves, for any number of connections, descriptors, requests and
units, any receive size and any set of faults,

* `TablesAgree`: `Spec => []Registered`,
* `EventsFind`: `Spec => []EventsFindTheirConnection`, and
* `NothingOpenAfterStop`: `Spec => []StoppedMeansClosed`,

from `SocketsAssumption` and `ServerAssumption`, for any `MaxEvents`.  The inductive invariant `IInv` has
one part for each thing that could break them: `OwnersInv` (each accepted connection
has one client), `BacklogInv` (the backlog names waiting connections, each once, so
that none is accepted twice), `HandlerInv` (a client callback has its client),
`LifeInv` (while `start` is under way nothing is registered but its services, and no
loop runs), `BatchInv` and `StopInv`.  `BatchInv` carries the argument about stale events: a
descriptor is named at most once in a batch, the descriptor of the callback that
runs is not in the rest of it, and, while the loop runs, a client descriptor in the
batch still belongs to the connection its event was collected for.  So a
callback can close only its own descriptor, of which no event is left, and
`accept4` can reuse only a number that no event names.  `Shutdown` is the exception,
it closes descriptors whose events remain; that this is harmless needs
`StopInv`, by which nothing is accepted afterwards.  The proof separates steps that
open and close nothing (`QuietStep`) from closing one client (`CloseKeepsInv`),
closing all (`ShutdownKeepsInv`) and accepting (`AcceptKeepsInv`); for a connection that
cannot be registered, `AddFailsUndone` shows that what was put in the tables is taken
back in full.

The second half of **`ServerProofs`** goes on from `IInv` to what the connections carry:

* `RepliesOnceInOrder`: `Spec => []ExactlyOnceInOrder` and
* `InterestAlwaysFits`: `Spec => []InterestFits`.

It begins with units: how numbers divide (`Euclid`, `DivisionShift`), that the
replies to some requests and to the next ones make one sequence (`RepliesExtend`), and
what feeding a client and sending from its buffer add and take away (`FeedFacts`,
`SentFacts`).  `RepliesInv` then speaks of two things.  `GoodSocket` says that what has arrived and
what is under way is a prefix of all replies; unlike the property it also holds of
connections that are closed or reset.  `GoodPair` says that an open client's
unsent bytes are exactly the rest, and that the units it has not read, those its
parser keeps and those it has executed add up to what the peer sent.  `InterestFits` holds only
between callbacks; `InterestInv` says what holds in the middle of one: while a
client reads, replies may wait that epoll does not know of yet, and while it writes, interest in
writing may outlast the last reply.

**`ServiceProofs`** ends the chain.  It proves `ImplementsServiceSafety`: `Spec => Promise!Safety`.
Under the mapping of `ImplementsService` the first state is one of `Service`, and
each step of the server, of its peers or of the kernel is a step of `Service` (`Ask`,
`Serve`, `Answer`, `Relink`) or changes nothing that a peer can see.  It needs
`RepliesInv`: only because the received units are a prefix of the replies is
the next one that arrives the next one that is due.

It also proves `ServerTypeCorrect`: `Spec => []TypeOK` for `Server`.
`RepliesInv` already gives every field its type; `FitsInv` adds the bounds: a parser
keeps less than one request, a send buffer holds no more than fits, nobody has sent
more than it may, and `write_buf_` holds replies to executed requests only.  That the
same holds of what is under way follows from its being part of a prefix of all
replies (`SocketUnits`).

**`GlobProofs`** proves, for any characters and any pattern and text,

* `NoFalseMatch`: `Spec => []MatchesOnly`,
* `NoMissedMatch`: `Spec => []MissesNothing` and
* `LoopBounded`: `Spec => WorkBounded`.

Soundness rests on `SoundInv`: the first `t` characters of the text are aligned
with the first `p` of the pattern, and the first `match` of them with the pattern
up to its last star, which is what coming back needs.  Completeness is the harder
half.  `CompleteInv` speaks of the alignments of the text behind `match` with the
pattern from the last star on (`RestAlignments`; from both beginnings before there
is a star): if the two match at all, there is one.  `EarliestInv` says where the
loop stands among them: what it matched since the star is the earliest place for it,
so no alignment is ahead of the loop, and one that is behind it lets the star take
a character more, which is what coming back tries next.  So nothing is lost by
forgetting the stars before the last.  It needs a text or a pattern without stars (`StarsApart`),
because the code compares characters before it asks for a star.  `LoopBounded` needs no such
condition: with each step either less of the text is left to the last star or less of
the pattern is ahead of the loop (`LeftStep`), and a whole pattern is worth less than one
character of the text (`LeftShrinks`), so that the loop makes no more steps than the
product of the two lengths, each increased by one.

**`FileDescriptorProofs`** proves `DescriptorsOwned`: `Spec => []OneOwner` for any
number of objects and descriptors; the invariant is inductive with the types of
`fd_` and `raw`.

**`FramingProofs`** proves, for any messages and bytes, any nesting of arrays, any
number of frames, any `I64Max` and `MaxReserve` and any size of a `recv`,

* `CutsDoNotShow`: `Spec => []SplitsDoNotShow` and
* `EndsRight`: `Spec => []EndsAtTheRightFrame` for `Framing`,

from `RespAssumption` and `FramingAssumption`.  They rest on two theorems about the
parser alone.  `EveryParseEnds`: of any bytes it makes a message within them, an
error, the exception, or it needs more, and it has decided when `Parse` looks.
`ParseStable`: bytes that come later change nothing it has found; only what is
incomplete depends on them.  Both go by induction over the steps of the parser, which
`Induction` takes from the well-foundedness of the natural numbers, so the depth of
nesting does not matter.  `Reached` bounds them: a parse that is not done has read at
least a byte for each step it took and one more for each array it has open.
`StepParsed` says that this goes on, and that a step which finds enough bytes is the
same step when more follow, where `LinesKept` is the argument that the first line end
stays the first.  The inductive invariant `FInv` has what lies on the wire (`LaidOut`: the
frames, end to end), that the values are those of the first k frames and `buf` what
came behind them (`ParsedUpTo`), and that nothing can be parsed while `recv` is awaited.
`FrameFound` is the step that matters: what the parser finds at the head of `buf` is the
next frame and not a part of it, because a part that could be parsed would be
parsed the same in the whole.

**`ProtocolProofs`** goes from the reading of requests to the replies.  It proves, for any
messages, cuts and values that the store may answer with,

* `RepliesStayFramed`: `ProtocolSpec => []RepliesFramed`, that a peer which reads the queued
  bytes with the parser's own grammar finds one reply for each message, each with its
  meaning and its end,
* `AnsweringOnlyReads`: `ProtocolSpec => Spec`, that a connection of `Protocol` is one of
  `Framing`, and from it `AnsweredConnectionsFramed`, the two properties of `Framing` for
  a connection that answers,

from `RespAssumption`, `FramingAssumption` and `ProtocolAssumption`.  The proof begins with
the encoders and the parser being inverse.  A number written digit by digit is read as
that number (`NumeralDenotes`, `TextRead`); a line, a bulk string and an array are read as
what was written *wherever* in a buffer their bytes lie and whatever follows (`Lies`:
`LineRead`, `PlainRead`, `ArrayReadAs`), where a bulk string may hold anything, line ends
and headers included, and a line may not.  Then it is about what a reply quotes: the
strings of a message are pieces of its bytes (`FoundInBytes`), hence byte strings of
bounded length, and `RepliesSay` concludes that each reply of `Dispatch` says what it
means.  The invariant `RInv` adds to `FInv` that the ends recorded in `answers` lie within
`out`, the last one at its end, and that each reply is read in its turn from there.  A
further reply keeps this for the reason that further requests keep what was parsed:
by `ParseStable`, more bytes behind a reply do not change how it is read
(`AnswerKeeps`).  The exception is the error for an unknown command whose name has a
line end: `BrokenErrorRead` shows that it is read as an error that ends too soon, and
nothing depends on it for the replies before and behind it, whose places are recorded
apart.

Only model-checked:

* everything under fairness (`EveryRequestAnswered`, `SignalStops`, `WaitingAccepted`,
  the end of the loop of `Glob` for which only the bound on its steps is proved, the
  progress part of `ImplementsService`): liveness and
  ENABLED are beyond the proof system.

## 6. Claims that do not hold

* `lazy_expiry`: `test/store_tests.cpp:108` names its test
  `lazy_expiry_removes_key_on_access`, with `store.get` as the access.  `get` uses
  the read-only lookup: it answers nil, and the expired entry stays in `data_`
  until a write to that key (or FLUSHDB) removes it.  No client can tell, but
  memory is not given back.
* `aof_log`: the usage message (`main.cpp:18`) says `--aof  Enable AOF logging`.
  `Aof::open` is a stub nobody calls, so `is_open` is always false and no write is
  ever logged.

A third oddity is no contradiction of any document: `glob_match` compares a
character before it recognises a star, so that the pattern `*` does not match the
key `*a`.  `MissesNothing` is stated for texts and patterns of which one has no star.  In
the same way the error for an unknown command quotes its name unescaped: a name with a line
end cuts that reply short, and the peer would take the rest for another.  `RepliesFramed`
says that this is all that happens: every other reply is what it was meant to be.

## 7. What is not modelled

* **Config**: one pass over `argv` before anything else exists.  **Rdb**: an empty
  file.  **`flush` and `replay` of Aof**: no caller.
* **`tick_periodic_tasks`**: no caller; the sweep it would make is an operation of
  `Store`.
* **The error branch of the callbacks of the listening and the signal descriptor**,
  which shuts the server down on EPOLLERR or EPOLLHUP: the kernel reports them for
  neither.  **Failure of `epoll_wait`** for another reason than a signal:
  it takes a bad argument.
* **Exhausted memory**, but for a length no vector can have, and **the depth of
  nesting** of arrays, which the stack bounds.
* **Texts** of messages beyond what tells replies apart.
* Progress and ENABLED are beyond the proof system and are model-checked only.

## 8. Plan

Done: the store with its command families; the server with its event loop, its
clients, its start and its end; the abstract service; the protocol in bytes; glob
matching; descriptor ownership; the proofs of section 5, by which every invariant that
a passing run checks holds for all values of the constants.  Next:

* `System`: the store behind the server with two clients, if it shows more than
  its parts: commands are atomic, so an order of all commands that respects each
  connection's order is given by construction.
