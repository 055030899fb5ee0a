# TLA+ models of the Cassandra driver

This directory holds TLA+ specifications of the driver: how requests are
multiplexed over a connection, how connections are made, pooled, pinged and
destroyed, how prepared statement ids are cached, what goes over the wire byte by
byte, and how a session gets from its configuration to the answer of a call. TLC
checks each module on a small instance; TLAPS proves the safety properties of all of
them for every instance, and the refinement. `PROJECT.json` lists runs, mutants,
findings, hazards and the source lines every definition stands for.

## The system

| Part | State | Operations | Module |
|---|---|---|---|
| `ConnectionImpl`: requests | `_broken`, `_send_mutex`, one reply queue per stream, receiver task | `Execute`, `ExecutePrepared`, `Prepare`, `BatchExecute` through `ExecuteMessageAsync`; `SendMessage`; `ReceiverLoop` | `Connection` |
| `StreamPool`, `StreamGuard` | queue of free stream ids | `Acquire`, `Release` | `Connection` |
| `Connection::Connect` | socket, `_compressor_ptr` | `TryResolveContactPoint`, `TcpConnect`, `CqlHandshake`, `StartReceiverLoop` | `Handshake` |
| `ConnectionPool` | `_connections`, `_size_semaphore`, task storages, Maintain's locals | `Init`, `Connect`, `DoConnect`, `Push`, `Acquire`, `Release`, `Maintain`, `AcquireImmediate`, `Clear`; `ConnectionImpl::Close` | `ConnectionPool` |
| Prepared statement cache | `_prepared_statements_map` | lookups and puts of `Execute`, `BatchExecute` and the ping, `Invalidate` | `PreparedStatements` |
| `Session`, `SessionImpl` | one pool per node | `CreateTopology`, `FindPool`, `Execute`, `BatchExecute` | `Session` |
| Component, configs, secdist, options | none | schema check, parsing, defaults; `CommandControl` and its builders | `Session` |
| Value codecs | none | write and read integers, strings, bytes, lists, maps | `Wire` |
| Frames, messages, LZ4, column options, result sets, schema changes, exceptions | `_compressor_ptr` | serialize, parse, `CheckError`, access to rows | `Messages`, `Exchange` |
| Query and batch builders | statements and parameter buffers | `AddQuery`, binding | `Session`, `Messages` |
| Samples, metrics | - | - | not modelled |

How they interact: a client task calls the session, which calls the pool of its
first node. `Acquire` returns a raw pointer to the least loaded connection, which
the client keeps for one call, or for two when it prepares first, without owning
it. Inside, a call takes a stream id, starts a send task and blocks on the queue
of that stream; the connection's receiver task fills the queues. Every 30 seconds
`Maintain` takes connections out of the vector, pings them and puts them back.
Deleting a connection starts a close task that cancels the receiver and then
gives the pool's permit back.

What is hard: answers are matched to calls by stream id alone, so everything
depends on when an id may be used again; three kinds of tasks move raw pointers
around; deadlines, cancellation and a silent node interrupt all of them at any
point; the node can forget what the cache remembers.

What makes each part correct:

* connection: an id is never lost or doubled, a caller gets its own answer, one
  caller cannot block the others, every call ends;
* establishment: driver and node agree on compression, a connection that is
  handed out is accepted by the node, the handshake leaves no answer behind;
* pool: a connection has one owner, permits balance, nothing that works is taken
  from a client, the destructor returns and leaves nothing;
* cache: UNPREPARED has a cause, a statement that was forgotten or an id that a
  warning has hidden, and lost statements are noticed;
* wire: a frame ends where its header says, a node reads what was asked, a caller
  reads what the node sent or gets an exception, an error never becomes a result;
* session: one pool per node in order, every connection a pool has lost is
  accounted for, a call with time enough is timed out only by a fault of its node,
  everything started ends.

## Modules

**Connection** - one established connection. `pc`, `sid`, `req`, `task`, `reply`
are the locals of `ExecuteMessageAsync` per caller; `free` is the queue of
`StreamPool`; `queue` is `_received_message_queue_map`; `wire` holds requests the
node has and has not answered; `receiver` and `frame` are `ReceiverLoop`. Requests
carry a number that the code does not have, to tell whose answer an answer is.
One action per blocking point: `Call`, `AcquireStream`/`StreamPoolExhausted`,
`PopReply`/`PopTimeout`, `MarkBrokenAndThrow`/`CheckReply`/`WaitInterrupted`,
`DestroyTask`, `ReleaseStream`; `LockSendMutex`, `SerializeFails`, `SendAll`,
`SendCutShort`, `FinishSend` for the send task; `ReadFrame`,
`DiscardNegativeStream`, `ReadFails`, `StreamOutOfRange`, `PushFrame`,
`PushTimeout` for the receiver. `poisoned` is a history variable: streams released
by a call that was cancelled in `task.Wait()`.

**Handshake** - the task that makes one connection, with a node whose nature
(compression it offers, whether it wants credentials, which addresses lead to it)
is chosen in `Init`. Its final state "established" is the initial state of
`Connection`: `HandshakeLeavesNothing` is what justifies `wire = {}` there.

**ConnectionPool** - the pool of one node. A connection is a number; its life is
`task` (the connect task), `object` (absent, alive, deleted: the close task runs,
closed), `reader`, `broken`. A call inside a connection is one state ("inflight")
that ends with an answer, an exception or a timeout; the detail is in
`Connection`. Use of a deleted connection is undefined behaviour in the code: the
model lets the call go on or the process die (`UseAfterFree`).

**PreparedStatements** - the cache of one pool and the node's own table. An id is
a function of the text, so the cache is a set of texts. The node may forget any
subset of its statements at any time. A PREPARED answer that carries a warning is
read as one of another kind (see `Exchange`): `Prepare` returns an empty id, which
is cached and executed like any other. `blank` are the texts cached with an empty
id, `blanks` those a client is about to execute, `warned` is the history of them.
`Evictions` is what the external NWayLRU may drop: something from a full way, which
the model does not know; a way can be full once `WaySize` texts are cached.

**RequestReply** - what a connection promises the callers that share it, without
streams, queues or tasks: a caller asks, is given at most one answer, leaves; while
the connection is trusted the answer is to what it asked. **ConnectionRefinement**
maps `Connection` to it: `asked` is the request of a caller that is inside
`ExecuteMessageAsync`, `given` the frame it popped, `trusted` is "not marked broken
and no stream left by an interrupted wait". `KeepsPromise` says that `Connection`
implements `RequestReply`; that callers leave in the end is `EveryCallReturns`.

**Wire** - the codecs of `include/cassandra/io` as operators on sequences of bytes.
A byte is a number below the constant `Base`; writers narrow numbers to their width
as the conversions in the code do. A reader is a cursor with an offset and one of
three states: "ok", "throw" (an exception left the parser) and "over" (an unguarded
`memcpy` went beyond the buffer, which is undefined). Only reads of integers are
guarded by `EnsureSize`.

**Messages** - frame header, the bodies of all requests, the parsers of all
responses, LZ4 with its length prefix (the algorithm is a packing that can be
undone), `ReadFrame` with a header or body that is cut off, `CheckError`, what
`Execute`, `ExecutePrepared`, `Prepare`, `BatchExecute` and `CqlHandshake` make of
a response (`Conclude`), and the access to rows.

**Exchange** - one connection seen from the wire. `Send` writes a request,
`Answer` is a node that follows the protocol and may attach a warning, compress or
not, and be cut off after any byte, `Receive` is `ReadFrame` and what the caller is
given, `ReadRows` and `ReadField` are the caller's access, `Finish` goes on to the
next request, further in the handshake, or to a new connection. The node's side
(`Encode*`, `Node*`) is external and written from the protocol as the driver's
parsers use it; it is the reference that the driver's codecs are compared with.

**Session** - the constructor of the component step by step (schema, secdist
document, description of the keyspace, one pool after the other), then calls. A
pool is reduced to counts: connect tasks that are due or have failed, idle
connections that work (`fresh`) or have lost their node without knowing it
(`stale`), the one Maintain is pinging, and the cached statements. A connect task
can fail with every node, and never succeeds with one that is `refusing` (it wants
credentials, or offers no COMPRESSION). `Begin` is `Acquire` with
`CanPrepareStatement`; `Resolve`, `PrepareAnswered`, `Send`, `Answered`,
`AnsweredError` (ERROR, or a response of an unexpected type), `TimesOut` and
`CallCancelled` are the stages and ends of a call, with time in seconds. Puts evict
(`PutInto`), and a ping may prepare its own statement or empty the cache
(`AfterPing`). Nodes go away and come back, and single connections die
(`ConnectionDies`). Two histories serve the properties: `faults` (nodes that were
away or lost a connection) and `misses` (connections that worked and were marked by
a call).

How the modules fit: `Handshake` ends where `Connection` begins; a call of
`Connection` is "inflight" in `ConnectionPool`; the fault-free pool with one client
is what `Session` counts; the frames that `Connection` only numbers are the bytes
of `Exchange`.

Operators introduced by a comment that starts with "Deviation" are not part of any
specification: they are plausible mistakes in the definition that follows them,
which PROJECT.json lists as mutants, one for every property.

`MC*` modules instantiate the specifications for TLC, `*Proofs` modules hold the
theorems about the module they are named after.

## Runs

| Run | Shows | Instance |
|---|---|---|
| `connection` | `StreamsPartitioned`, `ReplyIsOwn`, `PushNeverStalls`, `IdleIsQuiet`, the refinement `KeepsPromise`, `EveryCallReturns`, `DeadReceiverIsNoticed` | 3 callers, 2 streams, 3 requests |
| `connection_cross_talk` | counterexample to `HealthyReplyIsOwn` | 2 callers, 1 stream, 2 requests |
| `pool` | `OneOwner`, `PermitAccounting`, `DanglingOnlyIfBroken`, `DestroyedIsClean`, `MaintainEnds`, `BrokenConnectionLeaves`, `DestructorReturns` | 2 clients, 3 connections, 2 permits |
| `pool_close_active` | counterexample to `NoCloseWithActiveStreams` | 2 clients, 1 connection |
| `pool_null_pointer` | counterexample to `NoNullDereference` | 1 client, 1 connection |
| `pool_min_size` | counterexample to `ReturnsToMinSize` | 1 client, 2 connections |
| `prepared` | `UnpreparedHasACause`, `PingNoticesLoss` | 2 clients, 1 statement and `kPing`, capacity 1, batches of 2, node forgets once, any PREPARED answer may carry a warning |
| `prepared_stale` | counterexample to `StaleIdIsReplaced` | 1 client, 1 statement, capacity 2 |
| `handshake` | `CompressionAgreed`, `EstablishedMeansReady`, `HandshakeLeavesNothing`, `EveryAddressIsTried`, `ConnectEnds` | 3 addresses, every node and description |
| `exchange` | `FrameDelimited`, `RequestUnderstood`, `ReplyIsServers`, `ReadsStayInside`, `ErrorsSurface`, `RowsComeBack` | bytes below 14, 17 requests, answers of every kind, cut after any byte |
| `exchange_warned` | counterexample to `WarningChangesNothing` | as `exchange` |
| `session` | `PoolPerNode`, `EveryLossHasACause`, `TimeoutHasACause`, `CallReturns`, `StartSettles` | 7 documents and 4 configurations in 9 pairs, no control, two controls and what the builders make of them, 2 nodes, 2 calls, 2 faults |

Why the bounds are enough:

* `connection`: more callers than streams make callers wait for ids and find none;
  three requests let a stream be used, abandoned, reused and answered late while
  the other one is busy. `MaxCalls` bounds only the number of requests of a
  behaviour; the theorems hold without it mattering. Two action constraints of
  `MCConnection` keep one of the behaviours that differ only in the names of
  callers or streams, where TLC's own symmetry would not be sound for liveness.
* `pool`: more connections than permits make connect tasks wait and give up; two
  clients share a connection that one of them, or Maintain, finds broken.
* `prepared`: a statement and `kPing` overfill a cache of one, so either evicts the
  other at any point; `PreparedInv` is proved for caches of any shape, and a cache
  with room for both is in `prepared_stale`. Statements of different texts do not
  interact otherwise. `MaxForgets` bounds how often the node forgets; a batch of two
  (`MaxBatch`) has a hit and a miss in either order.
* `exchange`: with `Base` 14 a [short] holds numbers below 196 and all opcodes,
  flags, column types and error codes still fit their fields, so counts that pass
  the limit of 16 bits are lists of 196 elements. The codecs use the base only
  through the widths of fields, and the theorems of `ExchangeProofs` hold for every
  base from 14 on. Column types are nested through every kind of
  type, which makes every branch of `ColumnOption::Parse` call every other kind of
  branch; rows have one or two columns with and without nulls.
* `session`: `NodeDelay` is one second, below Prepare's three. The callers' timeouts
  are on both sides of it and at it: zero, one, two and three, the default. One
  control disables prepared statements and one enables them, and both overrides are
  dropped by a builder or kept. One deployment has two nodes with a pool of one
  connection and a cache of one id, the other a node with two connections and two ways of one
  id; both pools can be emptied by two faults and two calls, and `kPing` and the
  statement evict each other. A batch of two equal statements has a hit in the
  second place, or a miss where the ping has put its own statement or emptied the
  cache in between.

Deadlock is not checked where the system may stop: requests are used up
(`Connection`), the pool is destroyed or the process is dead (`ConnectionPool`),
connecting is over (`Handshake`), the component is destroyed or the process is dead
(`Session`).

## Fairness

* `Connection`: weak fairness of each call's own steps and of each send task.
  Pop, SendAll and StreamGuard have deadlines, so these tasks move on their own.
  Nothing is assumed of the node, of the receiver, or of cancellation.
* `Handshake`: weak fairness of the connecting task; both reads have deadlines.
* `ConnectionPool`: weak fairness of tasks the pool itself starts (connect and
  close tasks, the periodic Maintain, the end of Init) and of the destructor.
  Nothing is assumed of clients, receivers or of the session's owner.
* `PreparedStatements`: weak fairness of the ping; strong fairness of the answered
  case of each of its requests, i.e. pings do not time out every single time.
  Without it a node that never answers hides what it has lost, and its
  connections are marked broken instead. This takes for granted that Maintain has a
  connection to ping: a restart of the node that also drains the pool leaves stale
  ids in a cache that nobody can use any more, and is outside this module.
* `Session`: weak fairness of the constructor, of connect tasks (each ends within
  its time-outs) and of a call's own steps (each wait has a deadline). Nothing is
  assumed of nodes, receivers, Maintain or the client.

## Findings

* A call cancelled in `task.Wait()` returns its stream without marking the
  connection (`connection_cross_talk`): the next caller of the stream can be given
  the answer to the cancelled request. `ReplyIsOwn` shows this is the only way on
  a connection that is not marked.
* `Acquire` deletes broken connections other clients are using
  (`pool_close_active`), against the comment in `Maintain`.
  `DanglingOnlyIfBroken` shows that only marked connections are affected.
* No connection in the pool means a null pointer is dereferenced
  (`pool_null_pointer`); the options document queueing or an error.
* Lost connections are never replaced (`pool_min_size`).
* A statement the node has forgotten stays in the cache (`prepared_stale`).
* A frame with the warning flag is parsed as if its body began with the result.
  An ERROR is not thrown as the exception of its code, and its message is copied
  from beyond the body (`exchange_warned`); rows become an empty result set without
  an exception; `Prepare` returns an empty id, which is cached
  and executed with an UNPREPARED answer for as long as the entry stays
  (`UnpreparedHasACause` names it as one of two causes).

Observations that no run is about, met while modelling:

* A caller that is cancelled while it waits for an answer marks its connection, so
  that the pool is one connection poorer although nothing was wrong with it;
  `EveryLossHasACause` counts these (`misses`).
* Configured credentials are never sent: a node that answers STARTUP with
  AUTHENTICATE is given up (connection_impl.cpp:248), so its pool stays empty;
  component.md:110 says what the credentials are for. In `Session` such a node is
  one of those `refusing`.
* A control with `network_timeout_ms` zero times out at once and costs the pool a
  connection (`misses`); options.hpp:197 says zero means the session default.
  `TimeoutHasACause` says nothing of such calls.
* `network_timeout_ms` is documented as the timeout of the entire operation
  (options.hpp:200), but each PREPARE of a call has three seconds of its own, and
  neither the wait for a stream nor `task.Wait()` counts. No bound on the length of a
  call is claimed.
* `WithExecuteTimeout` and `WithStatementTimeout` drop the override of the prepared
  statement cache; options.hpp:258 says other settings are copied.
* A null read into `std::string` is the empty text; the tutorial says that the read
  crashes (result_set.md:419) and that nulls are `std::optional` (241).
  `RowsComeBack` says nothing of it.
* The setting of the cache is read under "persistentprepared-statement", which the
  schema refuses; "persistent-prepared-statements" of the schema, "sync-start" and
  "max-queue-size" have no effect. "max-ttl-sec" is read, but nothing assigns
  `_expires_at`, so no connection expires.
* A bigint column read as int gives its upper half; row.hpp:140 promises an
  exception for incompatible types. `RowsComeBack` is about compatible types.
* `ResultSet::RowsAffected` of a result without rows dereferences a null pointer;
  the model's caller looks at `Empty` first.
* schema_change.cpp:20 compares `change_type` where it means `target`, so the
  options of a FUNCTION are not parsed; nothing uses them.

## Proofs

Every safety invariant of the runs is a theorem, for any values of the constants
that satisfy the ASSUMEs. Hardly any of them is inductive
alone; each module proves one inductive invariant, one lemma per part with one step
per action, and takes the theorems from it. TLC finds each inductive invariant to
hold on the instances of the runs.

**`ConnectionProofs`**: any sets of callers and streams (the latter finite), any
number of requests. `TypeCorrect`, `StreamsAreConserved`, `RepliesAreOwn`,
`ReceiverNeverStalls`, `IdleMeansQuiet` from `ConnectionInv`, which adds to `TypeOK`:

* `StreamInv`: a stream is free or held by exactly one guard;
* `RequestInv`: request numbers are below `nextReq`, differ between callers that
  are inside a call, and are on no answer before the request is sent;
* `OnceInv`: the answer to a request is at one place only: on the wire, with the
  receiver, in a slot or with a caller;
* `OwnerInv`: on a stream that is not poisoned, of a connection that is not
  marked, an answer in flight belongs to the request of the caller that holds the
  stream, and a caller about to release the stream has its own answer.

The argument is that a call leaves in three ways: with the answer, so that none is
left; without, after `MarkBroken`; or interrupted, which poisons the stream. So on
any other stream the next holder starts with nothing on the way.

**`ConnectionRefinementProofs`**: `ConnectionKeepsPromise`, that `Connection`
implements `RequestReply`. Calls, the pops of a reply and the ends of a call map to
`RequestReply`'s steps; sends, the receiver and the node map to stuttering. That an
answer popped while the connection is trusted is to the caller's own question is
`OwnerInv`; `PromiseInv` adds that request numbers are positive, so that 0 can stand
for "no question" and "no answer" in the mapping, and that a caller has an answer
only after it popped one.

**`HandshakeProofs`**: any number of addresses. `TypeCorrect`, `CompressionIsAgreed`,
`EstablishedIsReady`, `NothingIsLeft`, `AllAddressesAreTried` from `HandshakeInv`.
Nothing in the handshake matches an answer to a request; `TalkInv` says why it need
not: at most one message is on the way, of the kind the phase waits for, and a READY
on the way means that the node took over the choice in the request. `AddressInv`
says of the addresses tried so far that none leads to the node, or time is up.

**`ConnectionPoolProofs`**: any finite set of clients, any sizes. `TypeCorrect`,
`EveryConnectionHasOneOwner`, `PermitsAreAccountedFor`, `OnlyBrokenDangle`,
`DestructorLeavesNothing` from `PoolInv`:

* `OwnerInv`: the vector has no repetitions, and a connection is alive exactly if
  its task is about to push it, it is in the vector, or Maintain has it, of which
  no two hold at once;
* `LifeInv`: an object is made by its connect task; a receiver ends before the
  close task does;
* `BorrowInv`: a pointer a client has is to an object that is alive or marked, and
  clients are gone when the destructor runs;
* `MaintainInv`: `poolSize` is at most `MinSize`. This is what `OnlyBrokenDangle`
  rests on: Maintain counts the vector, the vector has no repetitions, so it never
  finds more connections than `min_size` and never drops an idle one to get there,
  which could be a connection that a client has just been given;
* `StopInv`: when `Clear` runs, connect tasks are over and the vector is empty.

`Acquire` erases what is broken with `Without`, of which the module first proves
what stays, in what number, and that repetitions cannot come of it.

**`PreparedStatementsProofs`**: any clients, statements and capacity.
`UnpreparedIsExplained` and `CacheIsBounded` from `PreparedInv`: every id that is not
empty, in the cache, in a call under way and in an answer not yet looked at, is one
the node has given out, and every empty one was left by a warning (`IdsAreKnown`).
`PutAddsOne` and `PutIsBounded` are the facts about evictions it rests on.

**`SessionProofs`**: any documents, configurations, controls, nodes and statements.
`TypeCorrect`, `EveryNodeHasItsPool`, `LossesAreAccountedFor`, `TimeoutsHaveACause`
from `SessionInv`:

* `StartInv`: what the constructor has established at each step;
* `PoolsInv`, `DrainInv`: the books of each pool, in which the connection that a
  call has borrowed counts, with attempts that failed and connections that calls have
  marked on the other side. Without the borrowed one a call that ends could put back
  a connection that was never taken, and the sums of `EveryLossHasACause` would not
  be preserved;
* `CallInv`: a call whose connection does not work has a node with a fault. This is
  why `TimeoutHasACause` holds: `TimesOut` needs such a connection, or a deadline
  that `NodeDelay` can exceed, which neither Prepare's nor the default is;
* `CountInv`: every miss is a call that was made.

**`WireProofs`**: any `Base` from 14 on, 256 of the code included, any buffer and
any position in it. `StringStaysDelimited`: a string of any length is read back as
the part of it that its narrowed length announces, and the reader stands behind it.
`StringComesBack`, `BytesComeBack`, `StringListComesBack`, `StringMapComesBack`:
within the limits of [short] and [int], strings, byte strings, lists of any number
of strings and maps of strings are read back as they were written. The lemmas go from the digits of numbers (`TwoDigits`,
`FourDigits`) over what is taken from a buffer that holds them (`TakeHeld`) to the
loop of the list (`RepeatIs`, `ConcatIs`), where `Induction` is stated over sets and
follows from well-foundedness. `Weight` in `Wire` stands for powers of the base,
because the provers know nothing of exponents. The second half of the module is what
`ExchangeProofs` needs of buffers: `Spans(data, k, m, j)` says that the bytes m are
at offset k and end at j, and each parser has a lemma that it gets from k to j
(`IntSpan`, `StringSpan`, `StringListSpan`, ...); `LaidOut` gives every part of a
concatenation its place; `Cursor` says of bytes that can be anything that a parser
ends well, in an exception or beyond the buffer, and in no other way.

**`ExchangeProofs`**: any `Base` from 14 on, any requests, any types of columns nested
to any depth, any answers of a node that follows the protocol, cut off anywhere.
`TypeCorrect`, `FramesDelimited`, `RequestsUnderstood`, `RepliesAreServers`,
`ReadsAlwaysInside`, `ErrorsAlwaysSurface` and `RowsAlwaysComeBack` from `IInv`. The
invariant records where bytes came from: a request that is on the wire is what
`Serialize` made of something that may be asked, and from the answer on there is a
cut of the node's frame such that what arrived is its first part and what the caller
was given is what `ReadFrame` and `Conclude` make of that part. The properties speak
of what was meant and what was given and say nothing of the bytes between them, so
none of them is inductive. The invariant being simple, the work is in what the
operators do:

* requests: `BodyFits` (a body is made of bytes and its length fits the header),
  `RequestFramed` (`ParseHeader` reads back every field) and `AskingUnderstood`, by
  the kind of request, with the loops over arguments and statements;
* cut answers: `Concluded`. Where the frame is not complete or not compressed as
  agreed, `ReadFrame` throws, whatever the zeros behind a partial header make of it;
  only a READY, which has no body, can be complete without its last bytes;
* column types: `EncodeType` is a recursive function over types and `TypeEquation`
  shows that its equation has a solution, by induction on `Depth`. `TypeSpan` says
  that `ParseColumnOption` stands behind the last byte of a type: induction on the
  number of bytes (`Goes`), since the parts of a type have fewer. Nothing later in
  an answer would be found if it stood anywhere else;
* answers: `RowsSpan`, `PreparedSpan`, `ChangeSpan`, `OptionsSpan`, `ErrorConcluded`
  parse each kind of body from its first to its last byte; `UnwarnedOutcome` puts
  them together;
* warnings: the body then begins with the count of the warnings, and its first four
  bytes are not the kind of a result that has rows or an id, nor is the name of an
  option read from it COMPRESSION (`WarnedOutcome`), so nothing is taken for rows,
  options or an id that is none. `ReadsAlwaysInside` says nothing of warned answers,
  for which it is false (`exchange_warned`);
* rows: `FieldRead`, `RowRead` and `ContainerRead` go from the bytes of a cell to
  the container of tuples (`ContainerComesBack`) and to a single field
  (`FieldComesBack`).

Assumptions are the named ASSUMEs of the modules: null values are not members of
the sets they stand beside, bounds are natural numbers, the capacity is positive,
`Streams` and `Clients` are finite, and documents, configurations and controls are
what the JSON and YAML parsers and the types of options.hpp let through
(`DocsAssumption`, `ConfigsAssumption`, `ControlsAssumption`; wrong documents and
unknown keys are among them). Those of `Exchange` say what C++ types and the
protocol leave open: numbers have the width of their types and texts a length that
fits a signed [int] (`RequestsAssumption`), a message with its compression fits the
length field of the header, streams are non-negative signed 16-bit numbers and a
warning is not the text COMPRESSION (`ExchangeAssumption`); a type has the parts its
kind needs and is not inside itself (`TypesAssumption`); rows have a cell for each
column, of its type, an option is offered once, and a change of the schema names its
target (`RepliesAssumption`). The limits of [short] for arguments, ids and batches
are not assumed: they are the condition `Fits` of `RequestUnderstood` alone. TLC
evaluates all of them in every run.

Only model-checked is liveness, which the provers cannot do: `EveryCallReturns`,
`DeadReceiverIsNoticed`, `ConnectEnds`, `MaintainEnds`, `BrokenConnectionLeaves`,
`DestructorReturns`, `PingNoticesLoss`, `CallReturns`, `StartSettles`.

## Not modelled

Except in `Session`, deadlines have no length: a timeout can happen whenever what it
waits for has not happened. Metrics, logging, tracing and the log messages of
Maintain are left out, and so are the sample services. `IsExpired` is false: nothing
assigns `_expires_at`. `_wait_count` is never changed, so Maintain never returns
early. The window in which the receiver of a deleted connection still uses the freed
object is not a state of the model. After `SendCutShort` the node reads the frames of
the senders queued behind it out of step with their boundaries; the model lets them
through whole, on a connection that has not been marked yet. A socket that is let go with `Release()` and
never closed has no counterpart. Floating point values and containers as cells are
not modelled: their bytes are copied. `Query` objects are their texts. `Session` runs
one client, and an id that is stale or empty shows in it only as an ERROR answer;
clients that share a pool are in `ConnectionPool` and forgotten statements in
`PreparedStatements`. The sizes of NWayLRU are positive. NWayLRU, LZ4, the
node, sockets, the configuration library and userver's queues, tasks and semaphores
are external and modelled from their use.

## Plan

All modules of the plan are written, and every safety property of the passing runs
and the refinement are proved. Left open: several clients and forgotten statements
in one model with `Session`, and containers and floating point values as cells.
