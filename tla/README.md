# A formal model of dart-tarantool's transport

The repository is a network and file transport for Dart on top of io_uring.
A *worker* is one isolate with one ring: Dart code (`dart/lib/transport`)
prepares requests through a native library (`native/`), and a completion loop
hands the results back to the *channels* (clients, servers, files) that issued
them. This directory holds TLA+ modules of that code, the TLC runs that check
them, and proofs that TLAPS checks.

## 1. Inventory

| component | state | operations | what makes it correct |
|---|---|---|---|
| buffer pool (`buffers.dart`, `transport_buffers_pool.h`) | stack of ids, queue of completers | get, allocate, allocateArray, release | one owner per buffer, no overflow of the stack, no lost wakeup, everybody served |
| payloads (`payload.dart`) | one object per buffer | getPayload, release | a payload's buffer is not in use elsewhere |
| event table and ring (`transport_worker.c`) | hash table of operations, submission and completion queue | read, write, ..., cancel_by_fd, check_event_timeouts, peek, remove_event | whatever is under way can be cancelled; timeouts end operations |
| completion loop (`worker.dart`, `timeout.dart`) | current batch, timers | _listen, _handleCqes, _check | every completion is handled once, by its channel |
| client channel (`client/client.dart`, `client/registry.dart`) | _pending, _active, _closing, _closer, _connector, handler tables | connect, read, write*, receive, send*, notify*, close | close waits for what is under way and no longer, destroys once; no result is lost |
| client factory and provider (`client/factory.dart`, `client/provider.dart`) | counters of a batch | tcp, udp, unix*, writeMany, sendMany | a failed connect leaves nothing behind; one callback per batch |
| server (`server/*.dart`) | as the client, per listener and per connection | accept, read, write*, respond*, close | as the client; an open server accepts; closing a server closes its connections; a completion finds its channel although descriptors are reused |
| file (`file/*.dart`) | as the client; the rounds of a load | read*, load, write*, close | as the client; load returns the whole file, ends, and gives its buffers back |
| transport and worker (`transport.dart`, `worker.dart`, `worker_initialize`, `worker_destroy`) | ports, workers, loop, timer, registries | worker, initialize, shutdown, the closer handler | shutdown ends, and frees a worker once, when nothing uses it |
| sockets (`transport_socket.c`, `_client.c`, `_server.c`, `_file.c`, factories) | descriptors and unix paths of the process, the structure of a channel | the system calls of a set-up, close, destroy | nobody closes what is another's; a set-up that fails leaves nothing |
| hash table (`collections/mhash.h`) | buckets, dirty bits, counters, a shadow during a resize | find, put, del, resize | it is the set of entries it stands for, and its walks end |
| configuration, exceptions, generated bindings | none | | flags in `SocketSetup`; else not modelled |

Channels and pool share one isolate, so they interact by plain calls, by
futures whose continuations are microtasks, and by shared tables. Dart code runs
to its next `await` undisturbed; everything that is hard happens *at* awaits: a
call waits for a buffer and continues in a channel that was closed meanwhile; a
close waits for completions while other calls, timers, the timeout checker
and the shutdown of the worker run; the kernel completes in any order, and what
was cancelled may still succeed. `PROJECT.json` lists each hazard at its line.

## 2. Modules

| module | models | state and actions |
|---|---|---|
| `BufferOwnership` | what the pool promises: who holds which buffer | Ask, Continue, Return |
| `TransportBuffers` | the pool as coded | `ids`, `count` are the C stack; `finalizers` the queue of completers, each as the sequence of callers that await it; `woken` the microtask queue. Request = a call up to its first await, Resume = a microtask, Release = `release()` |
| `TransportRing` | event table, submission queue, kernel, completion queue, batch, for one descriptor | operators that other modules conjoin into their actions: one per function of `transport_worker.c` |
| `ChannelLifecycle` | what a channel promises: open, closing, closed | Start, Finish, BeginClose, EndClose |
| `TransportClient` | one `TransportClientChannel` with its factory, loop, checker and shutdown, on `TransportRing` | `ch` is the record of the Dart fields; `call[c]` is one asynchronous call; see below |
| `TransportServer` | a TCP or UDP server with the connections it accepts, on `TransportRing` | `chan[0]` is the server, `chan[c]` a connection; an operation is `<<fd, event, buffer>>`; see below |
| `TransportWorkers` | a `Transport`, its workers, their ports and their end | `mail` are messages under way; `closer[w][n]` where the n-th run of the closer handler stands, `closing` the channels whose first `close()` is under way, `joined` those of them a run of the handler closes a second time; one action per message and per await |
| `SocketSetup` | descriptors and the unix path between all workers of a process | `owner[fd]`, `path`; `phase[c]` is the next system call of a channel, or what a close during the connect waits for; one action per system call, any may fail |
| `EventMap` | what the event table promises: a set of keys | Add, Remove, Cancel, Expire |
| `EventTable` | `mhash.h` as instantiated by `transport_collections.h`, with the four functions of the worker on it | `table` is the `struct mh_events_t` with its shadow; Put, Del, Resize, Find are functions of it |
| `FileChannel` | one `TransportFileChannel` with `load()` of its provider | `load` holds the arguments and local variables of the call, `chains` the linked reads the kernel has, `events` the inbound stream; KernelReads takes the reads of a chain in order and breaks it at a short one, Deliver is the listener of `load()` |
| `MCTransportBuffers`, `MCTransportClient`, `MCEventTable`, `MCSocketSetup`, `MCTransportWorkers` | instances: callers, symmetry, primes, channels | |
| `OutboundHandlers` | `_outboundDoneHandlers`, `_outboundErrorHandlers`, the counters of `writeMany`, and what a close does to results | Write, Refuse, Close, GraceEnds, Notify (active channel), NotifyInactive; `stage` is `_closing` and `_active` |
| `TransportBuffers_proofs`, `TransportRing_proofs`, `TransportClient_proofs`, `TransportServer_proofs`, `SocketSetup_proofs`, `TransportWorkers_proofs`, `FileChannel_proofs` | theorems about the module of that name, see section 4; those of the ring are lemmas for the client and the server | |
| `Tables_proofs` | theorems about `EventTable` and `OutboundHandlers`, the two places where a request leaves an entry until its result comes | |

`TransportClient` in detail. `ch.pending`, `ch.active`, `ch.closer` are
`_pending`, `_active`, `_closer.isCompleted`; `ch.phase` says where the first
`close()` stands (`open` = not begun, i.e. `_closing` is false; `grace` and
`awaitCloser` = awaiting `_closer` with and without a grace timeout; `draining`
= awaiting `_inboundEvents.close()`; `closed` = past line 297). `ch.destroyed`
counts executions of lines 295-297 (or 218-220 of the factory), which remove
the registry entry, close the descriptor and free the native client. `ch.connector`
is the outcome of `connect()`. A call is `idle`, `waiting` (for a buffer),
`granted` (has its array, continues in a microtask), `issued` or `refused`
(`TransportClosedException`). An action is a run of Dart code between two awaits.
A batch of completions is handled without an await, but callbacks of the user
run inside it (`callback`), and may issue calls, release payloads and close.
Timers run only when no microtask is pending (`TimerTurn`).

`TransportServer` in detail. The record of a channel and its phases are the client's;
the server has the phase `connections` while it awaits `Future.wait` of the
closes of its connections, and `awaited` says for a connection whether the server
waits for the end of a close it began (`closed`) or only joined the `_closer` of
one under way (`closer`), as line 135 does. Registries are not kept apart from the
channels: `Registered(fd)` are those in use with that number. The kernel gives
a new connection any number that is not open, so that numbers come back. A failed
write calls `onError` of the user first and closes afterwards (`failing`,
`FailedWriteCloses`); the acceptor runs in the batch as other callbacks do. The pool is
any buffer the kernel does not hold; the timeout checker, which only adds
cancellations, is left to `TransportClient`.

`EventTable` keeps what decides where a node goes: the hash is the low half of
user_data (`mh_int_t` is 32 bits wide, so that the descriptor is cut off), probing
steps by `1 + k % (n - 1)`, a bucket that was stepped over stays dirty, counters as the
code counts. `memory` says whether an allocation of a put succeeds. Batches are 256
buckets or more in the code and `MinBatch` here.

What is abstracted: the bytes, lengths and addresses; result codes are
`positive`, `zero` or `negative` (a cancelled operation may end with any of them);
descriptor numbers in the client (one channel), whose user_data is the pair
`<<event, buffer>>`; option values and addresses of sockets.

Names that occur right above the definition they belong to and whose comment
begins "Mutation of" are deliberately wrong versions of that definition; TLC
finds the property named in `PROJECT.json` violated when one replaces it. They
are used nowhere else.

## 3. Runs

| run | bounds | shows |
|---|---|---|
| `buffers` | 3 callers of 1 buffer, 1 caller of 1 or 3, twice each, 3 buffers, fair | waiters share a completer, are woken together, lose the race and wait again, arrays are taken in parts; types, integrity, wakeups, service, refinement of `BufferOwnership` |
| `client_safety` | TCP and UDP, 2 buffers, 3 calls of any kind, peek count 2 | counting, cancel coverage, one holder per buffer, nothing under way at the end, lifecycle refinement (which has one destruction), with closes of all kinds, timeouts, and a shutdown at any time |
| `client_liveness` | unix, not closed before its connect is settled, 2 buffers, 2 calls (read with a timeout, write without), peek count 1, fair | a close ends, timed operations end |
| `outbound_linked` | 3 buffers, 2 writeSingle, 2 linked writeMany of 2, a close with or without grace | no false report; no lost one but of an inactive channel |
| `event_table` | 2 descriptors, 3 operations, primes 3, 5, 11, 23, batches of 4 | types and counters, every node is found, walks end, the shadow follows, an added entry is kept, refinement of `EventMap` |
| `sockets` | 2 workers, 5 channels (unix server and client, TCP client, UDP server, file), 3 descriptors, closes at any time | what differs from the options asked for is known, and what a failed set-up or a close leaves behind; each closes only its own, up to the double close of a unix client |
| `workers` | 2 workers, 1 shutdown, 2 of 3 registries used per worker, fair | freed once, unused but by the channels named; the end means destroyed; the shutdown ends but in the cases named |
| `file_load` | files of 0 to 7 bytes, buffers of 2, pool of 3, rounds of 1 to 3, offset 0 or 1, 1 write, fair | content and order, what becomes of the buffers, every load and close ends, with a close at any time |
| `server` | 2 connections, 2 descriptors, 2 buffers, peek count 2, TCP and UDP, fair | counting with reused descriptors, always an accept, order of closes, every close ends |

Why the bounds are enough. Every pattern of waiting, waking and barging in the
pool needs one holder, two waiters (one wins, one loses) and one newcomer: four
callers, and the second call of each. One of them takes an array, so it holds a part
while it waits for the rest; two such callers would run into the first finding.
The client needs one operation in each place (queue, kernel, completion queue)
and one call that waits for a buffer: three calls on two buffers give that, and a
peek count of two makes a batch shorter than the completion queue, as the peek
count of one does with two calls. The code of the channel is the same for a TCP and
a unix client; they differ in what the factory does with a failed connect. `MaxCalls`,
`Calls`, `Singles` and `Batches` bound how often the user calls, nothing else
does. `client_safety` uses symmetry of buffers and calls, the fair runs none.

The table needs collisions (two operations hash alike modulo the small primes), dirty
buckets, a resize that takes several steps and one that takes one: primes 3 to 23
with batches of 4 give them, and six keys fill the table beyond its limit. In
`sockets` three numbers among five channels are reused at once and run out; number 0
is free or taken at the start. Two workers are enough for messages that overtake
each other; in `server` the second connection gets the number of the first or
lives next to it, and two buffers put two operations on one or on both. The sizes
of `file_load` are empty, less than a block, at the end of a block and beyond it, for
rounds shorter than, equal to and longer than the file; the write makes the file
grow past any of these while it is read, and takes a buffer of the pool.

`CHECK_DEADLOCK FALSE` everywhere but in the event table, which is never done: when the
bounded calls are done and the channels are closed nothing more has to happen.

Fairness. The isolate drains its microtask queue (weak fairness of
continuations: `Resume`, `Granted`, `CloserCompleted`, `JoinedReturns`,
`ConnectErrorHandler`); `_listen` comes back to `_handleCqes` after every delay
(`Peek`, `Collect`, `HandleConnect`, `HandleData`); timers and stream events are
served in the order they fall due, although the completion loop competes for the
turns (strong fairness of `GraceTimeout`, `InboundDrained` and, with
`TimeoutSpec`, of the timeout checker finding an expired entry). A listener takes
the end of its stream. The kernel completes what it was asked to cancel; it owes
nothing for the rest, and the user owes nothing. In the pool the kernel ends what it
was given, so a call that has its buffers releases them (`Release`);
`EveryCallServed` also needs the bound on calls: an endless stream of `get()`
may overtake a waiter for ever, and nothing in the code prevents that.
In `server` the same assumptions appear once for all channels, because each step they
are about happens once per channel or cancelled operation. In `workers` messages
arrive, a handler that can go on does, and a close that a registry waits for
ends - which is what `CloseTerminates`, `CloseEnds` and `CallsEnd` say of them - but that of a
client that was connecting when it was closed and still is, of which the finding
`client_shutdown_connecting` says the opposite: `EndClose` is not enabled for it, and `ShutdownEnds`
excepts it (`Spoiled`). Whether the
user opens, closes or throws is open. In `file_load` the kernel ends every read and
write: a file, unlike a socket, waits for nobody.

### Where the code departs from what is said about it

These runs end in a counterexample; each finding in `PROJECT.json` quotes the statement.

- `client_shutdown_connecting`: a forced close during a connect sets `_active = false`; `notifyConnect` then never completes `_closer`, and `shutdown` hangs.
- `event_table_cancel`: `cancel_by_fd` collects bucket indexes, then deletes them one by one. A delete moves a resize on; when it moves the last batch the nodes are elsewhere, and the remaining indexes name other entries or none. In the counterexample closing `f1` ends the resize with its first delete, and a later one hits the read of `f2`, which keeps running without a timeout. (An entry of `f1` stays behind, too.) Resizes are rare (256 buckets per operation), but the table of a long-lived worker does resize, because dirty buckets are only ever added in between.
- `server_lost_connection`: a TCP server counts no accept (`_pending` stays 0), so its close neither waits for the accept nor cancels it. What it accepts afterwards is dropped without being closed. The request also still points into the server structure, freed by then, and if a new server gets the same descriptor it takes the stale completion for its own and arms a second accept.

Other departures follow from the definitions in these modules and are not among the runs:

- Two `writeMany(2)` on a pool of two take one buffer each and wait for ever: `EveryCallServed` with two callers of arrays.
- A TCP client whose connect failed stays open and registered until the worker shuts down (the phase `notConnected` of `SocketSetup`, factory.dart:78); errors.mdx:8 says it closes.
- A TCP client closed by force while it connects keeps its descriptor for ever: the phase `stuck`, the other side of `client_shutdown_connecting`.
- A call that waits for a buffer while its channel closes, and every call after that, takes a buffer and keeps it (client.dart:59; shutdown.dart:37 of the tests expects none in use): `BuffersComeBack` of `TransportClient` fails, and `BuffersAreSeparate` says that only such calls keep theirs. Connections and files do the same.
- A graceful shutdown that meets a failing connect of a unix client closes and destroys it twice, once in `close()` and once in the factory (factory.dart:218-220). The second close takes whatever has the number by then, the second destroy frees freed memory. `ClosedTwice` is the exception in `ClosesOnlyOwn` and `LeftoversAreKnown`, which fail without it; what the process does after the double free is not modelled (`FreedTwice`). `LifecycleSpec` of `TransportClient` fails with `Kinds = {"unix"}` and `EarlyShutdown = TRUE`.
- Results of writes that come when the channel is inactive - a forced close, a grace that is over, the end of the inbound stream - are dropped: neither `onDone` nor `onError` is called (client.dart:264). It is the exception in `NoLostReport`, and no other result is lost with linked batches.
- Close-on-exec has no effect, because `F_SETFL` ignores it (02-configuration.mdx:50); a TCP client never sets `TCP_NODELAY` (:59); the keepalive interval is set to the idle time if there is one, and never to what was asked (:64). `Departures` and `Unasked` in `OptionsAreKnown`.
- A shutdown frees a worker that is still in use: `close()` of a channel that is closing already returns at once when nothing is pending, which for a TCP server is always (server.dart:372-377), and otherwise with `_closer`, before the stream has drained. The registry waits for this second `close()`; the first one still has connections, grace timers and `cancel_by_fd` before it. So does a channel opened after its registry was passed. `joined` and `late` in `NothingUsesAFreedWorker`.
- A load whose first round goes beyond a file that fills its last block loses a buffer: the read that comes back empty is not delivered any more (`ReadsPastTheEnd` in `BuffersComeBack` of `FileChannel`).
- A forced close during a load, or one whose grace ends, leaves the future of `load()` without a result (`Forgotten` in `CallsEnd`).
- Beyond 4 GiB a load reads the beginning of the file again: `LoadReturnsFile` with `OffsetLimit = 4`.
- One call for more buffers than the pool has waits for ever (`ArraySize` above `BuffersCount`).
- A later `close()` returns while the first still drains the inbound stream: `CloseMeansClosed`.
- An unlinked batch in which an error comes before a success reports nothing (`NoLostReport` with `Linked = FALSE`), and a handler left by an earlier write is called for a later one without handlers on the same buffer (`NoFalseReport` with `Handlers` free).
- A second `shutdown()` destroys each worker twice: `NothingUsesAFreedWorker` with `Shutdowns = {1, 2}`.
- A shutdown never ends if a worker's set-up failed, was not finished when the message came, or its loop was ended by a callback that threw, or a client was closed while it connected: the disjuncts of `Spoiled` in `ShutdownEnds`.
- Closing a unix client unlinks the path of its server, a refused socket option leaks the socket, number 0 is not taken for a descriptor: the exceptions in `LeftoversAreKnown`.

`EarlyShutdown`, `Linked`, `Handlers` and `Shutdowns` are the constants that keep their cases
out of the passing runs (the unlinked batches and the missing handlers are therefore not what `NoLostReport`
and `NoFalseReport` are checked for); the others are written into the properties as exceptions, so that the
property says there is nothing else.

## 4. Proofs

Every theorem holds for all values of the constants the module's assumption admits
(any number of callers, channels, workers, descriptors, any sizes), under the
hypotheses in the third column if there are any.

| module | theorem: property | hypotheses |
|---|---|---|
| `TransportBuffers_proofs` | `PoolInvariant`; `TypeCorrect`: `TypeOK`; `UniqueOwnership`: `PoolIntegrity`; `PushAlwaysFits`: `PushFits` (implied by the integrity); `WakeupsAreNotLost`: `NoLostWakeup`; `EveryWaiterIsParkedOnce`: `ParkedOnce`; `PoolImplementsOwnership`: `OwnershipSpec` | |
| `TransportClient_proofs` | `ClientInvariant`; `ClientTypeCorrect`: `TypeOK`; `PendingIsOutstanding`: `PendingCountsOutstanding`; `NothingEscapes`: `NothingEscapesCancel`; `BuffersHaveOneHolder`: `BuffersAreSeparate`; `NothingIsUnderWayAfterTheEnd`: `NothingComesAfterTheEnd` | |
| | `ImplementsLifecycle`: `LifecycleSpec` | no unix clients, or none closed before its connect is settled |
| `TransportServer_proofs` | `ServerInvariant`; `ServerTypeCorrect`: `TypeOK`; `CompletionFindsItsChannel`: `CompletionsFindTheirChannel`; `ServerIsNeverDeaf`: `NeverDeaf`; `ServerClosesLast`: `ServerOutlivesConnections` | |
| `SocketSetup_proofs` | `SocketInvariant`; `SocketTypeCorrect`: `TypeOK`; `OptionsAreAsAsked`: `OptionsAreKnown`; `OnlyKnownLeftovers`: `LeftoversAreKnown`; `OnlyOwnIsClosed`: `ClosesOnlyOwn` | |
| `TransportWorkers_proofs` | `WorkersTypeCorrect`: `TypeOK` | |
| | `WorkersInvariant`; `NoUseAfterFree`: `NothingUsesAFreedWorker`; `ShutdownMeansDestroyed`: `EndMeansDestroyed` | `Shutdowns = {1}` |
| `Tables_proofs`, handlers | `CounterInvariant`; `HandlersTypeCorrect`: `TypeOK` | |
| | `ReportInvariant`; `NothingFalseIsReported`: `NoFalseReport`; `NothingIsUnreported`: `NoLostReport` | `Linked`, every write gives both handlers |
| `Tables_proofs`, event table | `FewKeysAreRoomy`: always `Roomy` | no more than `Capacity` keys |
| | `TableInvariant`; `TableTypeCorrect`: `TableTypeOK`; `EntriesFound`: `EntriesAreFound`; `WalksAreFinite`: `WalksEnd`; `ShadowIsFaithful`: `ShadowFollows`; `AddedKept`: `AddedIsKept`; `TableImplementsMap`: `ImplementsEventMap`; `TimeoutsSurviveWhenSettled`: what `TimeoutsSurvive` says, outside of a resize | `[]Roomy`: never more than `Capacity` entries |
| `FileChannel_proofs` | `FileInvariant`; `FileTypeCorrect`: `TypeOK`; `BuffersReturn`: `BuffersComeBack` | |
| | `LoadIsTheFile`: `LoadReturnsFile` | no read begins at `OffsetLimit` or beyond |
| | `SmallFilesAreRead`: `LoadReturnsFile` | the file, however it grows, and the offset end a round before `OffsetLimit` |

The hypotheses are the configurations outside of which the property is false (the
list at the end of section 3): a second `shutdown()` frees twice, a unix client closed while it connects is closed again, unlinked batches lose reports, a
write without handlers runs into what an earlier one left, an offset is cut to 32 bits. `Roomy` is of
another kind. The last number of `__ac_prime_list` is 4294967291; once a table of that size is at its upper
bound it can only be moved to one of the same size, and `Capacity` is how many entries that leaves room for
while they move: 2989699887 with the code's numbers. A node takes 32 bytes, so this is more than 90 gigabytes
of requests under way; what the table does beyond that is not claimed. The instance of `event_table` has
6 keys and a `Capacity` of 10, so that there, by `FewKeysAreRoomy`, the hypothesis holds of every state.

**Pool.** The inductive invariant is `PoolInv == TypeOK /\ PoolIntegrity /\ NoLostWakeup`.
The types alone are not inductive: that `count + 1` stays within the array needs
the stack to have no duplicates and not to hold the buffer being released, a
pigeonhole argument (lemma `RoomForHeld`: were the stack full, its entries would
be all the ids, the released one among them). `NoLostWakeup` carries that there is at
most one completer, so that completing the last one wakes everybody.
`PopKeepsOwnership` and `PushKeepsOwnership` say what a pop of any height and a push
do to ownership; `AllocateKeepsPool` serves both a new call and a resumed one.
`ParkedOnce` is inductive next to `PoolInv`: with at most one completer the queue
of completers is one sequence of callers (`Waiters`), a release moves it behind the
microtask queue (`ParkedConcat`), a microtask takes its head off (`ParkedTail`), and
a caller that has to wait is appended (`ParkedAppend`). The refinement maps a
synchronous run of `allocate` to one `Take` (`AllocateIsTake`), a release to a
`Return`, and a microtask to a `Continue`, which is enabled because `ParkedOnce`
says that the caller still waits.

**Ring.** `RingInv` places every operation in exactly one of submission queue, kernel
and completion queue, and says that what has not completed is in the event table or
was cancelled. There is one lemma per function of `transport_worker.c`: it keeps
`RingInv`, and moves the set `Outstanding` in this way. Client and server cite these
lemmas instead of opening the ring again.

**Client.** `ClientInv` is `RingInv` with the count (`Counted`), what may be under way in each
stage of `connect()` and `close()` (`Stages`), and what each call holds (`CallsHold`,
`BuffersHeld`). The count is not inductive alone: a call can count its requests as new
only because its buffers are with nobody else, and a completion for a channel that left the
registry changes nothing only because `Stages` excludes that there is one. `ImplementsLifecycle`
shows that each step is one of `ChannelLifecycle` or a stutter; that `EndClose` comes when nothing
is outstanding is `Stages` again. That a channel is not destroyed a second time needs `GoesOnce`:
between `close()` and the error handler of `unixStream` only one ever destroys it, if no close
begins before the connect is settled. `BuffersAreSeparate` needs `RefusedWhileClosing` besides `ClientInv`: a
call can be refused only by a close, and no close is taken back.

**Server.** A completion names its channel by a descriptor alone. `CountInv` says of all channels
at once that those in use have different descriptors, that each counts what is
under way on its own, and that nothing is under way on a descriptor nobody uses: a
close that forgot a request would break the last part when the number comes back.
It needs `AcceptInv`: between the accept in the kernel and the callback in Dart a number belongs
to a completion only. `CloseInv` is what the close of the server may rely on.

**Sockets.** A number says nothing by itself, since the kernel gives it again.
`DescriptorInv` says in each phase of a channel whose its number is; `PathInv` that a bound path is the
server's as long as no client has unlinked it; `OptionInv` that an option asked for is in
effect or still to be set. That two channels never hold one number follows from these and the kernel's
choice of the least free one (a least element exists by well-foundedness). After a `ClosedTwice` the number
may be another channel's: from there on `SocketInv` claims the types and the options only.

**Workers.** No line of the code relates the messages a port counts to the workers they come from.
`ShutdownInv` does: the workers that were told are those that are waited for (`Told`), and `received`
counts those whose message has arrived (`Heard`), each once. `HandlerOf` says how far the closer handler
of a worker is and what that excludes: a timer, the loop, an open channel in a registry behind it that is
neither late nor joined.

**Handlers.** Without any hypothesis: a batch has counted no more calls than its size less the table
entries that can still call it, because an entry is used up by the call it causes. With linked batches
and both handlers, a result can only extend a run of successes followed by a run of errors; the counters
are the lengths of these runs (`InOrder`), and a buffer under way has the handlers of its own write
(`OwnHandlers`). Once the channel is inactive every result is dropped: the counters stand still, and what a
batch has not counted by then is under way or dropped (`Rest`).

**Event table.** The invariant `TableInv` has three layers.
One array is `Sound` when size and n_dirty count what they should, no key is in two buckets, and every node is
`Chained`: the buckets before it on the walk of its key are dirty. A walk adds the same stride modulo the
number of buckets, which is prime (`PrimesAssumption`, which the 31 numbers of the code satisfy and TLC checks for those of the instance) and larger than the
stride; hence it meets no bucket twice (`WalkMeetsOnce`, from Euclid's lemma `PrimeDivides`), and by
a pigeonhole argument every bucket once. So one clean bucket ends every walk (`WalkLeaves`, `FindMisses`), and
a chained node is met before the first clean one (`FindHolds`). `PutSlotIsSound` and `EraseIsSound` say what
the two functions do to an array.
That a clean bucket is left is the second layer, an argument about numbers: a table is grown when its
counter reaches the upper bound, but puts go on while its nodes move. Each comes after a batch, so a resize of n
buckets sees at most (n - 1) / `MinBatch` of them; `Moving` carries this count (`steps`), with how many
nodes there were at the start, and the comment in `mh_start_resize`, that a batch must be at least
1 / (1 - density), is what makes the count small enough for the old array (`StepsBound`), the growth of the list
of primes for the new one. Neither counter is inductive without it.
The third layer is what the shadow holds: everything behind the position, nothing that the table has not
(`Follows`), and what is `Pending` cannot overfill it, since a node that was put meanwhile is not moved again. At the end
nothing is pending, both arrays hold the same keys, each once, and the sizes agree: the `abort()` is not reached.
The refinement follows: a step changes the keys as `EventMap` says, and `DelBucketsIsOK` shows that deleting by
indexes collected before takes exactly their nodes as long as no resize can move them.
The two loops, of `mh_resize` and of the deletion, are recursive functions. That such a function exists and takes its
steps is proved by extending it one step at a time (`LongerMove`, `LongerDel`) and by the least element of a set of
numbers (`MinIsElement`, `NatSetInduction`), which is all the induction the proofs need.

**Files.** `FileInv` says how many parts of a round there are between kernel, queue, stream and listener
(`RoundInv`), that a payload follows full ones only (`OrderInv`), that only a first round asks for
more than is left (`FitsInv`: multiples of the buffer size), and that pool, pending operations and
payloads in the stream together are all buffers (`HeldInv`). `BuffersComeBack` is its case of an idle
channel. `ContentInv` adds the offsets: each payload in the stream, each in the queue, and the next read of the
chain continue where the one before ended, and a cancellation comes only after a result that ends the round or when
the file has been read. `ReachInv` bounds where a read begins: at the offset, or, as `ContentInv` shows of what was
read last, inside the file, and at most a round further.

Each inductive invariant was checked by TLC on the instance of section 3 before it was
proved. All proofs are checked by SMT (Z3), Zenon and, for temporal steps, LS4.

Only model-checked:

- all liveness (`EveryCallServed`, `CloseTerminates`, `TimedOperationsEnd`,
  `ShutdownEnds`, `CloseEnds`, `CallsEnd`): the installed provers do not handle `ENABLED`;
- an event table of more than `Capacity` entries, which no run reaches either;
- what `load()` returns beyond `OffsetLimit`, where it is wrong.

## 5. Plan

In this order; "next" is what the present state lacks.

1. Done: pool, ring, client, handlers; server; event table; sockets; workers; files; with the runs above.
2. Done: the safety properties and the three refinements, for every value of the constants, see section 4.
3. `SubmissionQueue`: `transport_provide_sqe` on a full queue, links, cancellation of
   a linked request that has not started; the clock arithmetic of timeouts.

## 6. Not modelled, and why

The table in section 1 and `components` in `PROJECT.json` name every part. Further
simplifications: callbacks of the user do not throw (an exception inside
`_handleCqes` ends the loop: `_listen` is unawaited and has no handler); a payload is
released once (a second release is a misuse that would push an id twice); the
listener of the inbound stream, if there is one, listens before the first close and
is not paused for ever; the submission queue has room; a cancellation posts no
completion of its own (`IORING_ASYNC_CANCEL_ALL` reports a count, and success is
skipped). The ring, and with it the client, the server and the file, deletes exactly the table entries that `cancel_by_fd`
and the timeout checker collect, and every `add_event` keeps its node. The code does so as long as no resize is moving
the table when entries are deleted (the finding `event_table_cancel`; worker.c:278-284) and memory for the table lasts
(worker.c:128): what the runs of these modules say of cancellation and timeouts (`NothingEscapesCancel`,
`CloseTerminates`, `TimedOperationsEnd`, `CloseEnds`) holds under these two assumptions. In `EventTable` the sum in
`slot += inc` (mhash.h:185) does not wrap around; it can in the code in a table of more than 2^31 buckets. Of files, `read()` without `load()`, a second load (the stream takes one
listener) and a file that shrinks meanwhile are left out. The multicast manager, whose callback keeps using the
native structure of a client, the delays between two peeks, and contents of
configurations are left out.
