--------------------------- MODULE TransportClient ---------------------------
(***************************************************************************)
(* One client channel (client/client.dart, class TransportClientChannel)   *)
(* with its factory, its registry entry, the completion loop of its worker *)
(* (worker.dart) and the native ring (module TransportRing).               *)
(*                                                                         *)
(* The actors are the user, who issues calls and closes; the worker, which *)
(* is told to shut down; the completion loop; the timeout checker; and the *)
(* kernel.  All but the kernel share one isolate: an action is a run of    *)
(* Dart code between two awaits, a batch of completions is handled without *)
(* an await, and timers run only when the microtask queue is empty.        *)
(*                                                                         *)
(* The buffer pool is abstract here (module BufferOwnership): a call takes *)
(* what is free and otherwise waits.                                       *)
(***************************************************************************)
EXTENDS TransportRing

CONSTANTS
  Kinds,         \* the factories: "tcp", "unix" (unixStream) and "udp"
  Buffers,       \* ids of the buffers of the pool
  Calls,         \* bound: the calls the user issues, each once
  CallKinds,     \* what they may be, if the channel offers it
  TimedEvents,   \* the events whose timeout is configured
  EarlyShutdown  \* whether shutdown may meet an unsettled connect

EventOf == [read |-> "read", write |-> "write", writeMany |-> "write",
            receive |-> "receive", send |-> "send", sendMany |-> "send"]

\* TransportClientConnection and TransportDatagramClient.
Offered(k) == IF k = "udp" THEN {"receive", "send", "sendMany"}
                           ELSE {"read", "write", "writeMany"}

SizeOf(kind) == IF kind \in {"writeMany", "sendMany"} THEN 2 ELSE 1

ASSUME ClientAssumption ==
  /\ Kinds \subseteq {"tcp", "unix", "udp"}
  /\ CallKinds \subseteq DOMAIN EventOf
  /\ TimedEvents \subseteq {"connect", "read", "write", "receive", "send"}
  /\ EarlyShutdown \in BOOLEAN
  /\ IsFiniteSet(Buffers)

VARIABLES
  ch,        \* the fields of the channel, see TypeOK
  listening, \* whether the user listens to the inbound stream
  free,      \* buffers of the pool nobody holds
  payloads,  \* buffers handed to the user as inbound payloads
  call,      \* call[c]: one asynchronous call of the user
  callback,  \* an onDone/onError of the user runs inside the batch
  joined,    \* a later close() awaits _closer
  returned,  \* a close() has returned to its caller
  shutdown   \* the worker: "no", "stopping", then "asked" to close clients

clientVars == <<ch, listening, free, payloads, call, callback, joined,
                returned, shutdown>>
vars == <<ringVars, clientVars>>

ConnectOp == <<"connect", 0>>
Operations == {ConnectOp} \cup ({EventOf[kind] : kind \in CallKinds} \X Buffers)

Closing == ch.phase # "open"            \* _closing
Registered == ch.destroyed = 0          \* _clientRegistry holds the channel

\* Nobody can listen to a channel the factory has not handed out.
HasListener == listening /\ ch.connector = "connected"

\* The outcome of connect() has been dealt with.
ConnectSettled ==
  \/ ch.connector \in {"connected", "disposed"}
  \/ ch.connector = "failed" /\ ch.kind # "unix"

-----------------------------------------------------------------------------
(* When Dart code may run.                                                 *)

\* Code of the user: in a task of its own, or in a callback of the batch.
UserTurn == LoopIdle \/ callback

\* Continuations the isolate runs before the next timer.
MicrotaskPending ==
  \/ \E c \in Calls : \/ call[c].state = "granted"
                      \/ call[c].state = "waiting" /\ free # {}
  \/ ch.closer /\ (ch.phase \in {"awaitCloser", "grace"} \/ joined)
  \/ ch.kind = "unix" /\ ch.connector = "failed"

TimerTurn == LoopIdle /\ ~MicrotaskPending

-----------------------------------------------------------------------------
(* The datagram factory returns a channel at once, the stream factories    *)
(* one that still has to connect.                                          *)
Init ==
  /\ RingInit
  /\ \E k \in Kinds :
       ch = [kind |-> k, pending |-> 0, active |-> TRUE, phase |-> "open",
             closer |-> FALSE, destroyed |-> 0,
             connector |-> IF k = "udp" THEN "connected" ELSE "none"]
  /\ listening \in BOOLEAN
  /\ free = Buffers
  /\ payloads = {}
  /\ call = [c \in Calls |-> [state |-> "idle", kind |-> "read", need |-> 0, got |-> {}]]
  /\ callback = FALSE /\ joined = FALSE /\ returned = FALSE
  /\ shutdown = "no"

Connect ==
  /\ ch.connector = "none"
  /\ ch' = [ch EXCEPT !.connector = "connecting", !.pending = @ + 1]
  /\ Prepare({ConnectOp})
  /\ UNCHANGED <<cq, loopVars, listening, free, payloads, call, callback,
                 joined, returned, shutdown>>

-----------------------------------------------------------------------------
(* read, writeSingle, writeMany, receive, sendSingle, sendMany.            *)

\* TransportChannel.read, write, receive, send: one request per buffer.
Prepared(kind, got) == Prepare({EventOf[kind]} \X got)

\* With all its buffers a call is refused if the channel is closing - the
\* buffers then stay with a call that is over - or prepares its requests.
\*
\* Mutations of Issue: the request is not counted; writeMany counts as one;
\* _closing is not asked any more after the wait for the buffers.
IssueUncounted(c, kind, got) ==
  /\ ~Closing
  /\ call' = [call EXCEPT ![c] =
                [state |-> "issued", kind |-> kind, need |-> 0, got |-> {}]]
  /\ UNCHANGED ch
  /\ Prepared(kind, got)
IssueCountsOne(c, kind, got) ==
  /\ ~Closing
  /\ call' = [call EXCEPT ![c] =
                [state |-> "issued", kind |-> kind, need |-> 0, got |-> {}]]
  /\ ch' = [ch EXCEPT !.pending = @ + 1]
  /\ Prepared(kind, got)

IssueUnasked(c, kind, got) ==
  /\ call' = [call EXCEPT ![c] =
                [state |-> "issued", kind |-> kind, need |-> 0, got |-> {}]]
  /\ ch' = [ch EXCEPT !.pending = @ + SizeOf(kind)]
  /\ Prepared(kind, got)

Issue(c, kind, got) ==
  \/ /\ Closing
     /\ call' = [call EXCEPT ![c] =
                   [state |-> "refused", kind |-> kind, need |-> 0, got |-> got]]
     /\ UNCHANGED <<ch, events, queued, inflight, cancelled>>
  \/ /\ ~Closing
     /\ call' = [call EXCEPT ![c] =
                   [state |-> "issued", kind |-> kind, need |-> 0, got |-> {}]]
     /\ ch' = [ch EXCEPT !.pending = @ + SizeOf(kind)]
     /\ Prepared(kind, got)

\* The call takes what the pool has.  If that is enough it goes on: at once,
\* or in a microtask (writeMany and sendMany await allocateArray even then).
Acquire(c, kind, got, need, resumed) ==
  \E taken \in SUBSET free :
    /\ free' = free \ taken
    /\ \/ /\ Cardinality(taken) = need
          /\ SizeOf(kind) = 1 \/ resumed
          /\ Issue(c, kind, got \cup taken)
       \/ /\ Cardinality(taken) = need
          /\ SizeOf(kind) > 1 /\ ~resumed
          /\ call' = [call EXCEPT ![c] =
               [state |-> "granted", kind |-> kind, need |-> 0, got |-> taken]]
          /\ UNCHANGED <<ch, events, queued, inflight, cancelled>>
       \/ /\ taken = free /\ Cardinality(free) < need
          /\ call' = [call EXCEPT ![c] =
               [state |-> "waiting", kind |-> kind,
                need |-> need - Cardinality(taken), got |-> got \cup taken]]
          /\ UNCHANGED <<ch, events, queued, inflight, cancelled>>

\* The user has the channel once connect() has completed.
Call(c) ==
  /\ UserTurn
  /\ ch.connector = "connected"
  /\ call[c].state = "idle"
  /\ \E kind \in CallKinds \cap Offered(ch.kind) : Acquire(c, kind, {}, SizeOf(kind), FALSE)
  /\ UNCHANGED <<cq, loopVars, listening, payloads, callback, joined, returned, shutdown>>

\* A waiter of the pool is resumed.
Resume(c) ==
  /\ LoopIdle
  /\ call[c].state = "waiting" /\ free # {}
  /\ Acquire(c, call[c].kind, call[c].got, call[c].need, TRUE)
  /\ UNCHANGED <<cq, loopVars, listening, payloads, callback, joined, returned, shutdown>>

Granted(c) ==
  /\ LoopIdle
  /\ call[c].state = "granted"
  /\ Issue(c, call[c].kind, call[c].got)
  /\ UNCHANGED <<cq, loopVars, listening, free, payloads, callback, joined, returned, shutdown>>

ReleasePayload(b) ==
  /\ UserTurn
  /\ listening
  /\ b \in payloads
  /\ payloads' = payloads \ {b}
  /\ free' = free \cup {b}
  /\ UNCHANGED <<ringVars, ch, listening, call, callback, joined, returned, shutdown>>

-----------------------------------------------------------------------------
(* close().                                                                *)

\* close() past its waiting: the inbound stream is closed, which takes until
\* its listener has seen the end, or the channel is destroyed at once.
LeavePending(c) ==
  IF HasListener
  THEN [c EXCEPT !.active = FALSE, !.phase = "draining"]
  ELSE [c EXCEPT !.active = FALSE, !.phase = "closed", !.destroyed = @ + 1]

\* The first close(), up to its first await.
\*
\* Mutation of BeginClose: it does not wait for what is under way.
BeginCloseAtOnce(c, graceful) == LeavePending(c)

BeginClose(c, graceful) ==
  IF c.pending = 0
  THEN LeavePending(c)
  ELSE [c EXCEPT !.active = graceful,
                 !.phase = IF graceful THEN "grace" ELSE "awaitCloser"]

CloseCall(graceful) ==
  \/ /\ ~Closing
     /\ ch' = BeginClose(ch, graceful)
     /\ returned' = (returned \/ ch'.phase = "closed")
     /\ IF ch.pending > 0 /\ ~graceful
        THEN CancelByFd
        ELSE UNCHANGED <<events, queued, inflight, cancelled>>
     /\ UNCHANGED joined
  \/ /\ Closing
     /\ IF ~ch.closer /\ ch.pending > 0
        THEN joined' = TRUE /\ UNCHANGED returned
        ELSE returned' = TRUE /\ UNCHANGED joined
     /\ UNCHANGED <<ch, events, queued, inflight, cancelled>>

UserClose(graceful) ==
  /\ UserTurn
  /\ ch.connector = "connected"
  /\ CloseCall(graceful)
  /\ UNCHANGED <<cq, loopVars, listening, free, payloads, call, callback, shutdown>>

\* gracefulTimeout expires.
GraceTimeout ==
  /\ TimerTurn
  /\ ch.phase = "grace" /\ ~ch.closer
  /\ ch' = [ch EXCEPT !.active = FALSE, !.phase = "awaitCloser"]
  /\ CancelByFd
  /\ UNCHANGED <<cq, loopVars, listening, free, payloads, call, callback,
                 joined, returned, shutdown>>

\* _closer has completed: the first close() goes on.
CloserCompleted ==
  /\ LoopIdle
  /\ ch.phase \in {"awaitCloser", "grace"} /\ ch.closer
  /\ ch' = LeavePending(ch)
  /\ returned' = (returned \/ ch'.phase = "closed")
  /\ UNCHANGED <<ringVars, listening, free, payloads, call, callback, joined, shutdown>>

\* A later close(), which awaited _closer too, returns after the first.
JoinedReturns ==
  /\ LoopIdle
  /\ joined /\ ch.closer
  /\ ch.phase \notin {"awaitCloser", "grace"}
  /\ joined' = FALSE
  /\ returned' = TRUE
  /\ UNCHANGED <<ringVars, ch, listening, free, payloads, call, callback, shutdown>>

\* The listener has seen the end of the inbound stream: close() ends.
InboundDrained ==
  /\ LoopIdle
  /\ ch.phase = "draining"
  /\ ch' = [ch EXCEPT !.phase = "closed", !.destroyed = @ + 1]
  /\ returned' = TRUE
  /\ UNCHANGED <<ringVars, listening, free, payloads, call, callback, joined, shutdown>>

-----------------------------------------------------------------------------
(* The completion loop: _handleCqes, notifyConnect, notifyData.            *)

\* _pending-- and, for the last operation of a closing channel, _closer.
Settle(c) ==
  LET last == c.pending = 1 /\ c.phase # "open"
  IN  [c EXCEPT !.pending = @ - 1, !.active = @ /\ ~last, !.closer = @ \/ last]

HandleConnect ==
  /\ NextCqe
  /\ RemoveEvent
  /\ Head(cq).op = ConnectOp
  /\ ch' = IF ~Registered THEN ch
           ELSE IF ch.active
           THEN [Settle(ch) EXCEPT !.connector =
                   IF Head(cq).result = "zero" THEN "connected" ELSE "failed"]
           ELSE [ch EXCEPT !.pending = @ - 1, !.connector = "failed"]
  /\ callback' = FALSE
  /\ UNCHANGED <<queued, inflight, cancelled, listening, free, payloads, call,
                 joined, returned, shutdown>>

\* A completion that leaves the channel as it is, apart from the counters.
Settled ==
  /\ ch' = Settle(ch)
  /\ RemoveEvent
  /\ UNCHANGED <<queued, inflight, cancelled, joined, returned>>

\* Inactive: the buffer goes back, whatever arrived.
DropData(b) ==
  /\ ~ch.active
  /\ Settled
  /\ free' = free \cup {b}
  /\ callback' = FALSE
  /\ UNCHANGED payloads

\* Data for the user.
DeliverData(b, event) ==
  /\ ch.active
  /\ event \in {"read", "receive"} /\ Head(cq).result = "positive"
  /\ Settled
  /\ payloads' = payloads \cup {b}
  /\ callback' = FALSE
  /\ UNCHANGED free

\* The end of the stream or a read error: the channel closes itself.
EndOfStream(b, event) ==
  /\ ch.active
  /\ event = "read" /\ Head(cq).result # "positive"
  /\ free' = free \cup {b}
  /\ LET settled == Settle(ch)
     IN  \/ /\ Closing
            /\ ch' = settled
            /\ RemoveEvent
            /\ UNCHANGED <<queued, inflight, cancelled>>
         \/ /\ ~Closing
            /\ ch' = BeginClose(settled, FALSE)
            /\ IF settled.pending > 0
               THEN /\ SubmitAndCancel(events \ {Head(cq).op})
                    /\ events' = {}
               ELSE RemoveEvent /\ UNCHANGED <<queued, inflight, cancelled>>
  /\ callback' = FALSE
  /\ UNCHANGED <<payloads, joined, returned>>

\* Mutation of ReceiveError: the buffer is not released.
ReceiveErrorKeepsBuffer(b, event) ==
  /\ ch.active
  /\ event = "receive" /\ Head(cq).result # "positive"
  /\ Settled
  /\ callback' = FALSE
  /\ UNCHANGED <<free, payloads>>

\* A datagram that failed: the error goes to the user, nothing closes.
ReceiveError(b, event) ==
  /\ ch.active
  /\ event = "receive" /\ Head(cq).result # "positive"
  /\ Settled
  /\ free' = free \cup {b}
  /\ callback' = FALSE
  /\ UNCHANGED payloads

\* A write or send ended: onDone or onError of the user may run now.
Outbound(b, event) ==
  /\ ch.active
  /\ event \in {"write", "send"}
  /\ Settled
  /\ free' = free \cup {b}
  /\ callback' = (batch > 1)
  /\ UNCHANGED payloads

\* A completion for a descriptor the registry does not know is ignored.
HandleData ==
  /\ NextCqe
  /\ Head(cq).op # ConnectOp
  /\ LET event == Head(cq).op[1]
         b == Head(cq).op[2]
     IN  IF Registered
         THEN \/ DropData(b)
              \/ DeliverData(b, event)
              \/ EndOfStream(b, event)
              \/ ReceiveError(b, event)
              \/ Outbound(b, event)
         ELSE /\ RemoveEvent
              /\ UNCHANGED <<ch, queued, inflight, cancelled, free, payloads,
                             callback, joined, returned>>
  /\ UNCHANGED <<listening, call, shutdown>>

Peek ==
  /\ TimerTurn
  /\ PeekSubmit
  /\ UNCHANGED clientVars

Collect ==
  /\ PeekCollect
  /\ UNCHANGED clientVars

CheckTimeouts ==
  /\ TimerTurn
  /\ shutdown = "no"
  /\ CheckEventTimeouts({op \in Operations : op[1] \in TimedEvents})
  /\ UNCHANGED <<cq, loopVars, clientVars>>

-----------------------------------------------------------------------------
(* Around the channel.                                                     *)

\* unixStream disposes of a channel whose connect failed; tcp does not.
ConnectErrorHandler ==
  /\ LoopIdle
  /\ ch.kind = "unix" /\ ch.connector = "failed"
  /\ ch' = [ch EXCEPT !.connector = "disposed", !.destroyed = @ + 1]
  /\ UNCHANGED <<ringVars, listening, free, payloads, call, callback, joined,
                 returned, shutdown>>

\* The closer port of the worker: the timeout checker stops, and after the
\* files every client still in the registry is closed.
Shutdown ==
  /\ TimerTurn
  /\ shutdown = "no" /\ ch.connector # "none"
  /\ shutdown' = "stopping"
  /\ UNCHANGED <<ringVars, ch, listening, free, payloads, call, callback, joined, returned>>

ShutdownClient(graceful) ==
  /\ LoopIdle
  /\ shutdown = "stopping"
  /\ EarlyShutdown \/ ConnectSettled
  /\ shutdown' = "asked"
  /\ \/ Registered /\ CloseCall(graceful)
     \/ ~Registered /\ UNCHANGED <<ch, events, queued, inflight, cancelled, joined, returned>>
  /\ UNCHANGED <<cq, loopVars, listening, free, payloads, call, callback>>

Results(op) ==
  IF op = ConnectOp THEN {"zero", "negative"} ELSE {"positive", "zero", "negative"}

Kernel(op) ==
  /\ \E result \in Results(op) : Complete(op, result)
  /\ UNCHANGED clientVars

Next ==
  \/ Connect
  \/ \E c \in Calls : Call(c) \/ Resume(c) \/ Granted(c)
  \/ \E b \in Buffers : ReleasePayload(b)
  \/ \E graceful \in BOOLEAN : UserClose(graceful) \/ ShutdownClient(graceful)
  \/ GraceTimeout \/ CloserCompleted \/ JoinedReturns \/ InboundDrained
  \/ HandleConnect \/ HandleData
  \/ Peek \/ Collect \/ CheckTimeouts
  \/ ConnectErrorHandler
  \/ Shutdown
  \/ \E op \in Operations : Kernel(op)

Spec == Init /\ [][Next]_vars

\* The isolate runs its continuations before any timer, and serves timers
\* and stream events, which compete with the completion loop for its turns,
\* in the order they fall due: hence strong fairness for those.  A listener
\* takes the end of its stream.  The kernel ends what was cancelled; what was
\* not it may leave under way for ever.  The user owes nothing.
Fairness ==
  /\ WF_vars(Connect)
  /\ \A c \in Calls : WF_vars(Resume(c)) /\ WF_vars(Granted(c))
  /\ WF_vars(CloserCompleted) /\ WF_vars(JoinedReturns)
  /\ WF_vars(ConnectErrorHandler)
  /\ WF_vars(Peek) /\ WF_vars(Collect)
  /\ WF_vars(HandleConnect) /\ WF_vars(HandleData)
  /\ SF_vars(InboundDrained) /\ SF_vars(GraceTimeout)
  /\ \A op \in Operations : WF_vars(op \in cancelled /\ Kernel(op))

\* An operation with a timeout that stays in the table is found expired by
\* the periodic timeout checker, until the shutdown of the worker stops it.
Expire(op) == CheckTimeouts /\ op \in events /\ op \notin events'

TimedOperations == {op \in Operations : op[1] \in TimedEvents}
CheckerFairness == \A op \in TimedOperations : SF_vars(Expire(op))

FairSpec == Spec /\ Fairness
TimeoutSpec == FairSpec /\ CheckerFairness

-----------------------------------------------------------------------------
\* Types; _pending never drops below zero, and a batch is never longer than
\* what the completion queue holds.
TypeOK ==
  /\ ch \in [kind : Kinds, pending : Nat, active : BOOLEAN, closer : BOOLEAN,
             phase : {"open", "grace", "awaitCloser", "draining", "closed"},
             connector : {"none", "connecting", "connected", "failed", "disposed"},
             destroyed : Nat]
  /\ events \subseteq Operations /\ queued \subseteq Operations
  /\ inflight \subseteq Operations /\ cancelled \subseteq inflight
  /\ \A i \in 1..Len(cq) : cq[i].op \in Operations
  /\ waiting \in BOOLEAN /\ batch \in 0..Len(cq)
  /\ free \subseteq Buffers /\ payloads \subseteq Buffers
  /\ \A c \in Calls : call[c].got \subseteq Buffers

\* _pending is the number of operations whose completion has not been
\* handled, whoever holds them: ring, kernel or completion queue.  And _closer,
\* which lets close() destroy the channel, has completed only if nothing is
\* under way and nothing can be issued any more.
PendingCountsOutstanding ==
  /\ ch.pending = Cardinality(Outstanding)
  /\ Cardinality(Outstanding) =
       Cardinality(queued) + Cardinality(inflight) + Len(cq)
  /\ ch.closer => Closing /\ ch.pending = 0

\* No operation can escape: what has not completed is in the event table,
\* where cancel_by_fd and the timeout checker find it, or was cancelled.
NothingEscapesCancel == queued \cup inflight \subseteq events \cup cancelled

BufferOf(op) == op[2]
InKernel == {BufferOf(op) : op \in Outstanding \ {ConnectOp}}
GotByCalls == UNION {call[c].got : c \in Calls}

\* The buffers a call keeps although it is over.
KeptByRefused == UNION {call[c].got : c \in {d \in Calls : call[d].state = "refused"}}

\* A buffer has one holder: the pool, the user with a payload, the kernel with
\* one operation, or one call that waits for more or is about to go on.  A call
\* that is over has none, but for one that a close has refused: only what such
\* calls keep is missing from these.
BuffersAreSeparate ==
  /\ free \cap payloads = {}
  /\ InKernel \cap (free \cup payloads \cup GotByCalls) = {}
  /\ GotByCalls \cap (free \cup payloads) = {}
  /\ \A c, d \in Calls : c # d => call[c].got \cap call[d].got = {}
  /\ \A p, q \in Outstanding : p # q => BufferOf(p) # BufferOf(q)
  /\ \A c \in Calls : call[c].got # {} =>
       \/ call[c].state \in {"waiting", "granted"}
       \/ call[c].state = "refused" /\ Closing
  /\ Buffers \ KeptByRefused =
       (free \cup payloads \cup InKernel \cup GotByCalls) \ KeptByRefused

\* Once close() closes the inbound stream nothing is under way and nothing is
\* begun: no completion adds data or an error to the closed stream, or comes
\* for a number that has been given to another channel.
NothingComesAfterTheEnd ==
  ch.phase \in {"draining", "closed"} \/ ch.destroyed > 0 => Outstanding = {}

\* A close() that has begun ends, with the descriptor closed.
CloseTerminates == Closing ~> ch.destroyed > 0

\* An operation with a timeout comes to an end while the worker runs,
\* however silent the peer is.
TimedOperationsEnd ==
  \A op \in TimedOperations :
    op \in Outstanding ~> (op \notin Outstanding \/ shutdown # "no")

Stage == CASE ch.destroyed > 1 -> "closedAgain"
           [] ch.destroyed = 1 -> "closed"
           [] ch.destroyed = 0 /\ Closing -> "closing"
           [] OTHER -> "open"
Lifecycle == INSTANCE ChannelLifecycle WITH stage <- Stage, under <- Outstanding

\* The channel keeps the contract of ChannelLifecycle: nothing starts once a
\* close has begun, and the descriptor goes once, with nothing under way.
LifecycleSpec == Lifecycle!LifecycleSpec

-----------------------------------------------------------------------------
(* What the documentation and the tests say of a close.                    *)

\* When a close() has returned the channel is closed.
CloseMeansClosed == returned => ch.destroyed > 0

NothingUnderWay ==
  /\ ch.destroyed > 0
  /\ \A c \in Calls : call[c].state \in {"idle", "issued", "refused"}

\* After the close every buffer the user does not hold is in the pool.
BuffersComeBack == NothingUnderWay => free \cup payloads = Buffers
=============================================================================
