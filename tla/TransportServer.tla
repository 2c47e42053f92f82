--------------------------- MODULE TransportServer ---------------------------
(***************************************************************************)
(* A server (server/server.dart, TransportServerChannel) with the          *)
(* connections it accepts (TransportServerConnectionChannel), on the ring  *)
(* of their worker.  A TCP server accepts; a UDP server receives and sends *)
(* on its own descriptor.                                                  *)
(*                                                                         *)
(* Descriptors are numbers the kernel gives again as soon as they are      *)
(* closed, and completions find their channel by that number alone: an     *)
(* operation is <<fd, event, buffer>>.  Channel 0 is the server, the       *)
(* others are its connections in the order of their acceptance; the two    *)
(* classes share their close and their counting, hence the operators here  *)
(* that take a channel of either kind.  Turns of the isolate are as in     *)
(* TransportClient.                                                        *)
(***************************************************************************)
EXTENDS TransportRing, FiniteSetsExt

CONSTANTS
  Kinds,     \* of the server: "tcp" (or unixStream), "udp"
  MaxConns,  \* bound: the connections accepted, 1..MaxConns
  Fds,       \* the descriptors connections may get
  Buffers,   \* the pool
  NoBuffer   \* the buffer of an accept, which has none

Server == 0
ListenFd == 0    \* the descriptor of the server, not in Fds
Conns == 1..MaxConns
Channels == {Server} \cup Conns

ASSUME ServerAssumption ==
  /\ Kinds \subseteq {"tcp", "udp"}
  /\ MaxConns \in Nat
  /\ Fds \subseteq Nat \ {ListenFd}
  /\ NoBuffer \notin Buffers
  /\ IsFiniteSet(Fds) /\ IsFiniteSet(Buffers)

VARIABLES
  kind,      \* of the server
  chan,      \* chan[c]: the fields of a channel, see TypeOK
  graceful,  \* the server closes with a gracefulTimeout
  dropped,   \* accepted descriptors nobody will close
  callback,  \* code of the user runs inside the batch
  failing    \* the connection to close when that callback returns, or Server

serverVars == <<kind, chan, graceful, dropped, callback, failing>>
vars == <<ringVars, serverVars>>

AcceptOp == <<ListenFd, "accept", NoBuffer>>
Events(c) == IF c # Server THEN {"read", "write"}
             ELSE IF kind = "udp" THEN {"receive", "send"} ELSE {}
DataOps == (Fds \X {"read", "write"} \X Buffers)
             \cup ({ListenFd} \X {"receive", "send"} \X Buffers)

\* The pool is abstract: any buffer the kernel does not hold may be got.
Unused == Buffers \ {op[3] : op \in Outstanding}

Live(c) == chan[c].phase \notin {"none", "closed"}
Closing(c) == chan[c].phase \notin {"none", "open"}      \* _closing

\* getServer(fd), getConnection(fd): at most one channel.
Registered(fd) == {c \in Channels : Live(c) /\ chan[c].fd = fd}

Fresh(fd) == [fd |-> fd, pending |-> 0, active |-> TRUE, phase |-> "open",
              closer |-> FALSE, awaited |-> "no"]

Init ==
  /\ RingInit
  /\ kind \in Kinds
  /\ chan = [c \in Channels |-> [Fresh(ListenFd) EXCEPT !.phase = "none"]]
  /\ graceful = FALSE
  /\ dropped = {}
  /\ callback = FALSE /\ failing = Server

\* The factories: a TCP server is registered and accepts at once.
Open ==
  /\ LoopIdle
  /\ chan[Server].phase = "none"
  /\ chan' = [chan EXCEPT ![Server].phase = "open"]
  /\ Prepare(IF kind = "tcp" THEN {AcceptOp} ELSE {})
  /\ UNCHANGED <<cq, loopVars, kind, graceful, dropped, callback, failing>>

-----------------------------------------------------------------------------
(* When Dart code may run.                                                 *)

Idle == LoopIdle /\ failing = Server
UserTurn == Idle \/ callback

CloserReady(c) == chan[c].phase \in {"grace", "awaitCloser"} /\ chan[c].closer

\* A close of a connection that the close of the server waits for is over:
\* one it began itself ends with the descriptor, one it joined with _closer.
IsOver(c) ==
  CASE chan[c].awaited = "no" -> TRUE
    [] chan[c].awaited = "closed" -> chan[c].phase = "closed"
    [] chan[c].awaited = "closer" -> chan[c].closer /\ ~CloserReady(c)

ConnectionsReady ==
  chan[Server].phase = "connections" /\ \A c \in Conns : IsOver(c)

TimerTurn == Idle /\ ~ConnectionsReady /\ \A c \in Channels : ~CloserReady(c)

-----------------------------------------------------------------------------
(* Calls of the user.                                                      *)

\* read, writeSingle, writeMany; receive, respondSingle, respondMany, from
\* the moment the call has its buffers.  If the channel or its server is
\* closing by then, TransportClosedException is all that happens.
\*
\* Mutation of Issue: requests are not counted.
IssueUncounted(c, event, got) ==
  /\ Prepare({<<chan[c].fd, event, b>> : b \in got})
  /\ UNCHANGED chan

Issue(c, event, got) ==
  /\ chan' = [chan EXCEPT ![c].pending = @ + Cardinality(got)]
  /\ Prepare({<<chan[c].fd, event, b>> : b \in got})

Call(c) ==
  /\ UserTurn
  /\ chan[c].phase = "open" /\ ~Closing(Server)
  /\ \E event \in Events(c), got \in SUBSET Unused :
       /\ Cardinality(got) \in (IF event \in {"write", "send"} THEN {1, 2} ELSE {1})
       /\ Issue(c, event, got)
  /\ UNCHANGED <<cq, loopVars, kind, graceful, dropped, callback, failing>>

-----------------------------------------------------------------------------
(* close().                                                                *)

\* A close past its waiting: the inbound stream ends first, if it has a
\* listener; then the channel leaves its registry and the descriptor closes
\* (and the server is freed, transport_server_destroy).
Left(k, listens) ==
  [k EXCEPT !.active = FALSE, !.phase = IF listens THEN "inbound" ELSE "closed"]

\* Mutation of Begun: a close does not wait for what is under way.
BegunAtOnce(k, gently, listens) == Left(k, listens)

\* The close of one channel up to its await.
Begun(k, gently, listens) ==
  IF k.pending = 0 THEN Left(k, listens)
  ELSE [k EXCEPT !.active = gently, !.phase = IF gently THEN "grace" ELSE "awaitCloser"]

\* transport_worker_cancel_by_fd for each of the descriptors.
CancelFds(fds) ==
  IF fds = {} THEN UNCHANGED <<events, queued, inflight, cancelled>>
  ELSE CancelEvents({op \in events : op[1] \in fds})

\* A forced close cancels what is under way.
Cancelled(c, gently) == IF chan[c].pending > 0 /\ ~gently THEN {chan[c].fd} ELSE {}

CloseConnection(c, gently) ==
  /\ UserTurn
  /\ chan[c].phase = "open"
  /\ \E listens \in BOOLEAN : chan' = [chan EXCEPT ![c] = Begun(@, gently, listens)]
  /\ CancelFds(Cancelled(c, gently))
  /\ UNCHANGED <<cq, loopVars, kind, graceful, dropped, callback, failing>>

\* The close of the server closes its connections, and waits for those
\* closes; a connection that was closing already may have more to wait for.
CloseServer(gently) ==
  /\ UserTurn
  /\ chan[Server].phase = "open"
  /\ graceful' = gently
  /\ \E listening \in SUBSET {c \in Conns : chan[c].phase = "open"} :
       chan' = [c \in Channels |->
         IF c = Server THEN [chan[c] EXCEPT !.phase = "connections"]
         ELSE IF chan[c].phase = "open"
         THEN [Begun(chan[c], gently, c \in listening) EXCEPT !.awaited = "closed"]
         ELSE IF Closing(c) /\ ~chan[c].closer /\ chan[c].pending > 0
         THEN [chan[c] EXCEPT !.awaited = "closer"]
         ELSE chan[c]]
  /\ CancelFds(UNION {Cancelled(c, gently) : c \in {d \in Conns : chan[d].phase = "open"}})
  /\ UNCHANGED <<cq, loopVars, kind, dropped, callback, failing>>

\* Mutation of ConnectionsClosed: nothing is waited for.
ConnectionsNotAwaited ==
  /\ Idle /\ chan[Server].phase = "connections"
  /\ \E listens \in BOOLEAN : chan' = [chan EXCEPT ![Server] = Begun(@, graceful, listens)]
  /\ CancelFds(Cancelled(Server, graceful))
  /\ UNCHANGED <<cq, loopVars, kind, graceful, dropped, callback, failing>>

\* Then the server turns to its own requests.
ConnectionsClosed ==
  /\ Idle /\ ConnectionsReady
  /\ \E listens \in BOOLEAN : chan' = [chan EXCEPT ![Server] = Begun(@, graceful, listens)]
  /\ CancelFds(Cancelled(Server, graceful))
  /\ UNCHANGED <<cq, loopVars, kind, graceful, dropped, callback, failing>>

\* Mutation of GraceTimeout: the requests are not cancelled.
GraceTimeoutWaits(c) ==
  /\ TimerTurn
  /\ chan[c].phase = "grace" /\ ~chan[c].closer
  /\ chan' = [chan EXCEPT ![c].active = FALSE, ![c].phase = "awaitCloser"]
  /\ UNCHANGED <<ringVars, kind, graceful, dropped, callback, failing>>

\* gracefulTimeout expires.
GraceTimeout(c) ==
  /\ TimerTurn
  /\ chan[c].phase = "grace" /\ ~chan[c].closer
  /\ chan' = [chan EXCEPT ![c].active = FALSE, ![c].phase = "awaitCloser"]
  /\ CancelFds({chan[c].fd})
  /\ UNCHANGED <<cq, loopVars, kind, graceful, dropped, callback, failing>>

CloserCompleted(c) ==
  /\ Idle /\ CloserReady(c)
  /\ \E listens \in BOOLEAN : chan' = [chan EXCEPT ![c] = Left(@, listens)]
  /\ UNCHANGED <<ringVars, kind, graceful, dropped, callback, failing>>

InboundDrained(c) ==
  /\ Idle
  /\ chan[c].phase = "inbound"
  /\ chan' = [chan EXCEPT ![c].phase = "closed"]
  /\ UNCHANGED <<ringVars, kind, graceful, dropped, callback, failing>>

-----------------------------------------------------------------------------
(* The completion loop: notifyAccept, notify, notifyDatagram.              *)

\* Mutation of HandleAccept: only a connection arms the next accept.
HandleAcceptOnce ==
  /\ NextCqe /\ failing = Server
  /\ Head(cq).op = AcceptOp
  /\ LET fd == Head(cq).result
     IN  \/ /\ chan[Server].phase = "open" /\ fd \in Fds
            /\ LET new == Min({c \in Conns : chan[c].phase = "none"})
               IN  chan' = [chan EXCEPT ![new] = Fresh(fd)]
            /\ Prepare({AcceptOp})
            /\ callback' = (batch > 1)
            /\ UNCHANGED dropped
         \/ /\ chan[Server].phase # "open" \/ fd \notin Fds
            /\ RemoveEvent
            /\ callback' = FALSE
            /\ dropped' = dropped \cup ({fd} \cap Fds)
            /\ UNCHANGED <<queued, inflight, cancelled, chan>>
  /\ UNCHANGED <<kind, graceful, failing>>

\* An accepted descriptor becomes a connection, which the acceptor of the
\* user gets, and the accept is armed again whatever its result; but a server
\* that is closing or gone ignores it.
HandleAccept ==
  /\ NextCqe /\ failing = Server
  /\ Head(cq).op = AcceptOp
  /\ LET fd == Head(cq).result
     IN  \/ /\ chan[Server].phase = "open"
            /\ Prepare({AcceptOp})
            /\ IF fd > 0
               THEN LET new == Min({c \in Conns : chan[c].phase = "none"})
                    IN  chan' = [chan EXCEPT ![new] = Fresh(fd)]
               ELSE UNCHANGED chan
            /\ callback' = (fd > 0 /\ batch > 1)
            /\ UNCHANGED dropped
         \/ /\ chan[Server].phase # "open"
            /\ RemoveEvent
            /\ callback' = FALSE
            /\ dropped' = dropped \cup ({fd} \cap Fds)
            /\ UNCHANGED <<queued, inflight, cancelled, chan>>
  /\ UNCHANGED <<kind, graceful, failing>>

\* _pending-- and, for the last operation of a closing channel, _closer.
Settle(k) ==
  LET last == k.pending = 1 /\ k.phase # "open"
  IN  [k EXCEPT !.pending = @ - 1, !.active = @ /\ ~last, !.closer = @ \/ last]

\* A result that goes to the user, or to nobody, and closes nothing.
Settled(c) ==
  /\ chan' = [chan EXCEPT ![c] = Settle(@)]
  /\ RemoveEvent /\ UNCHANGED <<queued, inflight, cancelled>>

Ignored(c) == ~chan[c].active /\ Settled(c) /\ callback' = FALSE /\ UNCHANGED failing

\* Data, a datagram or its error, for the inbound stream.
Received(c, event, result) ==
  /\ chan[c].active
  /\ event = "receive" \/ (event = "read" /\ result > 0)
  /\ Settled(c)
  /\ callback' = FALSE /\ UNCHANGED failing

\* The end of the stream or its error: the connection closes itself.
ReadFailed(c, event, result) ==
  /\ chan[c].active
  /\ event = "read" /\ result <= 0
  /\ LET k == Settle(chan[c])
     IN  IF Closing(c) THEN Settled(c)
         ELSE /\ \E listens \in BOOLEAN :
                   chan' = [chan EXCEPT ![c] = Begun(k, FALSE, listens)]
              /\ IF k.pending = 0
                 THEN RemoveEvent /\ UNCHANGED <<queued, inflight, cancelled>>
                 ELSE /\ SubmitAndCancel({op \in events : op[1] = k.fd} \ {Head(cq).op})
                      /\ events' = {op \in events : op[1] # k.fd}
  /\ callback' = FALSE /\ UNCHANGED failing

\* onDone or onError of the user runs; a connection whose write failed closes
\* itself after it.
Sent(c, event, result) ==
  /\ chan[c].active
  /\ event \in {"write", "send"}
  /\ Settled(c)
  /\ IF event = "write" /\ result <= 0
     THEN callback' = TRUE /\ failing' = c
     ELSE callback' = (batch > 1) /\ UNCHANGED failing

HandleData ==
  /\ NextCqe /\ failing = Server
  /\ Head(cq).op # AcceptOp
  /\ LET op == Head(cq).op
         result == Head(cq).result
     IN  \/ \E c \in Registered(op[1]) :
              \/ Ignored(c)
              \/ Received(c, op[2], result)
              \/ ReadFailed(c, op[2], result)
              \/ Sent(c, op[2], result)
         \/ /\ Registered(op[1]) = {}
            /\ RemoveEvent /\ callback' = FALSE
            /\ UNCHANGED <<queued, inflight, cancelled, chan, failing>>
  /\ UNCHANGED <<kind, graceful, dropped>>

\* After onError: unawaited(close()).
FailedWriteCloses ==
  /\ failing # Server
  /\ failing' = Server /\ callback' = FALSE
  /\ IF Closing(failing)
     THEN UNCHANGED <<chan, events, queued, inflight, cancelled>>
     ELSE /\ \E listens \in BOOLEAN :
               chan' = [chan EXCEPT ![failing] = Begun(@, FALSE, listens)]
          /\ CancelFds(Cancelled(failing, FALSE))
  /\ UNCHANGED <<cq, loopVars, kind, graceful, dropped>>

Peek == TimerTurn /\ PeekSubmit /\ UNCHANGED serverVars
Collect == PeekCollect /\ UNCHANGED serverVars

\* The kernel gives a connection a descriptor that nobody has open.
OpenFds == dropped \cup {chan[c].fd : c \in {d \in Conns : Live(d)}}
             \cup {cq[i].result : i \in {j \in 1..Len(cq) : cq[j].op = AcceptOp}}

\* A result is a number; of others than descriptors only the sign matters.
Results(op) ==
  IF op # AcceptOp THEN {1, -1}
  ELSE {-1} \cup (IF \E c \in Conns : chan[c].phase = "none"
                          THEN Fds \ OpenFds ELSE {})

Kernel(op) ==
  /\ \E result \in Results(op) : Complete(op, result)
  /\ UNCHANGED serverVars

Next ==
  \/ Open
  \/ \E c \in Channels : Call(c) \/ GraceTimeout(c) \/ CloserCompleted(c) \/ InboundDrained(c)
  \/ \E gently \in BOOLEAN :
       CloseServer(gently) \/ \E c \in Conns : CloseConnection(c, gently)
  \/ ConnectionsClosed
  \/ HandleAccept \/ HandleData \/ FailedWriteCloses
  \/ Peek \/ Collect
  \/ \E op \in inflight : Kernel(op)

\* As in TransportClient.  A step that each channel takes once, or each of the
\* operations a close cancelled, needs fairness of all together only.
Fairness ==
  /\ WF_vars(\E c \in Channels : CloserCompleted(c))
  /\ SF_vars(\E c \in Channels : InboundDrained(c))
  /\ SF_vars(\E c \in Channels : GraceTimeout(c))
  /\ WF_vars(ConnectionsClosed)
  /\ WF_vars(Peek) /\ WF_vars(Collect)
  /\ WF_vars(HandleAccept) /\ WF_vars(HandleData) /\ WF_vars(FailedWriteCloses)
  /\ WF_vars(\E op \in cancelled : Kernel(op))

Spec == Init /\ [][Next]_vars
FairSpec == Spec /\ Fairness

-----------------------------------------------------------------------------
\* The type invariant; no _pending drops below zero.
TypeOK ==
  /\ kind \in Kinds
  /\ chan \in [Channels ->
       [fd : Fds \cup {ListenFd}, pending : Nat, active : BOOLEAN,
        phase : {"none", "open", "connections", "grace", "awaitCloser", "inbound", "closed"},
        closer : BOOLEAN, awaited : {"no", "closed", "closer"}]]
  /\ events \cup queued \cup inflight \subseteq DataOps \cup {AcceptOp}
  /\ cancelled \subseteq inflight
  /\ dropped \subseteq Fds
  /\ {graceful, callback, waiting} \subseteq BOOLEAN
  /\ batch \in 0..Len(cq) /\ failing \in Channels

Under(fd) == {op \in Outstanding : op[1] = fd /\ op # AcceptOp}

\* A completion finds the channel that issued its operation, although it
\* carries only a descriptor and descriptors are given again: channels in use
\* have different ones, each counts exactly the operations under way on its
\* descriptor, and a descriptor nobody uses has none.
CompletionsFindTheirChannel ==
  /\ \A fd \in Fds \cup {ListenFd} : Cardinality(Registered(fd)) <= 1
  /\ \A c \in Channels : Live(c) => chan[c].pending = Cardinality(Under(chan[c].fd))
  /\ \A fd \in Fds : Registered(fd) = {} => Under(fd) = {}

\* An open TCP server always has an accept under way, whatever the results of
\* the earlier ones, and has turned into a connection whatever it accepted.
NeverDeaf ==
  chan[Server].phase = "open" /\ kind = "tcp" => AcceptOp \in Outstanding /\ dropped = {}

\* When the server is freed no connection waits for a result any more, in
\* whatever order the closes of the server and of connections began.
ServerOutlivesConnections ==
  chan[Server].phase = "closed" => \A c \in Conns : chan[c].pending = 0

\* Every close ends: of a connection, by the user or after an error, and of
\* the server with all its connections.  (Each of the channels closes once,
\* hence from some time on none is in the middle of it.)
CloseEnds == <>[](\A c \in Channels : Closing(c) => chan[c].phase = "closed")

\* Closing the server closes all connections, those included that are
\* accepted meanwhile.
NoConnectionLost == dropped = {}
=============================================================================
