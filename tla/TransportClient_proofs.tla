------------------------ MODULE TransportClient_proofs ------------------------
(***************************************************************************)
(* Proofs about one client channel (module TransportClient), for every     *)
(* set of buffers and calls, every kind of factory, every peek count and   *)
(* whatever has a timeout.                                                 *)
(*                                                                         *)
(* The inductive invariant ClientInv joins what the ring knows of an       *)
(* operation (RingInv, module TransportRing_proofs) with what the channel  *)
(* counts, the stages of connect() and close(), and who holds a buffer.    *)
(* The counter alone is not inductive: that a completion for a channel     *)
(* that left the registry changes nothing is sound only because none can   *)
(* arrive (Stages), that a call can count its requests as new only because *)
(* its buffers are with nobody else (BuffersHeld).                         *)
(***************************************************************************)
EXTENDS TransportClient, TransportRing_proofs

ResultsOfAll == {"zero", "negative", "positive"}

Records ==
  [state : {"idle", "granted", "waiting", "issued", "refused"},
   kind : DOMAIN EventOf, need : Nat, got : SUBSET Buffers]

Channels ==
  [kind : Kinds, pending : Nat, active : BOOLEAN, closer : BOOLEAN,
   phase : {"open", "grace", "awaitCloser", "draining", "closed"},
   connector : {"none", "connecting", "connected", "failed", "disposed"},
   destroyed : Nat]

ClientTypes ==
  /\ ch \in Channels
  /\ free \subseteq Buffers /\ payloads \subseteq Buffers
  /\ call \in [Calls -> Records]

Counted == ch.pending = Cardinality(Outstanding)

\* What is under way in each stage of connect() and of close().
Stages ==
  /\ ch.connector = "none" => ch.phase = "open" /\ shutdown = "no"
  /\ ch.connector \in {"none", "failed", "disposed"} => Outstanding = {}
  /\ ch.connector = "connecting" => Outstanding = {ConnectOp}
  /\ ch.connector = "connected" => ConnectOp \notin Outstanding
  /\ ch.closer => Closing /\ Outstanding = {}
  /\ ch.phase \in {"draining", "closed"} => Outstanding = {}
  /\ ch.destroyed > 0 =>
       Outstanding = {} /\ (ch.phase = "closed" \/ ch.connector = "disposed")

\* What a call holds in each of its states.
CallHolds(c) ==
  /\ call[c].state \in {"idle", "issued"} => call[c].got = {}
  /\ call[c].state = "granted" => Cardinality(call[c].got) = SizeOf(call[c].kind)
  /\ call[c].state = "waiting" =>
       /\ call[c].need > 0
       /\ Cardinality(call[c].got) + call[c].need = SizeOf(call[c].kind)
  /\ call[c].state \in {"granted", "waiting"} => call[c].kind \in CallKinds
  /\ call[c].state # "idle" => ch.connector = "connected"

CallsHold == \A c \in Calls : CallHolds(c)

\* Who holds the buffers: every one is somewhere, refused calls included.
BuffersHeld ==
  /\ free \cap payloads = {}
  /\ InKernel \cap (free \cup payloads \cup GotByCalls) = {}
  /\ GotByCalls \cap (free \cup payloads) = {}
  /\ Buffers = free \cup payloads \cup InKernel \cup GotByCalls
  /\ \A p, q \in Outstanding : p # q => BufferOf(p) # BufferOf(q)

CallsAreSeparate ==
  \A c, d \in Calls : c # d => call[c].got \cap call[d].got = {}

ClientInv ==
  /\ RingInv(Operations, ResultsOfAll)
  /\ ClientTypes
  /\ Counted
  /\ Stages
  /\ CallsHold
  /\ BuffersHeld
  /\ CallsAreSeparate

-----------------------------------------------------------------------------
(* The names of operations.                                                *)

EventsOfCalls == {"read", "write", "receive", "send"}

LEMMA EventOfType ==
  \A kind \in CallKinds : EventOf[kind] \in EventsOfCalls
<1> TAKE kind \in CallKinds
<1>1. DOMAIN EventOf = {"read", "write", "writeMany", "receive", "send", "sendMany"}
  BY DEF EventOf
<1>2. kind \in {"read", "write", "writeMany", "receive", "send", "sendMany"}
  BY <1>1, ClientAssumption
<1> QED
  BY <1>2 DEF EventOf, EventsOfCalls

LEMMA OperationShape ==
  /\ ConnectOp \in Operations
  /\ \A op \in Operations \ {ConnectOp} :
        op[1] \in EventsOfCalls /\ op[2] \in Buffers /\ op = <<op[1], op[2]>>
  /\ \A kind \in CallKinds, b \in Buffers :
        /\ <<EventOf[kind], b>> \in Operations \ {ConnectOp}
        /\ <<EventOf[kind], b>>[2] = b
<1>1. ASSUME NEW op \in Operations \ {ConnectOp}
      PROVE  op[1] \in EventsOfCalls /\ op[2] \in Buffers /\ op = <<op[1], op[2]>>
  BY EventOfType DEF Operations
<1>2. ASSUME NEW kind \in CallKinds, NEW b \in Buffers
      PROVE  /\ <<EventOf[kind], b>> \in Operations \ {ConnectOp}
             /\ <<EventOf[kind], b>>[2] = b
  <2>1. EventOf[kind] # "connect"
    BY EventOfType DEF EventsOfCalls
  <2> QED
    BY <2>1 DEF Operations, ConnectOp
<1> QED
  BY <1>1, <1>2 DEF Operations

LEMMA OperationsFinite == IsFiniteSet(Operations)
<1> DEFINE E == {EventOf[kind] : kind \in CallKinds}
<1>1. IsFiniteSet(EventsOfCalls)
  <2>1. IsFiniteSet({"read"} \cup {"write"})
    BY FS_Singleton, FS_AddElement
  <2>2. IsFiniteSet((({"read"} \cup {"write"}) \cup {"receive"}) \cup {"send"})
    BY <2>1, FS_AddElement
  <2>3. EventsOfCalls = (({"read"} \cup {"write"}) \cup {"receive"}) \cup {"send"}
    BY DEF EventsOfCalls
  <2> QED
    BY <2>2, <2>3
<1>2. E \in SUBSET EventsOfCalls
  BY EventOfType
<1>3. IsFiniteSet(E)
  BY <1>1, <1>2, FS_Subset
<1>4. IsFiniteSet(E \X Buffers)
  BY <1>3, ClientAssumption, FS_Product
<1>5. IsFiniteSet((E \X Buffers) \cup {ConnectOp})
  BY <1>4, FS_AddElement
<1>6. Operations = (E \X Buffers) \cup {ConnectOp}
  BY DEF Operations
<1> QED
  BY <1>5, <1>6

\* What a ring can say of the number of outstanding operations.
LEMMA CountFacts ==
  ASSUME RingInv(Operations, ResultsOfAll)
  PROVE  /\ IsFiniteSet(Outstanding) /\ Outstanding \subseteq Operations
         /\ Cardinality(Outstanding) \in Nat
         /\ Cardinality(Outstanding) = 0 <=> Outstanding = {}
<1>1. IsFiniteSet(Outstanding)
  BY OperationsFinite, RingCount
<1>2. Completed \subseteq Operations
  BY CompletedInOps DEF RingInv
<1>3. Outstanding \subseteq Operations
  BY <1>2 DEF RingInv, Outstanding
<1> QED
  BY <1>1, <1>3, FS_CardinalityType, FS_EmptySet

-----------------------------------------------------------------------------
(* Steps that move no buffer and start no operation.                       *)

LEMMA HoldersStay ==
  ASSUME BuffersHeld, CallsAreSeparate, Outstanding' = Outstanding,
         UNCHANGED <<free, payloads, call>>
  PROVE  BuffersHeld' /\ CallsAreSeparate'
<1>1. InKernel' = InKernel /\ GotByCalls' = GotByCalls
  BY DEF InKernel, GotByCalls
<1> QED
  BY <1>1 DEF BuffersHeld, CallsAreSeparate

LEMMA CallsStay ==
  ASSUME CallsHold, call' = call,
         ch.connector = "connected" => ch'.connector = "connected"
  PROVE  CallsHold'
BY DEF CallsHold, CallHolds

\* A step that leaves pool, calls and outstanding operations alone, and keeps
\* the stages, keeps the invariant.
LEMMA QuietStep ==
  ASSUME ClientInv, RingInv(Operations, ResultsOfAll)', Outstanding' = Outstanding,
         UNCHANGED <<free, payloads, call>>,
         ClientTypes', Stages',
         ch'.pending = ch.pending,
         ch.connector = "connected" => ch'.connector = "connected"
  PROVE  ClientInv'
<1>1. BuffersHeld' /\ CallsAreSeparate'
  BY HoldersStay DEF ClientInv
<1>2. CallsHold'
  BY CallsStay DEF ClientInv
<1>3. Counted'
  BY DEF ClientInv, Counted
<1> QED
  BY <1>1, <1>2, <1>3 DEF ClientInv

LEMMA RingStep ==
  ASSUME ClientInv, RingInv(Operations, ResultsOfAll)', Outstanding' = Outstanding,
         UNCHANGED clientVars
  PROVE  ClientInv'
<1>1. ClientTypes' /\ Stages'
  BY DEF ClientInv, ClientTypes, Stages, Closing, clientVars
<1> QED
  BY <1>1, QuietStep DEF clientVars

LEMMA PeekKeeps ==
  ASSUME ClientInv, Peek
  PROVE  ClientInv' /\ Outstanding' = Outstanding
BY RingPeek, RingStep DEF Peek, ClientInv

LEMMA CollectKeeps ==
  ASSUME ClientInv, Collect
  PROVE  ClientInv' /\ Outstanding' = Outstanding
BY RingCollect, RingStep DEF Collect, ClientInv

LEMMA CheckTimeoutsKeeps ==
  ASSUME ClientInv, CheckTimeouts
  PROVE  ClientInv' /\ Outstanding' = Outstanding
<1>1. PICK expired : CancelEvents(expired)
  BY DEF CheckTimeouts, CheckEventTimeouts
<1>2. cq' = cq /\ waiting' = waiting /\ batch' = batch /\ UNCHANGED clientVars
  BY DEF CheckTimeouts, loopVars
<1>3. waiting' \in BOOLEAN
  BY <1>2 DEF ClientInv, RingInv
<1> QED
  BY <1>1, <1>2, <1>3, RingCancel, RingStep DEF ClientInv

LEMMA KernelKeeps ==
  ASSUME ClientInv, NEW op, Kernel(op)
  PROVE  ClientInv' /\ Outstanding' = Outstanding
<1>1. PICK result \in Results(op) : Complete(op, result)
  BY DEF Kernel
<1>2. result \in ResultsOfAll
  BY DEF Results, ResultsOfAll
<1> QED
  BY <1>1, <1>2, RingComplete, RingStep DEF Kernel, ClientInv

LEMMA ShutdownKeeps ==
  ASSUME ClientInv, Shutdown
  PROVE  ClientInv' /\ Outstanding' = Outstanding
<1>1. /\ UNCHANGED ringVars
      /\ UNCHANGED <<ch, free, payloads, call>>
  BY DEF Shutdown
<1>2. RingInv(Operations, ResultsOfAll)' /\ Outstanding' = Outstanding
  BY <1>1, RingStutter DEF ClientInv
<1>3. ClientTypes'
  BY <1>1 DEF ClientInv, ClientTypes
<1>4. Stages'
  BY <1>1, <1>2 DEF ClientInv, Stages, Closing, Shutdown
<1> QED
  BY <1>1, <1>2, <1>3, <1>4, QuietStep

-----------------------------------------------------------------------------
(* close().                                                                *)

LEMMA LeavePendingFacts ==
  ASSUME NEW c \in Channels, NEW d, d = LeavePending(c)
  PROVE  /\ d \in Channels
         /\ d.pending = c.pending /\ d.connector = c.connector
         /\ d.closer = c.closer /\ d.kind = c.kind
         /\ \/ HasListener /\ d.phase = "draining" /\ d.destroyed = c.destroyed
            \/ d.phase = "closed" /\ d.destroyed = c.destroyed + 1
<1> DEFINE n == c.destroyed + 1
<1>1. n \in Nat
  BY DEF Channels
<1>2. CASE HasListener
  <2>1. d = [c EXCEPT !.active = FALSE, !.phase = "draining"]
    BY <1>2 DEF LeavePending
  <2> QED
    BY <1>2, <2>1 DEF Channels
<1>3. CASE ~HasListener
  <2>1. d = [c EXCEPT !.active = FALSE, !.phase = "closed", !.destroyed = n]
    BY <1>3 DEF LeavePending
  <2> HIDE DEF n
  <2>2. d \in Channels /\ d.destroyed = n
    BY <1>1, <2>1 DEF Channels
  <2>3. /\ d.pending = c.pending /\ d.connector = c.connector
        /\ d.closer = c.closer /\ d.phase = "closed" /\ d.kind = c.kind
    BY <2>1 DEF Channels
  <2> QED
    BY <2>2, <2>3 DEF n
<1> QED
  BY <1>2, <1>3

\* A close past its waiting: the descriptor goes with nothing under way.
LEMMA LeavePendingKeeps ==
  ASSUME ClientInv, Outstanding = {}, ch.connector # "none", ch.phase # "closed",
         ch' = LeavePending(ch), Outstanding' = {}
  PROVE  /\ ch' \in Channels
         /\ ch'.pending = ch.pending /\ ch'.connector = ch.connector
         /\ Stages'
<1>1. ch \in Channels
  BY DEF ClientInv, ClientTypes
<1>2. /\ ch' \in Channels
      /\ ch'.pending = ch.pending /\ ch'.connector = ch.connector
      /\ ch'.closer = ch.closer
      /\ \/ HasListener /\ ch'.phase = "draining" /\ ch'.destroyed = ch.destroyed
         \/ ch'.phase = "closed" /\ ch'.destroyed = ch.destroyed + 1
  BY <1>1, LeavePendingFacts
<1>3. HasListener => ch.destroyed = 0
  BY <1>1 DEF ClientInv, Stages, HasListener, Channels
<1>4. Stages'
  BY <1>1, <1>2, <1>3 DEF ClientInv, Stages, Closing, Channels
<1> QED
  BY <1>2, <1>4

LEMMA CloseCallKeeps ==
  ASSUME ClientInv, NEW graceful \in BOOLEAN, CloseCall(graceful),
         ch.connector # "none",
         UNCHANGED <<cq, loopVars, free, payloads, call>>
  PROVE  ClientInv' /\ Outstanding' = Outstanding
<1>1. RingInv(Operations, ResultsOfAll) /\ waiting \in BOOLEAN
  BY DEF ClientInv, RingInv
<1>2. RingInv(Operations, ResultsOfAll)' /\ Outstanding' = Outstanding
  <2>1. CASE CancelByFd
    BY <1>1, <2>1, RingCancel DEF CancelByFd, loopVars
  <2>2. CASE UNCHANGED <<events, queued, inflight, cancelled>>
    BY <1>1, <2>2, RingStutter DEF ringVars, loopVars
  <2> QED
    BY <2>1, <2>2 DEF CloseCall
<1>3. ch \in Channels /\ ch.pending = Cardinality(Outstanding) /\ Stages
  BY DEF ClientInv, ClientTypes, Counted
<1>4. /\ ch' \in Channels /\ Stages'
      /\ ch'.pending = ch.pending /\ ch'.connector = ch.connector
  <2>1. CASE ch' = ch
    BY <1>2, <1>3, <2>1 DEF Stages, Closing
  <2>2. CASE ~Closing /\ ch' = BeginClose(ch, graceful) /\ ch.pending = 0
    <3>1. Outstanding = {}
      BY <1>1, <1>3, <2>2, CountFacts
    <3>2. ch' = LeavePending(ch) /\ ch.phase # "closed"
      BY <2>2 DEF BeginClose, Closing
    <3> QED
      BY <1>2, <3>1, <3>2, LeavePendingKeeps
  <2>3. CASE ~Closing /\ ch' = BeginClose(ch, graceful) /\ ch.pending # 0
    <3>1. Outstanding # {}
      BY <1>1, <1>3, <2>3, CountFacts
    <3>2. PICK next \in {"grace", "awaitCloser"} :
            ch' = [ch EXCEPT !.active = graceful, !.phase = next]
      BY <2>3 DEF BeginClose
    <3>3. ch' \in Channels
      BY <1>3, <3>2 DEF Channels
    <3>4. /\ ch'.pending = ch.pending /\ ch'.connector = ch.connector
          /\ ch'.closer = ch.closer /\ ch'.destroyed = ch.destroyed
          /\ ch'.phase = next
      BY <1>3, <3>2 DEF Channels
    <3>5. Stages'
      BY <1>2, <1>3, <3>1, <3>2, <3>4 DEF Stages, Closing
    <3> QED
      BY <3>3, <3>4, <3>5
  <2> QED
    BY <2>1, <2>2, <2>3 DEF CloseCall
<1>5. ClientTypes'
  BY <1>4 DEF ClientInv, ClientTypes
<1> QED
  BY <1>2, <1>4, <1>5, QuietStep

LEMMA UserCloseKeeps ==
  ASSUME ClientInv, NEW graceful \in BOOLEAN, UserClose(graceful)
  PROVE  ClientInv' /\ Outstanding' = Outstanding
<1>1. CloseCall(graceful) /\ ch.connector # "none"
  BY DEF UserClose
<1> QED
  BY <1>1, CloseCallKeeps DEF UserClose

LEMMA ShutdownClientKeeps ==
  ASSUME ClientInv, NEW graceful \in BOOLEAN, ShutdownClient(graceful)
  PROVE  ClientInv' /\ Outstanding' = Outstanding
<1>1. ch.connector # "none"
  BY DEF ShutdownClient, ClientInv, Stages
<1>2. UNCHANGED <<cq, loopVars, free, payloads, call>>
  BY DEF ShutdownClient
<1>3. CASE CloseCall(graceful)
  BY <1>1, <1>2, <1>3, CloseCallKeeps
<1>4. CASE UNCHANGED <<ch, events, queued, inflight, cancelled, joined, returned>>
  <2>1. RingInv(Operations, ResultsOfAll)' /\ Outstanding' = Outstanding
    BY <1>2, <1>4, RingStutter DEF ClientInv, ringVars, loopVars
  <2>2. ClientTypes' /\ Stages'
    BY <1>1, <1>2, <1>4, <2>1 DEF ClientInv, ClientTypes, Stages, Closing
  <2> QED
    BY <1>2, <1>4, <2>1, <2>2, QuietStep
<1> QED
  BY <1>3, <1>4 DEF ShutdownClient

LEMMA GraceTimeoutKeeps ==
  ASSUME ClientInv, GraceTimeout
  PROVE  ClientInv' /\ Outstanding' = Outstanding
<1>1. /\ RingInv(Operations, ResultsOfAll) /\ waiting \in BOOLEAN
      /\ ch \in Channels /\ Stages
  BY DEF ClientInv, RingInv, ClientTypes
<1>2. RingInv(Operations, ResultsOfAll)' /\ Outstanding' = Outstanding
  BY <1>1, RingCancel DEF GraceTimeout, CancelByFd, loopVars
<1>3. ch.phase = "grace" /\ ch' = [ch EXCEPT !.active = FALSE, !.phase = "awaitCloser"]
  BY DEF GraceTimeout
<1>4. ch' \in Channels
  BY <1>1, <1>3 DEF Channels
<1>5. /\ ch'.pending = ch.pending /\ ch'.connector = ch.connector
      /\ ch'.closer = ch.closer /\ ch'.destroyed = ch.destroyed
      /\ ch'.phase = "awaitCloser"
  BY <1>1, <1>3 DEF Channels
<1>6. Stages'
  BY <1>1, <1>2, <1>3, <1>5 DEF Stages, Closing
<1>7. ClientTypes' /\ UNCHANGED <<free, payloads, call>>
  BY <1>4 DEF ClientInv, ClientTypes, GraceTimeout
<1> QED
  BY <1>2, <1>5, <1>6, <1>7, QuietStep

LEMMA CloserCompletedKeeps ==
  ASSUME ClientInv, CloserCompleted
  PROVE  ClientInv' /\ Outstanding' = Outstanding /\ Outstanding = {}
<1>1. /\ UNCHANGED ringVars /\ UNCHANGED <<free, payloads, call>>
      /\ ch' = LeavePending(ch) /\ ch.closer /\ ch.phase \in {"awaitCloser", "grace"}
  BY DEF CloserCompleted
<1>2. RingInv(Operations, ResultsOfAll)' /\ Outstanding' = Outstanding
  BY <1>1, RingStutter DEF ClientInv
<1>3. Outstanding = {} /\ ch.connector # "none" /\ ch.phase # "closed"
  BY <1>1 DEF ClientInv, Stages
<1>4. /\ ch' \in Channels /\ Stages'
      /\ ch'.pending = ch.pending /\ ch'.connector = ch.connector
  BY <1>1, <1>2, <1>3, LeavePendingKeeps
<1>5. ClientTypes'
  BY <1>1, <1>4 DEF ClientInv, ClientTypes
<1> QED
  BY <1>1, <1>2, <1>3, <1>4, <1>5, QuietStep

LEMMA JoinedReturnsKeeps ==
  ASSUME ClientInv, JoinedReturns
  PROVE  ClientInv' /\ Outstanding' = Outstanding
<1>1. UNCHANGED ringVars /\ UNCHANGED <<ch, free, payloads, call, shutdown>>
  BY DEF JoinedReturns
<1>2. RingInv(Operations, ResultsOfAll)' /\ Outstanding' = Outstanding
  BY <1>1, RingStutter DEF ClientInv
<1>3. ClientTypes' /\ Stages'
  BY <1>1, <1>2 DEF ClientInv, ClientTypes, Stages, Closing
<1> QED
  BY <1>1, <1>2, <1>3, QuietStep

LEMMA InboundDrainedKeeps ==
  ASSUME ClientInv, InboundDrained
  PROVE  ClientInv' /\ Outstanding' = Outstanding /\ Outstanding = {}
<1> DEFINE n == ch.destroyed + 1
<1>1. /\ UNCHANGED ringVars /\ UNCHANGED <<free, payloads, call, shutdown>>
      /\ ch' = [ch EXCEPT !.phase = "closed", !.destroyed = n]
      /\ ch.phase = "draining"
  BY DEF InboundDrained
<1>2. RingInv(Operations, ResultsOfAll)' /\ Outstanding' = Outstanding
  BY <1>1, RingStutter DEF ClientInv
<1>3. Outstanding = {} /\ ch \in Channels /\ Stages /\ n \in Nat
  BY <1>1 DEF ClientInv, ClientTypes, Stages, Channels
<1> HIDE DEF n
<1>4. ch' \in Channels
  BY <1>1, <1>3 DEF Channels
<1>5. /\ ch'.pending = ch.pending /\ ch'.connector = ch.connector
      /\ ch'.closer = ch.closer /\ ch'.phase = "closed"
  BY <1>1, <1>3 DEF Channels
<1>6. Stages'
  BY <1>1, <1>2, <1>3, <1>5 DEF Stages, Closing
<1>7. ClientTypes'
  BY <1>1, <1>4 DEF ClientInv, ClientTypes
<1> QED
  BY <1>1, <1>2, <1>3, <1>5, <1>6, <1>7, QuietStep

LEMMA ConnectErrorHandlerKeeps ==
  ASSUME ClientInv, ConnectErrorHandler
  PROVE  ClientInv' /\ Outstanding' = Outstanding /\ Outstanding = {}
<1> DEFINE n == ch.destroyed + 1
<1>1. /\ UNCHANGED ringVars /\ UNCHANGED <<free, payloads, call, shutdown>>
      /\ ch' = [ch EXCEPT !.connector = "disposed", !.destroyed = n]
      /\ ch.connector = "failed"
  BY DEF ConnectErrorHandler
<1>2. RingInv(Operations, ResultsOfAll)' /\ Outstanding' = Outstanding
  BY <1>1, RingStutter DEF ClientInv
<1>3. Outstanding = {} /\ ch \in Channels /\ Stages /\ n \in Nat
  BY <1>1 DEF ClientInv, ClientTypes, Stages, Channels
<1> HIDE DEF n
<1>4. ch' \in Channels
  BY <1>1, <1>3 DEF Channels
<1>5. /\ ch'.pending = ch.pending /\ ch'.connector = "disposed"
      /\ ch'.closer = ch.closer /\ ch'.phase = ch.phase
  BY <1>1, <1>3 DEF Channels
<1>6. Stages'
  BY <1>1, <1>2, <1>3, <1>5 DEF Stages, Closing
<1>7. ClientTypes'
  BY <1>1, <1>4 DEF ClientInv, ClientTypes
<1> QED
  BY <1>1, <1>2, <1>3, <1>5, <1>6, <1>7, QuietStep

-----------------------------------------------------------------------------
(* Steps that start operations.                                            *)

LEMMA ConnectKeeps ==
  ASSUME ClientInv, Connect
  PROVE  ClientInv' /\ Outstanding = {} /\ Outstanding' = {ConnectOp}
<1> DEFINE n == ch.pending + 1
<1>1. /\ ch.connector = "none" /\ ch' = [ch EXCEPT !.connector = "connecting", !.pending = n]
      /\ Prepare({ConnectOp}) /\ UNCHANGED <<cq, waiting, batch>>
      /\ UNCHANGED <<free, payloads, call, shutdown>>
  BY DEF Connect, loopVars
<1>2. /\ RingInv(Operations, ResultsOfAll) /\ Outstanding = {}
      /\ ch.pending = 0 /\ ch \in Channels /\ Stages /\ n = 1 /\ n \in Nat
  BY <1>1, CountFacts DEF ClientInv, ClientTypes, Stages, Counted
<1> HIDE DEF n
<1>3. RingInv(Operations, ResultsOfAll)' /\ Outstanding' = {ConnectOp}
  BY <1>1, <1>2, OperationShape, RingPrepare
<1>4. ch' \in Channels
  BY <1>1, <1>2 DEF Channels
<1>5. /\ ch'.pending = 1 /\ ch'.connector = "connecting"
      /\ ch'.closer = ch.closer /\ ch'.phase = ch.phase /\ ch'.destroyed = ch.destroyed
  BY <1>1, <1>2 DEF Channels
<1>6. Stages'
  BY <1>1, <1>2, <1>3, <1>5 DEF Stages, Closing, Channels
<1>7. ClientTypes'
  BY <1>1, <1>4 DEF ClientInv, ClientTypes
<1>8. Counted'
  BY <1>3, <1>5, FS_Singleton DEF Counted
<1>9. CallsHold'
  BY <1>1, CallsStay DEF ClientInv
<1>10. BuffersHeld' /\ CallsAreSeparate'
  <2>1. InKernel = {} /\ InKernel' = {} /\ GotByCalls' = GotByCalls
    BY <1>1, <1>2, <1>3 DEF InKernel, GotByCalls
  <2> QED
    BY <1>1, <1>3, <2>1 DEF ClientInv, BuffersHeld, CallsAreSeparate
<1> QED
  BY <1>2, <1>3, <1>6, <1>7, <1>8, <1>9, <1>10 DEF ClientInv

\* What the requests of a call do to the ring: they are all new, because
\* nobody else has their buffers.
LEMMA PreparedKeeps ==
  ASSUME ClientInv, ch.connector = "connected",
         NEW kind \in CallKinds, NEW all \in SUBSET Buffers,
         all \cap InKernel = {},
         Prepared(kind, all), UNCHANGED <<cq, waiting, batch>>
  PROVE  /\ RingInv(Operations, ResultsOfAll)'
         /\ ConnectOp \notin Outstanding'
         /\ Outstanding \subseteq Outstanding'
         /\ Cardinality(Outstanding') = Cardinality(Outstanding) + Cardinality(all)
         /\ InKernel' = InKernel \cup all
         /\ \A p, q \in Outstanding' : p # q => BufferOf(p) # BufferOf(q)
<1> DEFINE ops == {EventOf[kind]} \X all
<1>1. /\ RingInv(Operations, ResultsOfAll) /\ ConnectOp \notin Outstanding
      /\ IsFiniteSet(Outstanding) /\ Cardinality(Outstanding) \in Nat
      /\ \A p, q \in Outstanding : p # q => BufferOf(p) # BufferOf(q)
  BY CountFacts DEF ClientInv, Stages, BuffersHeld
<1>2. \A b \in all : <<EventOf[kind], b>> \in Operations \ {ConnectOp}
  BY OperationShape
<1>3. \A op \in ops : \E b \in all : op = <<EventOf[kind], b>>
  OBVIOUS
<1>4. \A b \in all : <<EventOf[kind], b>> \in ops /\ BufferOf(<<EventOf[kind], b>>) = b
  BY DEF BufferOf
<1>5. \A op \in ops : BufferOf(op) \in all
  BY <1>3, <1>4
<1>6. ops \subseteq Operations \ {ConnectOp}
  BY <1>2, <1>3
<1>7. Cardinality(ops) = Cardinality(all) /\ IsFiniteSet(ops) /\ Cardinality(ops) \in Nat
  <2>1. IsFiniteSet(all) /\ Cardinality(all) \in Nat
    BY ClientAssumption, FS_Subset, FS_CardinalityType
  <2>2. IsFiniteSet({EventOf[kind]}) /\ Cardinality({EventOf[kind]}) = 1
    BY FS_Singleton
  <2>3. IsFiniteSet(ops) /\ Cardinality(ops) = 1 * Cardinality(all)
    BY <2>1, <2>2, FS_Product
  <2> QED
    BY <2>1, <2>3
<1>8. Prepare(ops)
  BY DEF Prepared
<1> HIDE DEF ops
<1>9. ops \cap Outstanding = {}
  BY <1>1, <1>5 DEF InKernel
<1>10. RingInv(Operations, ResultsOfAll)' /\ Outstanding' = Outstanding \cup ops
  BY <1>1, <1>6, <1>8, <1>9, RingPrepare
<1>11. Cardinality(Outstanding') = Cardinality(Outstanding) + Cardinality(all)
  <2>1. Outstanding \cap ops = {}
    BY <1>9
  <2>2. Cardinality(Outstanding \cup ops) =
          Cardinality(Outstanding) + Cardinality(ops) - Cardinality(Outstanding \cap ops)
    BY <1>1, <1>7, FS_Union
  <2>3. Cardinality(Outstanding \cap ops) = 0
    BY <2>1, FS_EmptySet
  <2> QED
    BY <1>1, <1>7, <1>10, <2>2, <2>3
<1>12. InKernel' = InKernel \cup all
  <2>1. \A b \in all : \E op \in ops : BufferOf(op) = b
    BY <1>4
  <2>2. Outstanding' \ {ConnectOp} = (Outstanding \ {ConnectOp}) \cup ops
    BY <1>6, <1>10
  <2> QED
    BY <1>5, <2>1, <2>2 DEF InKernel
<1>13. \A p, q \in Outstanding' : p # q => BufferOf(p) # BufferOf(q)
  <2>1. \A p, q \in ops : p # q => BufferOf(p) # BufferOf(q)
    BY <1>3, <1>4
  <2>2. \A p \in Outstanding : BufferOf(p) \in InKernel
    BY <1>1 DEF InKernel
  <2> QED
    BY <1>1, <1>5, <1>10, <2>1, <2>2
<1> QED
  BY <1>1, <1>6, <1>10, <1>11, <1>12, <1>13

\* A call keeps what it got and what it takes from the pool now, and nothing
\* else happens.
LEMMA HoldKeeps ==
  ASSUME ClientInv, ch.connector = "connected",
         NEW c \in Calls, NEW taken \in SUBSET free, NEW r \in Records,
         r.got = call[c].got \cup taken,
         call' = [call EXCEPT ![c] = r], CallHolds(c)',
         free' = free \ taken,
         UNCHANGED <<ringVars, ch, payloads, shutdown>>
  PROVE  ClientInv' /\ Outstanding' = Outstanding
<1>1. /\ RingInv(Operations, ResultsOfAll) /\ ClientTypes /\ Counted /\ Stages
      /\ CallsHold /\ BuffersHeld /\ CallsAreSeparate
      /\ call \in [Calls -> Records] /\ free \subseteq Buffers
  BY DEF ClientInv, ClientTypes
<1>2. RingInv(Operations, ResultsOfAll)' /\ Outstanding' = Outstanding
  BY <1>1, RingStutter
<1>3. /\ call'[c] = r /\ \A d \in Calls \ {c} : call'[d] = call[d]
      /\ call' \in [Calls -> Records]
  BY <1>1
<1>4. ClientTypes' /\ Counted' /\ Stages'
  BY <1>1, <1>2, <1>3 DEF ClientTypes, Counted, Stages, Closing
<1>5. CallsHold'
  <2>1. \A d \in Calls \ {c} : CallHolds(d)'
    BY <1>1, <1>3 DEF CallsHold, CallHolds
  <2> QED
    BY <2>1 DEF CallsHold
<1>6. \A d \in Calls : call[d].got \subseteq GotByCalls
  BY DEF GotByCalls
<1>7. CallsAreSeparate'
  BY <1>1, <1>3, <1>6 DEF CallsAreSeparate, BuffersHeld
<1>8. BuffersHeld'
  <2>1. InKernel' = InKernel
    BY <1>2 DEF InKernel
  <2>2. GotByCalls' = GotByCalls \cup taken
    <3>1. \A d \in Calls : call[d].got \subseteq call'[d].got
      BY <1>3
    <3>2. \A d \in Calls : call'[d].got \subseteq GotByCalls \cup taken
      BY <1>3, <1>6
    <3>3. taken \subseteq call'[c].got
      BY <1>3
    <3> QED
      BY <3>1, <3>2, <3>3 DEF GotByCalls
  <2> QED
    BY <1>1, <1>2, <2>1, <2>2 DEF BuffersHeld
<1> QED
  BY <1>2, <1>4, <1>5, <1>7, <1>8 DEF ClientInv

\* A call that has all its buffers: those it got before, and those it takes
\* from the pool now.
LEMMA IssueKeeps ==
  ASSUME ClientInv, ch.connector = "connected",
         NEW c \in Calls, NEW kind \in CallKinds, NEW taken \in SUBSET free,
         Cardinality(call[c].got \cup taken) = SizeOf(kind),
         Issue(c, kind, call[c].got \cup taken),
         free' = free \ taken,
         UNCHANGED <<cq, loopVars, payloads, shutdown>>
  PROVE  /\ ClientInv' /\ Outstanding \subseteq Outstanding'
         /\ Outstanding' # Outstanding => ~Closing
         /\ UNCHANGED <<ch.phase, ch.destroyed, ch.connector>>
<1> DEFINE all == call[c].got \cup taken
<1>1. /\ RingInv(Operations, ResultsOfAll) /\ ClientTypes /\ Counted /\ Stages
      /\ CallsHold /\ BuffersHeld /\ CallsAreSeparate
      /\ ch \in Channels /\ call \in [Calls -> Records]
      /\ free \subseteq Buffers /\ payloads \subseteq Buffers
      /\ IsFiniteSet(Outstanding) /\ Cardinality(Outstanding) \in Nat
  BY CountFacts DEF ClientInv, ClientTypes
<1>2. call[c].got \subseteq Buffers /\ all \subseteq Buffers
  BY <1>1 DEF Records
<1>3. call[c].got \subseteq GotByCalls
  BY DEF GotByCalls
<1>4. all \cap InKernel = {} /\ all \cap payloads = {}
  BY <1>1, <1>3 DEF BuffersHeld
<1>5. \A d \in Calls \ {c} : call[d].got \cap all = {} /\ call[d].got \subseteq GotByCalls
  <2> TAKE d \in Calls \ {c}
  <2>1. call[d].got \cap call[c].got = {}
    BY <1>1 DEF CallsAreSeparate
  <2>2. call[d].got \subseteq GotByCalls
    BY DEF GotByCalls
  <2> QED
    BY <1>1, <2>1, <2>2 DEF BuffersHeld
<1>6. SizeOf(kind) \in Nat
  BY DEF SizeOf
<1>7. kind \in DOMAIN EventOf
  BY ClientAssumption
<1> HIDE DEF all
<1>8. CASE Closing /\ UNCHANGED <<ch, events, queued, inflight, cancelled>>
             /\ call' = [call EXCEPT ![c] = [state |-> "refused", kind |-> kind,
                                            need |-> 0, got |-> all]]
  <2> DEFINE r == [state |-> "refused", kind |-> kind, need |-> 0, got |-> all]
  <2>1. r \in Records /\ r.got = all /\ r.state = "refused"
    BY <1>2, <1>7 DEF Records
  <2> HIDE DEF r
  <2>2. call' = [call EXCEPT ![c] = r] /\ UNCHANGED ringVars /\ ch' = ch
    BY <1>8 DEF r, ringVars, loopVars
  <2>3. CallHolds(c)'
    BY <1>1, <2>1, <2>2 DEF CallHolds
  <2> QED
    BY <1>8, <2>1, <2>2, <2>3, HoldKeeps DEF all
<1>9. CASE ~Closing /\ ch' = [ch EXCEPT !.pending = @ + SizeOf(kind)]
             /\ Prepared(kind, all)
             /\ call' = [call EXCEPT ![c] = [state |-> "issued", kind |-> kind,
                                            need |-> 0, got |-> {}]]
  <2>1. /\ RingInv(Operations, ResultsOfAll)'
        /\ ConnectOp \notin Outstanding'
        /\ Outstanding \subseteq Outstanding'
        /\ Cardinality(Outstanding') = Cardinality(Outstanding) + Cardinality(all)
        /\ InKernel' = InKernel \cup all
        /\ \A p, q \in Outstanding' : p # q => BufferOf(p) # BufferOf(q)
    BY <1>2, <1>4, <1>9, PreparedKeeps DEF loopVars
  <2>2. /\ call'[c].got = {} /\ call'[c].state = "issued"
        /\ \A d \in Calls \ {c} : call'[d] = call[d]
    BY <1>1, <1>9
  <2>3. call' \in [Calls -> Records]
    BY <1>1, <1>7, <1>9 DEF Records
  <2>4. /\ ch'.pending = ch.pending + SizeOf(kind) /\ ch'.connector = ch.connector
        /\ ch'.closer = ch.closer /\ ch'.phase = ch.phase /\ ch'.destroyed = ch.destroyed
        /\ ch' \in Channels
    BY <1>1, <1>6, <1>9 DEF Channels
  <2>5. ClientTypes'
    BY <1>1, <2>3, <2>4 DEF ClientTypes
  <2>6. Counted'
    BY <1>1, <2>1, <2>4 DEF Counted, all
  <2>7. Stages'
    BY <1>1, <1>9, <2>1, <2>4 DEF Stages, Closing
  <2>8. CallsHold'
    BY <1>1, <2>2, <2>4 DEF CallsHold, CallHolds
  <2>9. CallsAreSeparate'
    BY <1>1, <2>2 DEF CallsAreSeparate
  <2>10. BuffersHeld'
    <3>1. GotByCalls' = GotByCalls \ call[c].got
      <4>1. \A d \in Calls \ {c} : call[d].got \cap call[c].got = {}
        BY <1>5 DEF all
      <4> QED
        BY <2>2, <4>1 DEF GotByCalls
    <3> QED
      BY <1>1, <1>3, <1>4, <2>1, <3>1 DEF BuffersHeld, all
  <2> QED
    BY <1>9, <2>1, <2>4, <2>5, <2>6, <2>7, <2>8, <2>9, <2>10 DEF ClientInv
<1> QED
  BY <1>8, <1>9 DEF Issue, all

LEMMA AcquireKeeps ==
  ASSUME ClientInv, ch.connector = "connected",
         NEW c \in Calls, NEW kind \in CallKinds, NEW need \in Nat \ {0},
         NEW resumed \in BOOLEAN, ~resumed => call[c].got = {},
         Cardinality(call[c].got) + need = SizeOf(kind),
         Acquire(c, kind, call[c].got, need, resumed),
         UNCHANGED <<cq, loopVars, payloads, shutdown>>
  PROVE  /\ ClientInv' /\ Outstanding \subseteq Outstanding'
         /\ Outstanding' # Outstanding => ~Closing
         /\ UNCHANGED <<ch.phase, ch.destroyed, ch.connector>>
<1>1. /\ free \subseteq Buffers /\ BuffersHeld
      /\ call \in [Calls -> Records]
  BY DEF ClientInv, ClientTypes
<1>2. call[c].got \subseteq Buffers /\ call[c].got \cap free = {}
  BY <1>1 DEF Records, BuffersHeld, GotByCalls
<1>3. /\ IsFiniteSet(call[c].got) /\ Cardinality(call[c].got) \in Nat
      /\ kind \in DOMAIN EventOf /\ SizeOf(kind) \in Nat
  BY <1>2, ClientAssumption, FS_Subset, FS_CardinalityType DEF SizeOf
<1>4. PICK taken \in SUBSET free :
        /\ free' = free \ taken
        /\ \/ /\ Cardinality(taken) = need
              /\ Issue(c, kind, call[c].got \cup taken)
           \/ /\ Cardinality(taken) = need
              /\ ~resumed
              /\ call' = [call EXCEPT ![c] =
                   [state |-> "granted", kind |-> kind, need |-> 0, got |-> taken]]
              /\ UNCHANGED <<ch, events, queued, inflight, cancelled>>
           \/ /\ taken = free /\ Cardinality(free) < need
              /\ call' = [call EXCEPT ![c] =
                   [state |-> "waiting", kind |-> kind,
                    need |-> need - Cardinality(taken), got |-> call[c].got \cup taken]]
              /\ UNCHANGED <<ch, events, queued, inflight, cancelled>>
  BY DEF Acquire
<1>5. /\ IsFiniteSet(taken) /\ Cardinality(taken) \in Nat /\ taken \subseteq Buffers
      /\ Cardinality(call[c].got \cup taken) = Cardinality(call[c].got) + Cardinality(taken)
  <2>1. IsFiniteSet(taken) /\ Cardinality(taken) \in Nat /\ taken \subseteq Buffers
    BY <1>1, ClientAssumption, FS_Subset, FS_CardinalityType
  <2>2. call[c].got \cap taken = {}
    BY <1>2
  <2>3. Cardinality(call[c].got \cap taken) = 0
    BY <2>2, FS_EmptySet
  <2>4. Cardinality(call[c].got \cup taken) =
          Cardinality(call[c].got) + Cardinality(taken) - Cardinality(call[c].got \cap taken)
    BY <1>3, <2>1, FS_Union
  <2> QED
    BY <1>3, <2>1, <2>3, <2>4
<1>6. CASE Cardinality(taken) = need /\ Issue(c, kind, call[c].got \cup taken)
  <2>1. Cardinality(call[c].got \cup taken) = SizeOf(kind)
    BY <1>5, <1>6
  <2> QED
    BY <1>4, <1>6, <2>1, IssueKeeps
<1>7. CASE /\ Cardinality(taken) = need /\ ~resumed
           /\ call' = [call EXCEPT ![c] =
                [state |-> "granted", kind |-> kind, need |-> 0, got |-> taken]]
           /\ UNCHANGED <<ch, events, queued, inflight, cancelled>>
  <2> DEFINE r == [state |-> "granted", kind |-> kind, need |-> 0, got |-> taken]
  <2>1. /\ r \in Records /\ r.got = call[c].got \cup taken
        /\ r.state = "granted" /\ r.kind = kind /\ r.got = taken
    BY <1>3, <1>5, <1>7 DEF Records
  <2>2. call[c].got = {} /\ Cardinality(call[c].got) = 0
    BY <1>7, FS_EmptySet
  <2>3. Cardinality(taken) = SizeOf(kind)
    BY <1>3, <1>7, <2>2
  <2> HIDE DEF r
  <2>4. call' = [call EXCEPT ![c] = r] /\ UNCHANGED ringVars /\ ch' = ch
    BY <1>7 DEF r, ringVars, loopVars
  <2>5. call'[c] = r
    BY <1>1, <2>4
  <2>6. CallHolds(c)'
    BY <2>1, <2>3, <2>4, <2>5 DEF CallHolds
  <2> QED
    BY <1>4, <2>1, <2>4, <2>6, HoldKeeps
<1>8. CASE /\ taken = free /\ Cardinality(free) < need
           /\ call' = [call EXCEPT ![c] =
                [state |-> "waiting", kind |-> kind,
                 need |-> need - Cardinality(taken), got |-> call[c].got \cup taken]]
           /\ UNCHANGED <<ch, events, queued, inflight, cancelled>>
  <2> DEFINE n == need - Cardinality(taken)
             r == [state |-> "waiting", kind |-> kind, need |-> n,
                   got |-> call[c].got \cup taken]
  <2>1. n \in Nat /\ n > 0 /\ Cardinality(call[c].got \cup taken) + n = SizeOf(kind)
    BY <1>3, <1>5, <1>8
  <2> HIDE DEF n
  <2>2. /\ r \in Records /\ r.got = call[c].got \cup taken
        /\ r.state = "waiting" /\ r.kind = kind /\ r.need = n
    BY <1>2, <1>3, <1>5, <2>1 DEF Records
  <2> HIDE DEF r
  <2>3. call' = [call EXCEPT ![c] = r] /\ UNCHANGED ringVars /\ ch' = ch
    BY <1>8 DEF r, n, ringVars, loopVars
  <2>4. call'[c] = r
    BY <1>1, <2>3
  <2>5. CallHolds(c)'
    BY <2>1, <2>2, <2>3, <2>4 DEF CallHolds
  <2> QED
    BY <1>4, <2>2, <2>3, <2>5, HoldKeeps
<1> QED
  BY <1>4, <1>6, <1>7, <1>8

LEMMA CallKeeps ==
  ASSUME ClientInv, NEW c \in Calls, Call(c)
  PROVE  /\ ClientInv' /\ Outstanding \subseteq Outstanding'
         /\ Outstanding' # Outstanding => ~Closing
         /\ UNCHANGED <<ch.phase, ch.destroyed, ch.connector>>
<1>1. PICK kind \in CallKinds : Acquire(c, kind, {}, SizeOf(kind), FALSE)
  BY DEF Call
<1>2. /\ ch.connector = "connected" /\ call[c].state = "idle"
      /\ UNCHANGED <<cq, loopVars, payloads, shutdown>>
  BY DEF Call
<1>3. call[c].got = {}
  BY <1>2 DEF ClientInv, CallsHold, CallHolds
<1>4. SizeOf(kind) \in Nat \ {0} /\ Cardinality(call[c].got) + SizeOf(kind) = SizeOf(kind)
  BY <1>3, FS_EmptySet DEF SizeOf
<1> QED
  BY <1>1, <1>2, <1>3, <1>4, AcquireKeeps

LEMMA ResumeKeeps ==
  ASSUME ClientInv, NEW c \in Calls, Resume(c)
  PROVE  /\ ClientInv' /\ Outstanding \subseteq Outstanding'
         /\ Outstanding' # Outstanding => ~Closing
         /\ UNCHANGED <<ch.phase, ch.destroyed, ch.connector>>
<1>1. /\ call[c].state = "waiting"
      /\ Acquire(c, call[c].kind, call[c].got, call[c].need, TRUE)
      /\ UNCHANGED <<cq, loopVars, payloads, shutdown>>
  BY DEF Resume
<1>2. CallHolds(c) /\ call[c] \in Records
  BY DEF ClientInv, ClientTypes, CallsHold
<1>3. /\ ch.connector = "connected" /\ call[c].kind \in CallKinds
      /\ call[c].need \in Nat \ {0}
      /\ Cardinality(call[c].got) + call[c].need = SizeOf(call[c].kind)
  BY <1>1, <1>2 DEF CallHolds, Records
<1> QED
  BY <1>1, <1>3, AcquireKeeps

LEMMA GrantedKeeps ==
  ASSUME ClientInv, NEW c \in Calls, Granted(c)
  PROVE  /\ ClientInv' /\ Outstanding \subseteq Outstanding'
         /\ Outstanding' # Outstanding => ~Closing
         /\ UNCHANGED <<ch.phase, ch.destroyed, ch.connector>>
<1>1. /\ call[c].state = "granted" /\ Issue(c, call[c].kind, call[c].got)
      /\ free' = free /\ UNCHANGED <<cq, loopVars, payloads, shutdown>>
  BY DEF Granted
<1>2. CallHolds(c)
  BY DEF ClientInv, CallsHold
<1>3. /\ ch.connector = "connected" /\ call[c].kind \in CallKinds
      /\ Cardinality(call[c].got) = SizeOf(call[c].kind)
  BY <1>1, <1>2 DEF CallHolds
<1>4. call[c].got \cup {} = call[c].got /\ free' = free \ {} /\ {} \in SUBSET free
  BY <1>1
<1> QED
  BY <1>1, <1>3, <1>4, IssueKeeps

-----------------------------------------------------------------------------
(* The completion loop.                                                    *)

LEMMA SettleFacts ==
  ASSUME NEW c \in Channels, c.pending > 0, NEW d, d = Settle(c)
  PROVE  /\ d \in Channels
         /\ d.pending = c.pending - 1 /\ d.connector = c.connector
         /\ d.phase = c.phase /\ d.destroyed = c.destroyed /\ d.kind = c.kind
         /\ d.closer => c.closer \/ (c.pending = 1 /\ c.phase # "open")
<1> DEFINE last == c.pending = 1 /\ c.phase # "open"
           n == c.pending - 1
           a == c.active /\ ~last
           l == c.closer \/ last
<1>1. n \in Nat /\ a \in BOOLEAN /\ l \in BOOLEAN
  BY DEF Channels
<1>2. d = [c EXCEPT !.pending = n, !.active = a, !.closer = l]
  BY DEF Settle
<1> HIDE DEF last, n, a, l
<1>3. d \in Channels
  BY <1>1, <1>2 DEF Channels
<1>4. /\ d.pending = n /\ d.connector = c.connector
      /\ d.phase = c.phase /\ d.destroyed = c.destroyed /\ d.closer = l
      /\ d.kind = c.kind
  BY <1>2 DEF Channels
<1> QED
  BY <1>3, <1>4 DEF n, l, last

\* An operation that ends leaves its buffer with the pool or with the user.
LEMMA BufferBack ==
  ASSUME BuffersHeld, CallsAreSeparate,
         ConnectOp \notin Outstanding, NEW h \in Outstanding,
         Outstanding' = Outstanding \ {h}, call' = call,
         \/ free' = free \cup {h[2]} /\ payloads' = payloads
         \/ payloads' = payloads \cup {h[2]} /\ free' = free
  PROVE  BuffersHeld' /\ CallsAreSeparate'
<1>1. \A p, q \in Outstanding : p # q => BufferOf(p) # BufferOf(q)
  BY DEF BuffersHeld
<1>2. BufferOf(h) = h[2] /\ BufferOf(h) \in InKernel
  BY DEF BufferOf, InKernel
<1>3. InKernel' = InKernel \ {h[2]}
  BY <1>1, <1>2 DEF InKernel
<1>4. GotByCalls' = GotByCalls
  BY DEF GotByCalls
<1>5. \A p, q \in Outstanding' : p # q => BufferOf(p) # BufferOf(q)
  BY <1>1
<1> QED
  BY <1>2, <1>3, <1>4, <1>5 DEF BuffersHeld, CallsAreSeparate

LEMMA ReleasePayloadKeeps ==
  ASSUME ClientInv, NEW b, ReleasePayload(b)
  PROVE  ClientInv' /\ Outstanding' = Outstanding
<1>1. /\ b \in payloads /\ payloads' = payloads \ {b} /\ free' = free \cup {b}
      /\ UNCHANGED ringVars /\ UNCHANGED <<ch, call, shutdown>>
  BY DEF ReleasePayload
<1>2. RingInv(Operations, ResultsOfAll)' /\ Outstanding' = Outstanding
  BY <1>1, RingStutter DEF ClientInv
<1>3. ClientTypes' /\ Counted' /\ Stages'
  BY <1>1, <1>2 DEF ClientInv, ClientTypes, Counted, Stages, Closing
<1>4. CallsHold'
  BY <1>1, CallsStay DEF ClientInv
<1>5. InKernel' = InKernel /\ GotByCalls' = GotByCalls
  BY <1>1, <1>2 DEF InKernel, GotByCalls
<1>6. BuffersHeld' /\ CallsAreSeparate'
  BY <1>1, <1>2, <1>5 DEF ClientInv, BuffersHeld, CallsAreSeparate
<1> QED
  BY <1>2, <1>3, <1>4, <1>6 DEF ClientInv

LEMMA HandleConnectKeeps ==
  ASSUME ClientInv, HandleConnect
  PROVE  /\ ClientInv' /\ Outstanding' = {}
         /\ \E op \in Outstanding : Outstanding' = Outstanding \ {op}
         /\ ch.destroyed = 0
         /\ UNCHANGED <<ch.phase, ch.destroyed, ch.kind>>
         /\ ch.connector = "connecting" /\ ch'.connector \in {"connected", "failed"}
         /\ ch.phase # "closed"
<1>1. /\ RingInv(Operations, ResultsOfAll) /\ ch \in Channels /\ Stages
      /\ ch.pending = Cardinality(Outstanding)
  BY DEF ClientInv, ClientTypes, Counted
<1>2. /\ NextCqe /\ RemoveEvent /\ Head(cq).op = ConnectOp
      /\ UNCHANGED <<queued, inflight, cancelled>>
      /\ UNCHANGED <<free, payloads, call, shutdown>>
  BY DEF HandleConnect
<1>3. /\ ConnectOp \in Outstanding /\ RingInv(Operations, ResultsOfAll)'
      /\ Outstanding' = Outstanding \ {ConnectOp}
  BY <1>1, <1>2, RingTake
<1>4. /\ ch.connector = "connecting" /\ Outstanding = {ConnectOp} /\ Outstanding' = {}
      /\ ch.destroyed = 0 /\ ch.phase \notin {"draining", "closed"} /\ ~ch.closer
  BY <1>1, <1>3 DEF Stages, Channels
<1>5. ch.pending = 1
  BY <1>1, <1>4, FS_Singleton
<1>6. /\ ch' \in Channels /\ ch'.pending = 0
      /\ ch'.connector \in {"connected", "failed"}
      /\ ch'.phase = ch.phase /\ ch'.destroyed = ch.destroyed /\ ch'.kind = ch.kind
      /\ ch'.closer => ch.phase # "open"
  <2>1. CASE ch.active
    <3> DEFINE k == Settle(ch)
    <3>1. PICK outcome \in {"connected", "failed"} : ch' = [k EXCEPT !.connector = outcome]
      BY <1>4, <2>1 DEF HandleConnect, Registered
    <3>2. /\ k \in Channels /\ k.pending = 0
          /\ k.phase = ch.phase /\ k.destroyed = ch.destroyed /\ k.kind = ch.kind
          /\ k.closer => ch.phase # "open"
      <4>1. ch.pending > 0
        BY <1>5
      <4>2. /\ k \in Channels /\ k.pending = ch.pending - 1
            /\ k.phase = ch.phase /\ k.destroyed = ch.destroyed /\ k.kind = ch.kind
            /\ k.closer => ch.closer \/ (ch.pending = 1 /\ ch.phase # "open")
        BY <1>1, <4>1, SettleFacts
      <4> HIDE DEF k
      <4> QED
        BY <1>4, <1>5, <4>2
    <3> HIDE DEF k
    <3> QED
      BY <3>1, <3>2 DEF Channels
  <2>2. CASE ~ch.active
    <3> DEFINE n == ch.pending - 1
    <3>1. ch' = [ch EXCEPT !.pending = n, !.connector = "failed"]
      BY <1>4, <2>2 DEF HandleConnect, Registered
    <3>2. n = 0
      BY <1>5
    <3> HIDE DEF n
    <3> QED
      BY <1>1, <1>4, <3>1, <3>2 DEF Channels
  <2> QED
    BY <2>1, <2>2
<1>7. ClientTypes'
  BY <1>2, <1>6 DEF ClientInv, ClientTypes
<1>8. Counted'
  BY <1>4, <1>6, FS_EmptySet DEF Counted
<1>9. Stages'
  BY <1>1, <1>4, <1>6 DEF Stages, Closing, Channels
<1>10. CallsHold'
  BY <1>2, <1>4, CallsStay DEF ClientInv
<1>11. BuffersHeld' /\ CallsAreSeparate'
  <2>1. InKernel = {} /\ InKernel' = {} /\ GotByCalls' = GotByCalls
    BY <1>2, <1>4 DEF InKernel, GotByCalls
  <2> QED
    BY <1>2, <1>4, <2>1 DEF ClientInv, BuffersHeld, CallsAreSeparate
<1> QED
  BY <1>3, <1>4, <1>6, <1>7, <1>8, <1>9, <1>10, <1>11 DEF ClientInv

\* The counters after a completion, whatever becomes of its buffer.
LEMMA SettledStages ==
  ASSUME ClientInv, ch.connector = "connected", NEW h \in Outstanding,
         Outstanding' = Outstanding \ {h}, ch' = Settle(ch), shutdown' = shutdown
  PROVE  /\ ch' \in Channels /\ Stages' /\ Counted' /\ ch'.connector = "connected"
         /\ ch'.phase = ch.phase /\ ch'.destroyed = ch.destroyed /\ ch'.kind = ch.kind
<1>1. /\ ch \in Channels /\ Stages /\ ch.pending = Cardinality(Outstanding)
      /\ IsFiniteSet(Outstanding) /\ Outstanding # {}
  BY CountFacts DEF ClientInv, ClientTypes, Counted
<1>2. Cardinality(Outstanding') = ch.pending - 1 /\ ch.pending > 0 /\ ch.pending \in Nat
  <2>1. Cardinality(Outstanding') = Cardinality(Outstanding) - 1
    BY <1>1, FS_RemoveElement
  <2>2. Cardinality(Outstanding) \in Nat /\ Cardinality(Outstanding) # 0
    BY <1>1, CountFacts DEF ClientInv
  <2> QED
    BY <1>1, <2>1, <2>2
<1>3. /\ ch' \in Channels
      /\ ch'.pending = ch.pending - 1 /\ ch'.connector = ch.connector
      /\ ch'.phase = ch.phase /\ ch'.destroyed = ch.destroyed /\ ch'.kind = ch.kind
      /\ ch'.closer => ch.closer \/ (ch.pending = 1 /\ ch.phase # "open")
  BY <1>1, <1>2, SettleFacts
<1>4. ch.pending = 1 => Outstanding' = {}
  <2>1. ch.pending = 1 => Cardinality(Outstanding') = 0
    BY <1>2
  <2>2. IsFiniteSet(Outstanding')
    BY <1>1, FS_RemoveElement
  <2> QED
    BY <2>1, <2>2, FS_EmptySet
<1>5. Stages'
  BY <1>1, <1>3, <1>4 DEF Stages, Closing
<1> QED
  BY <1>2, <1>3, <1>5 DEF Counted

LEMMA HandleDataKeeps ==
  ASSUME ClientInv, HandleData
  PROVE  /\ ClientInv' /\ ch.destroyed = 0
         /\ \E op \in Outstanding : Outstanding' = Outstanding \ {op}
         /\ \/ UNCHANGED <<ch.phase, ch.destroyed>>
            \/ /\ ch.phase = "open" /\ ch'.phase # "open"
               /\ ch'.destroyed > 0 => Outstanding' = {}
               /\ \/ ch'.phase # "closed" /\ ch'.destroyed = 0
                  \/ ch'.phase = "closed" /\ ch'.destroyed = 1
         /\ ch.connector = "connected" /\ ch'.connector = "connected"
         /\ ch'.kind = ch.kind /\ ch.phase # "closed"
<1> DEFINE h == Head(cq).op
<1>1. /\ RingInv(Operations, ResultsOfAll) /\ ClientTypes /\ Stages /\ Counted
      /\ CallsHold /\ BuffersHeld /\ CallsAreSeparate
  BY DEF ClientInv
<1>2. NextCqe /\ h # ConnectOp /\ UNCHANGED <<listening, call, shutdown>>
  BY DEF HandleData
<1>3. \/ RemoveEvent /\ UNCHANGED <<queued, inflight, cancelled>>
      \/ SubmitAndCancel(events \ {h}) /\ events' = {}
  BY DEF HandleData, DropData, DeliverData, EndOfStream, ReceiveError, Outbound, Settled
<1>4. /\ h \in Outstanding /\ h \in Operations /\ RingInv(Operations, ResultsOfAll)'
      /\ Outstanding' = Outstanding \ {h}
  <2>1. CASE RemoveEvent /\ UNCHANGED <<queued, inflight, cancelled>>
    BY <1>1, <1>2, <2>1, RingTake
  <2>2. CASE SubmitAndCancel(events \ {h}) /\ events' = {}
    BY <1>1, <1>2, <2>2, RingTakeCancel
  <2> QED
    BY <1>3, <2>1, <2>2
<1>5. /\ ch \in Channels /\ ch.connector = "connected" /\ ch.destroyed = 0
      /\ ch.phase \notin {"draining", "closed"} /\ ~ch.closer
      /\ ConnectOp \notin Outstanding /\ h[2] \in Buffers
  BY <1>1, <1>2, <1>4, OperationShape DEF Stages, ClientTypes, Channels
<1>6. Registered
  BY <1>5 DEF Registered
<1>7. \/ free' = free \cup {h[2]} /\ payloads' = payloads
      \/ payloads' = payloads \cup {h[2]} /\ free' = free
  BY <1>6 DEF HandleData, DropData, DeliverData, EndOfStream, ReceiveError, Outbound
<1> HIDE DEF h
<1>8. BuffersHeld' /\ CallsAreSeparate'
  BY <1>1, <1>2, <1>4, <1>5, <1>7, BufferBack
<1>9. free' \subseteq Buffers /\ payloads' \subseteq Buffers
  BY <1>1, <1>5, <1>7 DEF ClientTypes
<1>10. CASE ch' = Settle(ch)
  <2>1. /\ ch' \in Channels /\ Stages' /\ Counted' /\ ch'.connector = "connected"
        /\ ch'.phase = ch.phase /\ ch'.destroyed = ch.destroyed /\ ch'.kind = ch.kind
    BY <1>2, <1>4, <1>5, <1>10, SettledStages
  <2>2. ClientTypes'
    BY <1>1, <1>2, <1>9, <2>1 DEF ClientTypes
  <2>3. CallsHold'
    BY <1>1, <1>2, <2>1, CallsStay
  <2> QED
    BY <1>4, <1>5, <1>8, <2>1, <2>2, <2>3 DEF ClientInv
<1>11. CASE ~Closing /\ ch' = BeginClose(Settle(ch), FALSE)
  <2> DEFINE k == Settle(ch)
  <2>1. /\ IsFiniteSet(Outstanding) /\ ch.pending \in Nat /\ ch.pending > 0
        /\ Cardinality(Outstanding') = ch.pending - 1 /\ IsFiniteSet(Outstanding')
    <3>1. IsFiniteSet(Outstanding) /\ Cardinality(Outstanding) \in Nat /\ Cardinality(Outstanding) # 0
      BY <1>1, <1>4, CountFacts
    <3>2. Cardinality(Outstanding') = Cardinality(Outstanding) - 1 /\ IsFiniteSet(Outstanding')
      BY <1>4, <3>1, FS_RemoveElement
    <3> QED
      BY <1>1, <3>1, <3>2 DEF Counted
  <2>2. /\ k \in Channels /\ k.pending = ch.pending - 1 /\ k.connector = "connected"
        /\ k.phase = "open" /\ k.destroyed = 0 /\ ~k.closer /\ k.kind = ch.kind
    <3>1. ch.phase = "open"
      BY <1>11 DEF Closing
    <3>2. /\ k \in Channels /\ k.pending = ch.pending - 1 /\ k.connector = ch.connector
          /\ k.phase = ch.phase /\ k.destroyed = ch.destroyed /\ k.kind = ch.kind
          /\ k.closer => ch.closer \/ (ch.pending = 1 /\ ch.phase # "open")
      BY <1>5, <2>1, SettleFacts
    <3> HIDE DEF k
    <3> QED
      BY <1>5, <3>1, <3>2
  <2>3. ch' = BeginClose(k, FALSE)
    BY <1>11
  <2> HIDE DEF k
  <2>4. /\ ch' \in Channels /\ ch'.pending = k.pending /\ ch'.connector = "connected"
        /\ ~ch'.closer /\ ch'.kind = k.kind
        /\ \/ ch'.phase = "awaitCloser" /\ ch'.destroyed = 0
           \/ k.pending = 0 /\ ch'.phase = "draining" /\ ch'.destroyed = 0
           \/ k.pending = 0 /\ ch'.phase = "closed" /\ ch'.destroyed = 1
    <3>1. CASE k.pending = 0
      <4>1. ch' = LeavePending(k)
        BY <2>3, <3>1 DEF BeginClose
      <4>2. /\ ch' \in Channels
            /\ ch'.pending = k.pending /\ ch'.connector = k.connector
            /\ ch'.closer = k.closer /\ ch'.kind = k.kind
            /\ \/ ch'.phase = "draining" /\ ch'.destroyed = k.destroyed
               \/ ch'.phase = "closed" /\ ch'.destroyed = k.destroyed + 1
        BY <2>2, <4>1, LeavePendingFacts
      <4>3. k.destroyed + 1 = 1
        BY <2>2
      <4>4. ~ch'.closer
        BY <2>2, <4>2
      <4> QED
        BY <2>2, <3>1, <4>2, <4>3, <4>4
    <3>2. CASE k.pending # 0
      <4>1. ch' = [k EXCEPT !.active = FALSE, !.phase = "awaitCloser"]
        BY <2>3, <3>2 DEF BeginClose
      <4> QED
        BY <2>2, <4>1 DEF Channels
    <3> QED
      BY <3>1, <3>2
  <2>5. k.pending = 0 => Outstanding' = {}
    BY <2>1, <2>2, FS_EmptySet
  <2>6. Counted'
    BY <2>1, <2>2, <2>4 DEF Counted
  <2>7. Stages'
    BY <1>1, <1>4, <1>5, <2>4, <2>5 DEF Stages, Closing
  <2>8. ClientTypes'
    BY <1>1, <1>2, <1>9, <2>4 DEF ClientTypes
  <2>9. CallsHold'
    BY <1>1, <1>2, <2>4, CallsStay
  <2>10. /\ ch.phase = "open" /\ ch'.phase # "open"
         /\ ch'.destroyed > 0 => Outstanding' = {}
         /\ ch'.kind = ch.kind
         /\ \/ ch'.phase # "closed" /\ ch'.destroyed = 0
            \/ ch'.phase = "closed" /\ ch'.destroyed = 1
    <3>1. ch'.phase # "open"
      BY <2>4
    <3>2. ch'.destroyed > 0 => k.pending = 0
      BY <2>4
    <3>3. /\ ch'.kind = ch.kind
          /\ \/ ch'.phase # "closed" /\ ch'.destroyed = 0
             \/ ch'.phase = "closed" /\ ch'.destroyed = 1
      BY <2>2, <2>4
    <3> QED
      BY <1>11, <2>5, <3>1, <3>2, <3>3 DEF Closing
  <2> QED
    BY <1>4, <1>5, <1>8, <2>4, <2>6, <2>7, <2>8, <2>9, <2>10 DEF ClientInv
<1> QED
  BY <1>6, <1>10, <1>11
     DEF HandleData, DropData, DeliverData, EndOfStream, ReceiveError, Outbound, Settled

-----------------------------------------------------------------------------
(* The invariant, and what follows from it.                                *)

LEMMA ClientInitial == Init => ClientInv
<1> SUFFICES ASSUME Init PROVE ClientInv
  OBVIOUS
<1>1. RingInv(Operations, ResultsOfAll) /\ Outstanding = {}
  BY RingInitial DEF Init
<1>2. PICK k \in Kinds :
        ch = [kind |-> k, pending |-> 0, active |-> TRUE, phase |-> "open",
              closer |-> FALSE, destroyed |-> 0,
              connector |-> IF k = "udp" THEN "connected" ELSE "none"]
  BY DEF Init
<1>3. /\ ch \in Channels /\ ch.pending = 0 /\ ch.phase = "open" /\ ~ch.closer
      /\ ch.destroyed = 0 /\ ch.connector \in {"connected", "none"}
  BY <1>2 DEF Channels
<1>4. /\ free = Buffers /\ payloads = {} /\ shutdown = "no"
      /\ call = [c \in Calls |-> [state |-> "idle", kind |-> "read", need |-> 0, got |-> {}]]
  BY DEF Init
<1>5. "read" \in DOMAIN EventOf
  BY DEF EventOf
<1>6. call \in [Calls -> Records]
  BY <1>4, <1>5 DEF Records
<1>7. \A c \in Calls : call[c].state = "idle" /\ call[c].got = {}
  BY <1>4
<1>8. ClientTypes
  BY <1>3, <1>4, <1>6 DEF ClientTypes
<1>9. Counted
  BY <1>1, <1>3, FS_EmptySet DEF Counted
<1>10. Stages
  BY <1>1, <1>3, <1>4 DEF Stages, Closing
<1>11. CallsHold
  BY <1>7 DEF CallsHold, CallHolds
<1>12. InKernel = {} /\ GotByCalls = {}
  BY <1>1, <1>7 DEF InKernel, GotByCalls
<1>13. BuffersHeld /\ CallsAreSeparate
  BY <1>1, <1>4, <1>7, <1>12 DEF BuffersHeld, CallsAreSeparate
<1> QED
  BY <1>1, <1>8, <1>9, <1>10, <1>11, <1>13 DEF ClientInv

LEMMA ClientStep == ClientInv /\ [Next]_vars => ClientInv'
<1> SUFFICES ASSUME ClientInv, [Next]_vars PROVE ClientInv'
  OBVIOUS
<1>1. CASE Connect
  BY <1>1, ConnectKeeps
<1>2. CASE \E c \in Calls : Call(c) \/ Resume(c) \/ Granted(c)
  BY <1>2, CallKeeps, ResumeKeeps, GrantedKeeps
<1>3. CASE \E b \in Buffers : ReleasePayload(b)
  BY <1>3, ReleasePayloadKeeps
<1>4. CASE \E graceful \in BOOLEAN : UserClose(graceful) \/ ShutdownClient(graceful)
  BY <1>4, UserCloseKeeps, ShutdownClientKeeps
<1>5. CASE GraceTimeout \/ CloserCompleted \/ JoinedReturns \/ InboundDrained
  BY <1>5, GraceTimeoutKeeps, CloserCompletedKeeps, JoinedReturnsKeeps, InboundDrainedKeeps
<1>6. CASE HandleConnect \/ HandleData
  BY <1>6, HandleConnectKeeps, HandleDataKeeps
<1>7. CASE Peek \/ Collect \/ CheckTimeouts
  BY <1>7, PeekKeeps, CollectKeeps, CheckTimeoutsKeeps
<1>8. CASE ConnectErrorHandler \/ Shutdown
  BY <1>8, ConnectErrorHandlerKeeps, ShutdownKeeps
<1>9. CASE \E op \in Operations : Kernel(op)
  BY <1>9, KernelKeeps
<1>10. CASE UNCHANGED vars
  <2>1. RingInv(Operations, ResultsOfAll)' /\ Outstanding' = Outstanding
    BY <1>10, RingStutter DEF ClientInv, vars
  <2> QED
    BY <1>10, <2>1, RingStep DEF vars
<1> QED
  BY <1>1, <1>2, <1>3, <1>4, <1>5, <1>6, <1>7, <1>8, <1>9, <1>10 DEF Next

\* The invariant holds in every reachable state of a client channel.
THEOREM ClientInvariant == Spec => []ClientInv
BY ClientInitial, ClientStep, PTL DEF Spec

\* Every variable keeps its type: _pending never drops below zero, and a
\* batch is never longer than what the completion queue holds.
THEOREM ClientTypeCorrect == Spec => []TypeOK
<1>1. ClientInv => TypeOK
  <2> SUFFICES ASSUME ClientInv PROVE TypeOK
    OBVIOUS
  <2>1. \A i \in 1..Len(cq) : cq[i].op \in Operations
    BY CompletedInOps DEF ClientInv, RingInv
  <2>2. \A c \in Calls : call[c].got \subseteq Buffers
    BY DEF ClientInv, ClientTypes, Records
  <2> QED
    BY <2>1, <2>2 DEF ClientInv, ClientTypes, RingInv, TypeOK, Channels
<1> QED
  BY <1>1, ClientInvariant, PTL

\* _pending counts exactly what is under way, each operation is in one place,
\* and the completer of a close has completed only when nothing is under way
\* and nothing can start: the code decrements _pending in notify methods and
\* increments it in others, and nothing else keeps them in step.
THEOREM PendingIsOutstanding == Spec => []PendingCountsOutstanding
<1>1. ClientInv => PendingCountsOutstanding
  <2> SUFFICES ASSUME ClientInv PROVE PendingCountsOutstanding
    OBVIOUS
  <2>1. Cardinality(Outstanding) = Cardinality(queued) + Cardinality(inflight) + Len(cq)
    BY OperationsFinite, RingCount DEF ClientInv
  <2>2. ch.closer => Closing /\ ch.pending = 0
    BY CountFacts DEF ClientInv, Stages, Counted
  <2> QED
    BY <2>1, <2>2 DEF ClientInv, Counted, PendingCountsOutstanding
<1> QED
  BY <1>1, ClientInvariant, PTL

\* cancel_by_fd and the timeout checker reach every operation that has not
\* completed and was not cancelled before.
THEOREM NothingEscapes == Spec => []NothingEscapesCancel
<1>1. ClientInv => NothingEscapesCancel
  BY DEF ClientInv, RingInv, NothingEscapesCancel
<1> QED
  BY <1>1, ClientInvariant, PTL

-----------------------------------------------------------------------------
(* A close that has begun is not taken back, and only it refuses calls.    *)

RefusedWhileClosing == \A c \in Calls : call[c].state = "refused" => Closing

\* Only a call that finds the channel closing is refused.
LEMMA IssueRefuses ==
  ASSUME call \in [Calls -> Records], NEW c \in Calls, NEW kind, NEW got,
         Issue(c, kind, got)
  PROVE  \A d \in Calls :
           call'[d].state = "refused" => call[d].state = "refused" \/ Closing
BY DEF Issue

LEMMA AcquireRefuses ==
  ASSUME call \in [Calls -> Records], NEW c \in Calls, NEW kind, NEW got,
         NEW need, NEW resumed, Acquire(c, kind, got, need, resumed)
  PROVE  \A d \in Calls :
           call'[d].state = "refused" => call[d].state = "refused" \/ Closing
<1>1. PICK taken \in SUBSET free :
        \/ Issue(c, kind, got \cup taken)
        \/ call' = [call EXCEPT ![c] =
             [state |-> "granted", kind |-> kind, need |-> 0, got |-> taken]]
        \/ call' = [call EXCEPT ![c] =
             [state |-> "waiting", kind |-> kind,
              need |-> need - Cardinality(taken), got |-> got \cup taken]]
  BY DEF Acquire
<1>2. CASE Issue(c, kind, got \cup taken)
  BY <1>2, IssueRefuses
<1>3. CASE call' = [call EXCEPT ![c] =
             [state |-> "granted", kind |-> kind, need |-> 0, got |-> taken]]
  BY <1>3
<1>4. CASE call' = [call EXCEPT ![c] =
             [state |-> "waiting", kind |-> kind,
              need |-> need - Cardinality(taken), got |-> got \cup taken]]
  <2> DEFINE n == need - Cardinality(taken)
  <2>1. call' = [call EXCEPT ![c] =
             [state |-> "waiting", kind |-> kind, need |-> n, got |-> got \cup taken]]
    BY <1>4
  <2> HIDE DEF n
  <2> QED
    BY <2>1
<1> QED
  BY <1>1, <1>2, <1>3, <1>4

LEMMA CallRefuses ==
  ASSUME ClientInv, NEW c \in Calls, Call(c) \/ Resume(c) \/ Granted(c)
  PROVE  \A d \in Calls :
           call'[d].state = "refused" => call[d].state = "refused" \/ Closing
<1>1. call \in [Calls -> Records]
  BY DEF ClientInv, ClientTypes
<1>2. CASE Call(c)
  <2>1. PICK kind : Acquire(c, kind, {}, SizeOf(kind), FALSE)
    BY <1>2 DEF Call
  <2> QED
    BY <1>1, <2>1, AcquireRefuses
<1>3. CASE Resume(c)
  BY <1>1, <1>3, AcquireRefuses DEF Resume
<1>4. CASE Granted(c)
  BY <1>1, <1>4, IssueRefuses DEF Granted
<1> QED
  BY <1>2, <1>3, <1>4

LEMMA CloseCallCloses ==
  ASSUME ClientInv, NEW graceful \in BOOLEAN, CloseCall(graceful)
  PROVE  Closing => Closing'
<1>1. CASE ch' = ch
  BY <1>1 DEF Closing
<1> QED
  BY <1>1 DEF CloseCall

LEMMA RefusedKeeps ==
  ASSUME ClientInv, RefusedWhileClosing, [Next]_vars
  PROVE  RefusedWhileClosing'
<1>0. ch \in Channels
  BY DEF ClientInv, ClientTypes
<1>1. ASSUME call' = call, Closing => Closing'
      PROVE  RefusedWhileClosing'
  BY <1>1 DEF RefusedWhileClosing
<1>2. CASE \E c \in Calls : Call(c) \/ Resume(c) \/ Granted(c)
  <2>1. PICK c \in Calls : Call(c) \/ Resume(c) \/ Granted(c)
    BY <1>2
  <2>2. \A d \in Calls :
          call'[d].state = "refused" => call[d].state = "refused" \/ Closing
    BY <2>1, CallRefuses
  <2>3. ch'.phase = ch.phase
    BY <2>1, CallKeeps, ResumeKeeps, GrantedKeeps
  <2> QED
    BY <2>2, <2>3 DEF RefusedWhileClosing, Closing
<1>3. CASE Connect
  <2>1. call' = call /\ ch'.phase = ch.phase
    BY <1>0, <1>3 DEF Connect, Channels
  <2> QED
    BY <1>1, <2>1 DEF Closing
<1>4. CASE \E graceful \in BOOLEAN : UserClose(graceful) \/ ShutdownClient(graceful)
  <2>1. PICK graceful \in BOOLEAN : UserClose(graceful) \/ ShutdownClient(graceful)
    BY <1>4
  <2>2. call' = call /\ (CloseCall(graceful) \/ ch' = ch)
    BY <2>1 DEF UserClose, ShutdownClient
  <2>3. Closing => Closing'
    BY <2>2, CloseCallCloses DEF Closing
  <2> QED
    BY <1>1, <2>2, <2>3
<1>5. CASE GraceTimeout \/ CloserCompleted \/ InboundDrained
  <2>1. call' = call
    BY <1>5 DEF GraceTimeout, CloserCompleted, InboundDrained
  <2>2. CASE GraceTimeout
    BY <1>0, <1>1, <2>1, <2>2 DEF GraceTimeout, Closing, Channels
  <2>3. CASE CloserCompleted
    <3>1. ch'.phase # "open"
      BY <1>0, <2>3, LeavePendingFacts DEF CloserCompleted
    <3> QED
      BY <1>1, <2>1, <3>1 DEF Closing
  <2>4. CASE InboundDrained
    BY <1>0, <1>1, <2>1, <2>4 DEF InboundDrained, Closing, Channels
  <2> QED
    BY <1>5, <2>2, <2>3, <2>4
<1>6. CASE HandleConnect
  <2>1. call' = call /\ ch'.phase = ch.phase
    BY <1>6, HandleConnectKeeps DEF HandleConnect
  <2> QED
    BY <1>1, <2>1 DEF Closing
<1>7. CASE HandleData
  <2>1. call' = call /\ (ch'.phase = ch.phase \/ ch'.phase # "open")
    BY <1>7, HandleDataKeeps DEF HandleData
  <2> QED
    BY <1>1, <2>1 DEF Closing
<1>8. CASE ConnectErrorHandler
  <2>1. call' = call /\ ch'.phase = ch.phase
    BY <1>0, <1>8 DEF ConnectErrorHandler, Channels
  <2> QED
    BY <1>1, <2>1 DEF Closing
<1>9. CASE call' = call /\ ch' = ch
  BY <1>1, <1>9 DEF Closing
<1>10. CASE \E b \in Buffers : ReleasePayload(b)
  BY <1>9, <1>10 DEF ReleasePayload
<1>11. CASE JoinedReturns \/ Peek \/ Collect \/ CheckTimeouts \/ Shutdown
  BY <1>9, <1>11 DEF JoinedReturns, Peek, Collect, CheckTimeouts, Shutdown, clientVars
<1>12. CASE \E op \in Operations : Kernel(op)
  BY <1>9, <1>12 DEF Kernel, clientVars
<1>13. CASE UNCHANGED vars
  BY <1>9, <1>13 DEF vars, clientVars
<1> QED
  BY <1>2, <1>3, <1>4, <1>5, <1>6, <1>7, <1>8, <1>10, <1>11, <1>12, <1>13 DEF Next

\* Every buffer is with the pool, the user, one operation the kernel has or one
\* call, never with two of them, and none is lost but what a call keeps that a
\* close has refused (client.dart:59 takes no buffer back).
THEOREM BuffersHaveOneHolder == Spec => []BuffersAreSeparate
<1>1. ClientInv /\ RefusedWhileClosing => BuffersAreSeparate
  <2> SUFFICES ASSUME ClientInv, RefusedWhileClosing PROVE BuffersAreSeparate
    OBVIOUS
  <2>1. BuffersHeld /\ CallsAreSeparate /\ CallsHold /\ call \in [Calls -> Records]
    BY DEF ClientInv, ClientTypes
  <2>2. \A c \in Calls : call[c].got # {} =>
          \/ call[c].state \in {"waiting", "granted"}
          \/ call[c].state = "refused" /\ Closing
    <3> TAKE c \in Calls
    <3>1. call[c] \in Records /\ CallHolds(c)
      BY <2>1 DEF CallsHold
    <3> QED
      BY <3>1 DEF CallHolds, Records, RefusedWhileClosing
  <2> QED
    BY <2>1, <2>2 DEF BuffersHeld, CallsAreSeparate, BuffersAreSeparate
<1>2. Init => RefusedWhileClosing
  BY DEF Init, RefusedWhileClosing
<1>3. ClientInv /\ RefusedWhileClosing /\ [Next]_vars => RefusedWhileClosing'
  BY RefusedKeeps
<1> QED
  BY <1>1, <1>2, <1>3, ClientInvariant, PTL DEF Spec

\* From the moment close() closes the inbound stream, or gives the descriptor
\* up, no operation of the channel is under way: no completion can add data or
\* an error to a closed stream, or reach the next channel of the same number.
THEOREM NothingIsUnderWayAfterTheEnd == Spec => []NothingComesAfterTheEnd
<1>1. ClientInv => NothingComesAfterTheEnd
  BY DEF ClientInv, Stages, NothingComesAfterTheEnd
<1> QED
  BY <1>1, ClientInvariant, PTL

-----------------------------------------------------------------------------
(* The channel implements ChannelLifecycle.                                *)

\* Whether no unixStream channel is closed before its connect is settled: its
\* factory would close and destroy it again.
NoEarlyClose == EarlyShutdown => "unix" \notin Kinds

\* The descriptor is given up once: by close() or by the connect error handler
\* of unixStream, which is then the only one to do it.
GoesOnce ==
  /\ ch.destroyed <= 1
  /\ ch.destroyed = 1 <=> ch.phase = "closed" \/ ch.connector = "disposed"
  /\ ch.kind = "unix" /\ ch.connector # "connected" => ch.phase = "open"
  /\ ch.connector = "disposed" => ch.kind = "unix"

LEMMA LeavePendingOnce ==
  ASSUME ch \in Channels, GoesOnce, ch' = LeavePending(ch), ch.phase # "closed",
         ch.connector # "disposed",
         ch.kind = "unix" => ch.connector = "connected"
  PROVE  GoesOnce'
<1>1. ch.destroyed = 0
  BY DEF GoesOnce, Channels
<1>2. /\ ch'.connector = ch.connector /\ ch'.kind = ch.kind
      /\ \/ ch'.phase = "draining" /\ ch'.destroyed = ch.destroyed
         \/ ch'.phase = "closed" /\ ch'.destroyed = ch.destroyed + 1
  BY LeavePendingFacts
<1>3. \/ ch'.phase = "draining" /\ ch'.destroyed = 0
      \/ ch'.phase = "closed" /\ ch'.destroyed = 1
  BY <1>1, <1>2
<1> QED
  BY <1>2, <1>3 DEF GoesOnce

LEMMA CloseCallOnce ==
  ASSUME ClientInv, GoesOnce, NEW graceful \in BOOLEAN, CloseCall(graceful),
         ch.connector # "disposed",
         ch.kind = "unix" => ch.connector = "connected"
  PROVE  GoesOnce'
<1>1. ch \in Channels
  BY DEF ClientInv, ClientTypes
<1>2. CASE ch' = ch
  BY <1>2 DEF GoesOnce
<1>3. CASE ~Closing /\ ch' = LeavePending(ch)
  BY <1>1, <1>3, LeavePendingOnce DEF Closing
<1>4. CASE ~Closing /\ \E next \in {"grace", "awaitCloser"} :
             ch' = [ch EXCEPT !.active = graceful, !.phase = next]
  <2>1. /\ ch'.destroyed = ch.destroyed /\ ch'.connector = ch.connector
        /\ ch'.kind = ch.kind /\ ch'.phase \in {"grace", "awaitCloser"}
    BY <1>1, <1>4 DEF Channels
  <2> QED
    BY <1>4, <2>1 DEF GoesOnce, Closing
<1> QED
  BY <1>2, <1>3, <1>4 DEF CloseCall, BeginClose

LEMMA GoesOnceKeeps ==
  ASSUME NoEarlyClose, ClientInv, GoesOnce, [Next]_vars
  PROVE  GoesOnce'
<1>0. ch \in Channels /\ Stages
  BY DEF ClientInv, ClientTypes
<1>1. CASE UNCHANGED <<ch.destroyed, ch.phase, ch.connector, ch.kind>>
  BY <1>1 DEF GoesOnce
<1>2. CASE ch' = ch
  BY <1>1, <1>2
<1>3. CASE Connect
  <2>1. /\ ch'.destroyed = ch.destroyed /\ ch'.phase = ch.phase
        /\ ch'.kind = ch.kind /\ ch'.connector = "connecting"
        /\ ch.connector = "none"
    BY <1>0, <1>3 DEF Connect, Channels
  <2> QED
    BY <1>0, <2>1 DEF GoesOnce, Stages
<1>4. CASE \E c \in Calls : Call(c) \/ Resume(c) \/ Granted(c)
  <2>1. UNCHANGED <<ch.phase, ch.destroyed, ch.connector>>
    BY <1>4, CallKeeps, ResumeKeeps, GrantedKeeps
  <2>2. \/ ch' = ch
        \/ \E kind : ch' = [ch EXCEPT !.pending = @ + SizeOf(kind)]
    <3>1. \A c, kind, got : Issue(c, kind, got) =>
            \/ ch' = ch
            \/ ch' = [ch EXCEPT !.pending = @ + SizeOf(kind)]
      BY DEF Issue
    <3>2. \A c, kind, got, need, resumed : Acquire(c, kind, got, need, resumed) =>
            \/ ch' = ch
            \/ ch' = [ch EXCEPT !.pending = @ + SizeOf(kind)]
      BY <3>1 DEF Acquire
    <3> QED
      BY <1>4, <3>1, <3>2, Zenon DEF Call, Resume, Granted
  <2>3. ch'.kind = ch.kind
    BY <1>0, <2>2 DEF Channels
  <2> QED
    BY <1>1, <2>1, <2>3
<1>5. CASE \E graceful \in BOOLEAN : UserClose(graceful)
  BY <1>5, CloseCallOnce DEF UserClose
<1>6. CASE \E graceful \in BOOLEAN : ShutdownClient(graceful)
  <2> PICK graceful \in BOOLEAN : ShutdownClient(graceful)
    BY <1>6
  <2>1. CASE Registered /\ CloseCall(graceful)
    <3>1. ch.destroyed = 0
      BY <2>1 DEF Registered
    <3>2. ch.connector # "disposed"
      BY <3>1 DEF GoesOnce
    <3>3. ch.kind = "unix" => ch.connector = "connected"
      BY <1>0, <3>2 DEF ShutdownClient, ConnectSettled, NoEarlyClose, Channels
    <3> QED
      BY <2>1, <3>2, <3>3, CloseCallOnce
  <2> QED
    BY <1>2, <2>1 DEF ShutdownClient
<1>7. CASE GraceTimeout
  <2>1. /\ ch'.destroyed = ch.destroyed /\ ch'.connector = ch.connector
        /\ ch'.kind = ch.kind /\ ch'.phase = "awaitCloser" /\ ch.phase = "grace"
    BY <1>0, <1>7 DEF GraceTimeout, Channels
  <2> QED
    BY <2>1 DEF GoesOnce
<1>8. CASE CloserCompleted
  <2>1. ch' = LeavePending(ch) /\ ch.phase \in {"awaitCloser", "grace"}
    BY <1>8 DEF CloserCompleted
  <2> QED
    BY <1>0, <2>1, LeavePendingOnce DEF GoesOnce
<1>9. CASE InboundDrained
  <2> DEFINE n == ch.destroyed + 1
  <2>1. ch.phase = "draining" /\ ch' = [ch EXCEPT !.phase = "closed", !.destroyed = n]
    BY <1>9 DEF InboundDrained
  <2>2. ch.destroyed = 0 /\ ch.connector # "disposed"
    BY <1>0, <2>1 DEF GoesOnce, Channels
  <2>3. n = 1
    BY <2>2
  <2> HIDE DEF n
  <2>4. /\ ch'.destroyed = 1 /\ ch'.connector = ch.connector
        /\ ch'.kind = ch.kind /\ ch'.phase = "closed"
    BY <1>0, <2>1, <2>3 DEF Channels
  <2> QED
    BY <2>1, <2>4 DEF GoesOnce
<1>10. CASE ConnectErrorHandler
  <2> DEFINE n == ch.destroyed + 1
  <2>1. /\ ch.kind = "unix" /\ ch.connector = "failed"
        /\ ch' = [ch EXCEPT !.connector = "disposed", !.destroyed = n]
    BY <1>10 DEF ConnectErrorHandler
  <2>2. ch.destroyed = 0 /\ ch.phase = "open"
    BY <1>0, <2>1 DEF GoesOnce, Channels
  <2>3. n = 1
    BY <2>2
  <2> HIDE DEF n
  <2>4. /\ ch'.destroyed = 1 /\ ch'.connector = "disposed"
        /\ ch'.kind = "unix" /\ ch'.phase = "open"
    BY <1>0, <2>1, <2>2, <2>3 DEF Channels
  <2> QED
    BY <2>4 DEF GoesOnce
<1>11. CASE HandleConnect
  <2>1. /\ UNCHANGED <<ch.phase, ch.destroyed, ch.kind>>
        /\ ch.connector = "connecting" /\ ch'.connector \in {"connected", "failed"}
    BY <1>11, HandleConnectKeeps
  <2> QED
    BY <2>1 DEF GoesOnce
<1>12. CASE HandleData
  <2>1. /\ ch.destroyed = 0 /\ ch.connector = "connected"
        /\ ch'.connector = "connected" /\ ch'.kind = ch.kind
        /\ \/ UNCHANGED <<ch.phase, ch.destroyed>>
           \/ ch'.phase # "closed" /\ ch'.destroyed = 0
           \/ ch'.phase = "closed" /\ ch'.destroyed = 1
    BY <1>12, HandleDataKeeps
  <2> QED
    BY <2>1 DEF GoesOnce
<1>13. CASE \E b \in Buffers : ReleasePayload(b)
  BY <1>2, <1>13 DEF ReleasePayload
<1>14. CASE JoinedReturns \/ Peek \/ Collect \/ CheckTimeouts \/ Shutdown
  BY <1>2, <1>14 DEF JoinedReturns, Peek, Collect, CheckTimeouts, Shutdown, clientVars
<1>15. CASE \E op \in Operations : Kernel(op)
  BY <1>2, <1>15 DEF Kernel, clientVars
<1>16. CASE UNCHANGED vars
  BY <1>2, <1>16 DEF vars, clientVars
<1> QED
  BY <1>3, <1>4, <1>5, <1>6, <1>7, <1>8, <1>9, <1>10, <1>11, <1>12, <1>13,
     <1>14, <1>15, <1>16 DEF Next

\* A step of the channel with the operations left alone.
LifecycleStep == [Lifecycle!LifecycleNext]_<<Stage, Outstanding>>

\* The stage of the channel, by cases.
LEMMA StageIs ==
  ASSUME ch \in Channels, GoesOnce
  PROVE  /\ ch.destroyed > 0 => Stage = "closed"
         /\ ch.destroyed = 0 /\ ch.phase # "open" => Stage = "closing"
         /\ ch.destroyed = 0 /\ ch.phase = "open" => Stage = "open"
BY DEF Stage, Closing, Channels, GoesOnce

\* A step that neither starts nor ends an operation: the stages only go on,
\* and the descriptor goes only with nothing under way.
LEMMA StageMoves ==
  ASSUME ch \in Channels, ch' \in Channels, GoesOnce, GoesOnce',
         Outstanding' = Outstanding,
         ch'.destroyed >= ch.destroyed,
         ch.phase # "open" => ch'.phase # "open",
         ch.destroyed = 0 /\ ch'.destroyed > 0 => Outstanding = {}
  PROVE  LifecycleStep
<1>1. /\ ch.destroyed > 0 => Stage = "closed"
      /\ ch.destroyed = 0 /\ ch.phase # "open" => Stage = "closing"
      /\ ch.destroyed = 0 /\ ch.phase = "open" => Stage = "open"
  BY StageIs
<1>2. /\ ch'.destroyed > 0 => Stage' = "closed"
      /\ ch'.destroyed = 0 /\ ch'.phase # "open" => Stage' = "closing"
      /\ ch'.destroyed = 0 /\ ch'.phase = "open" => Stage' = "open"
  BY DEF Stage, Closing, Channels, GoesOnce
<1>3. ch.destroyed \in Nat /\ ch'.destroyed \in Nat
  BY DEF Channels
<1>4. CASE Stage' = Stage
  BY <1>4 DEF LifecycleStep
<1>5. CASE Stage = "open" /\ Stage' # Stage
  <2>1. Stage' = "closing" \/ (Outstanding = {} /\ Stage' = "closed")
    BY <1>1, <1>2, <1>3, <1>5
  <2> QED
    BY <1>5, <2>1 DEF LifecycleStep, Lifecycle!LifecycleNext, Lifecycle!BeginClose
<1>6. CASE Stage = "closing" /\ Stage' # Stage
  <2>1. Outstanding = {} /\ Stage' = "closed"
    BY <1>1, <1>2, <1>3, <1>6
  <2> QED
    BY <1>6, <2>1 DEF LifecycleStep, Lifecycle!LifecycleNext, Lifecycle!EndClose
<1>7. Stage = "closed" => Stage' = Stage
  BY <1>1, <1>2, <1>3
<1> QED
  BY <1>1, <1>3, <1>4, <1>5, <1>6, <1>7

\* The requests of a call start while the channel is open.
LEMMA StartsWhileOpen ==
  ASSUME ClientInv, ClientInv', GoesOnce, GoesOnce', Outstanding \subseteq Outstanding',
         Outstanding' # Outstanding => ~Closing,
         UNCHANGED <<ch.phase, ch.destroyed>>
  PROVE  LifecycleStep
<1>1. ch \in Channels /\ ch' \in Channels
  BY DEF ClientInv, ClientTypes
<1>2. CASE Outstanding' = Outstanding
  BY <1>1, <1>2, StageMoves DEF Channels
<1>3. CASE Outstanding' # Outstanding
  <2>1. ch.phase = "open" /\ ch'.destroyed = 0
    BY <1>1, <1>3 DEF Closing, ClientInv, Stages, Channels
  <2>2. Stage = "open" /\ Stage' = "open"
    BY <1>1, <2>1 DEF Stage, Closing, Channels
  <2>3. Outstanding' \subseteq Operations
    <3>1. RingInv(Operations, ResultsOfAll)'
      BY DEF ClientInv
    <3>2. \A i \in 1..Len(cq') : cq'[i] \in [op : Operations, result : ResultsOfAll]
      BY <3>1, ElementOfSeq DEF RingInv
    <3> QED
      BY <3>1, <3>2 DEF RingInv, Outstanding, Completed
  <2>4. /\ Outstanding' \ Outstanding \in SUBSET (Operations \ Outstanding)
        /\ Outstanding' = Outstanding \cup (Outstanding' \ Outstanding)
    BY <2>3
  <2>5. Lifecycle!Start
    BY <2>2, <2>4 DEF Lifecycle!Start
  <2> QED
    BY <2>5 DEF LifecycleStep, Lifecycle!LifecycleNext
<1> QED
  BY <1>2, <1>3

\* What close() does up to its first await never takes the channel back.
LEMMA CloseMoves ==
  ASSUME ClientInv, ClientInv', GoesOnce, GoesOnce', NEW graceful \in BOOLEAN, CloseCall(graceful),
         Outstanding' = Outstanding
  PROVE  LifecycleStep
<1>1. /\ ch \in Channels /\ ch' \in Channels /\ Stages'
  BY DEF ClientInv, ClientTypes
<1>2. CASE ch' = ch
  BY <1>1, <1>2, StageMoves DEF Channels
<1>3. CASE ~Closing /\ ch' = BeginClose(ch, graceful)
  <2>1. ch.phase = "open"
    BY <1>3 DEF Closing
  <2>2. ch'.destroyed >= ch.destroyed
    <3>1. CASE ch' = LeavePending(ch)
      BY <1>1, <3>1, LeavePendingFacts DEF Channels
    <3>2. CASE \E next \in {"grace", "awaitCloser"} :
                 ch' = [ch EXCEPT !.active = graceful, !.phase = next]
      BY <1>1, <3>2 DEF Channels
    <3> QED
      BY <1>3, <3>1, <3>2 DEF BeginClose
  <2>3. ch'.destroyed > 0 => Outstanding = {}
    BY <1>1 DEF Stages
  <2> QED
    BY <1>1, <2>1, <2>2, <2>3, StageMoves
<1> QED
  BY <1>2, <1>3 DEF CloseCall

\* A completion ends its operation, and may make the channel close itself.
LEMMA CompletionsFinish ==
  ASSUME ClientInv, ClientInv', GoesOnce, GoesOnce', ch.destroyed = 0,
         NEW op \in Outstanding, Outstanding' = Outstanding \ {op},
         \/ UNCHANGED <<ch.phase, ch.destroyed>>
         \/ /\ ch.phase = "open" /\ ch'.phase # "open"
            /\ ch'.destroyed > 0 => Outstanding' = {}
  PROVE  LifecycleStep
<1>1. ch \in Channels /\ ch' \in Channels
  BY DEF ClientInv, ClientTypes
<1>2. /\ ch.phase # "open" => Stage = "closing"
      /\ ch.phase = "open" => Stage = "open"
  BY StageIs, <1>1
<1>3. /\ ch'.destroyed > 0 => Stage' = "closed"
      /\ ch'.destroyed = 0 /\ ch'.phase # "open" => Stage' = "closing"
      /\ ch'.destroyed = 0 /\ ch'.phase = "open" => Stage' = "open"
  BY <1>1 DEF Stage, Closing, Channels, GoesOnce
<1>4. ch'.destroyed \in Nat
  BY <1>1 DEF Channels
<1>5. \/ Stage' = Stage
      \/ Stage = "open" /\ Stage' = "closing"
      \/ Stage = "open" /\ Outstanding' = {} /\ Stage' = "closed"
  BY <1>2, <1>3, <1>4
<1>6. Lifecycle!Finish
  BY <1>5 DEF Lifecycle!Finish
<1> QED
  BY <1>6 DEF LifecycleStep, Lifecycle!LifecycleNext

\* Every step of the channel is a step of its lifecycle, or none.
LEMMA StepIsLifecycleStep ==
  ASSUME ClientInv, ClientInv', GoesOnce, GoesOnce', [Next]_vars
  PROVE  LifecycleStep
<1>0. /\ ch \in Channels /\ ch' \in Channels /\ Stages'
      /\ ch.destroyed \in Nat
  BY DEF ClientInv, ClientTypes, Channels
<1>1. CASE Connect
  <2>1. /\ ch.phase = "open" /\ Outstanding = {} /\ Outstanding' = {ConnectOp}
        /\ ch' = [ch EXCEPT !.connector = "connecting", !.pending = @ + 1]
    BY <1>1, ConnectKeeps DEF Connect, ClientInv, Stages
  <2>2. UNCHANGED <<ch.phase, ch.destroyed>>
    BY <1>0, <2>1 DEF Channels
  <2> QED
    BY <2>1, <2>2, StartsWhileOpen DEF Closing
<1>2. CASE \E c \in Calls : Call(c) \/ Resume(c) \/ Granted(c)
  <2>1. /\ Outstanding \subseteq Outstanding'
        /\ Outstanding' # Outstanding => ~Closing
        /\ UNCHANGED <<ch.phase, ch.destroyed>>
    BY <1>2, CallKeeps, ResumeKeeps, GrantedKeeps
  <2> QED
    BY <2>1, StartsWhileOpen
<1>3. CASE ch' = ch /\ Outstanding' = Outstanding
  BY <1>0, <1>3, StageMoves
<1>4. CASE \E b \in Buffers : ReleasePayload(b)
  BY <1>3, <1>4, ReleasePayloadKeeps DEF ReleasePayload
<1>5. CASE \E graceful \in BOOLEAN : UserClose(graceful)
  BY <1>5, UserCloseKeeps, CloseMoves DEF UserClose
<1>6. CASE \E graceful \in BOOLEAN : ShutdownClient(graceful)
  <2> PICK graceful \in BOOLEAN : ShutdownClient(graceful)
    BY <1>6
  <2>1. Outstanding' = Outstanding
    BY ShutdownClientKeeps
  <2>2. CloseCall(graceful) \/ ch' = ch
    BY DEF ShutdownClient
  <2> QED
    BY <1>3, <2>1, <2>2, CloseMoves
<1>7. CASE GraceTimeout
  <2>1. Outstanding' = Outstanding
    BY <1>7, GraceTimeoutKeeps
  <2>2. ch' = [ch EXCEPT !.active = FALSE, !.phase = "awaitCloser"]
    BY <1>7 DEF GraceTimeout
  <2>3. ch'.phase # "open" /\ ch'.destroyed = ch.destroyed
    BY <1>0, <2>2 DEF Channels
  <2> QED
    BY <1>0, <2>1, <2>3, StageMoves
<1>8. CASE CloserCompleted
  <2>1. Outstanding' = Outstanding /\ Outstanding = {}
    BY <1>8, CloserCompletedKeeps
  <2>2. ch' = LeavePending(ch)
    BY <1>8 DEF CloserCompleted
  <2>3. ch'.phase # "open" /\ ch'.destroyed >= ch.destroyed
    BY <1>0, <2>2, LeavePendingFacts
  <2> QED
    BY <1>0, <2>1, <2>3, StageMoves
<1>9. CASE JoinedReturns
  BY <1>3, <1>9, JoinedReturnsKeeps DEF JoinedReturns
<1>10. CASE InboundDrained
  <2>1. Outstanding' = Outstanding /\ Outstanding = {}
    BY <1>10, InboundDrainedKeeps
  <2>2. ch' = [ch EXCEPT !.phase = "closed", !.destroyed = @ + 1]
    BY <1>10 DEF InboundDrained
  <2>3. ch'.phase # "open" /\ ch'.destroyed >= ch.destroyed
    BY <1>0, <2>2 DEF Channels
  <2> QED
    BY <1>0, <2>1, <2>3, StageMoves
<1>11. CASE ConnectErrorHandler
  <2>1. Outstanding' = Outstanding /\ Outstanding = {}
    BY <1>11, ConnectErrorHandlerKeeps
  <2>2. ch' = [ch EXCEPT !.connector = "disposed", !.destroyed = @ + 1]
    BY <1>11 DEF ConnectErrorHandler
  <2>3. ch'.phase = ch.phase /\ ch'.destroyed >= ch.destroyed
    BY <1>0, <2>2 DEF Channels
  <2> QED
    BY <1>0, <2>1, <2>3, StageMoves
<1>12. CASE HandleConnect
  BY <1>12, HandleConnectKeeps, CompletionsFinish
<1>13. CASE HandleData
  BY <1>13, HandleDataKeeps, CompletionsFinish
<1>14. CASE Peek
  BY <1>3, <1>14, PeekKeeps DEF Peek, clientVars
<1>15. CASE Collect
  BY <1>3, <1>15, CollectKeeps DEF Collect, clientVars
<1>16. CASE CheckTimeouts
  BY <1>3, <1>16, CheckTimeoutsKeeps DEF CheckTimeouts, clientVars
<1>17. CASE Shutdown
  BY <1>3, <1>17, ShutdownKeeps DEF Shutdown
<1>18. CASE \E op \in Operations : Kernel(op)
  BY <1>3, <1>18, KernelKeeps DEF Kernel, clientVars
<1>19. CASE UNCHANGED vars
  <2>1. Outstanding' = Outstanding
    BY <1>19, RingStutter DEF ClientInv, vars
  <2> QED
    BY <1>3, <1>19, <2>1 DEF vars, clientVars
<1> QED
  BY <1>1, <1>2, <1>4, <1>5, <1>6, <1>7, <1>8, <1>9, <1>10, <1>11, <1>12,
     <1>13, <1>14, <1>15, <1>16, <1>17, <1>18, <1>19 DEF Next

\* The channel keeps the contract of ChannelLifecycle: operations start only
\* while it is open, and it gives its descriptor up with none under way, and
\* not a second time - if no unixStream channel is closed while it connects.
\* The code keeps no set of operations: it has the counter, the flags and the
\* completers, spread over notify methods and two awaits.
THEOREM ImplementsLifecycle == NoEarlyClose => (Spec => LifecycleSpec)
<1> SUFFICES ASSUME NoEarlyClose PROVE Spec => LifecycleSpec
  OBVIOUS
<1>1. Init => Lifecycle!LifecycleInit
  <2> SUFFICES ASSUME Init PROVE Lifecycle!LifecycleInit
    OBVIOUS
  <2>1. Outstanding = {}
    BY RingInitial DEF Init
  <2>2. ch.destroyed = 0 /\ ch.phase = "open"
    BY DEF Init
  <2> QED
    BY <2>1, <2>2 DEF Lifecycle!LifecycleInit, Stage, Closing
<1>2. Init => GoesOnce
  <2> SUFFICES ASSUME Init PROVE GoesOnce
    OBVIOUS
  <2>1. ch.destroyed = 0 /\ ch.phase = "open" /\ ch.connector \in {"connected", "none"}
    BY DEF Init
  <2> QED
    BY <2>1 DEF GoesOnce
<1>3. ClientInv /\ GoesOnce /\ [Next]_vars => GoesOnce'
  BY GoesOnceKeeps
<1>4. ClientInv /\ ClientInv' /\ GoesOnce /\ GoesOnce' /\ [Next]_vars
        => [Lifecycle!LifecycleNext]_(Lifecycle!lifecycleVars)
  BY StepIsLifecycleStep DEF LifecycleStep, Lifecycle!lifecycleVars
<1> QED
  BY <1>1, <1>2, <1>3, <1>4, ClientInvariant, PTL
     DEF Spec, LifecycleSpec, Lifecycle!LifecycleSpec
=============================================================================
