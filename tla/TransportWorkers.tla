--------------------------- MODULE TransportWorkers ---------------------------
(***************************************************************************)
(* A Transport and its workers: the ports between them, the set-up of a    *)
(* worker, its loop, and the shutdown that stops everything                *)
(* (transport.dart, worker.dart, worker_initialize and worker_destroy).    *)
(*                                                                         *)
(* Every worker and the transport may be an isolate of its own: a step is  *)
(* what one of them does between two awaits.  Messages of a port arrive    *)
(* some time later.  A channel is one of its kind; how its close comes to  *)
(* an end is the matter of TransportClient, TransportServer, FileChannel.  *)
(***************************************************************************)
EXTENDS Integers, FiniteSets, TLC

CONSTANTS
  Workers,
  Shutdowns,  \* bound: the calls of shutdown(), 1..n
  Opens       \* bound: the kinds of channels the user of a worker opens

Kinds == {"files", "clients", "servers"}

\* The stages of the closer handler: not called, the registry it waits for,
\* _done, the end, an exception.
Stages == {"idle", "done", "finished", "broken"} \cup Kinds

ASSUME WorkersAssumption ==
  /\ IsFiniteSet(Workers) /\ IsFiniteSet(Shutdowns) /\ Shutdowns \subseteq Nat
  /\ Opens \in [Workers -> SUBSET Kinds]

VARIABLES
  mail,       \* mail[m][w]: messages m from or to worker w under way
  registered, \* _workerClosers
  shutdown,   \* the stage of the first shutdown(): no, waiting, ended
  calls,      \* the calls of shutdown() so far
  expected,   \* the n of _workerDestroyer.take(n)
  received,   \* messages it took
  native,     \* native[w]: the transport_worker_t
  destroys,   \* destroys[w]: calls of transport_worker_destroy after use
  dart,       \* dart[w]: the TransportWorker
  loop,       \* loop[w]: _listen
  timer,      \* timer[w]: the periodic timer of the timeout checker runs
  active,     \* active[w]: _active
  closer,     \* closer[w][n]: stage of the n-th run of the closer handler
  left,       \* left[w][n]: the channels of the registry it waits for
  open,       \* open[w]: the channels in the registries
  connecting, \* connecting[w]: those that are clients not connected yet
  closing,    \* closing[w]: those whose first close() is under way
  joined,     \* joined[w][n]: those the n-th run found closing already
  late        \* those opened when their registry had been closed

transport == <<registered, shutdown, calls, expected, received>>
isolate == <<dart, loop, timer, active>>
channels == <<closer, left, open, connecting, closing, joined, late>>
vars == <<mail, transport, native, destroys, isolate, channels>>

Messages == {"ports", "input", "close", "destroyed"}

Init ==
  /\ mail = [m \in Messages |-> [w \in Workers |-> 0]]
  /\ registered = {} /\ shutdown = "no" /\ calls = 0
  /\ expected = 0 /\ received = 0
  /\ native = [w \in Workers |-> "none"]
  /\ destroys = [w \in Workers |-> 0]
  /\ dart = [w \in Workers |-> "none"]
  /\ loop = [w \in Workers |-> "off"]
  /\ timer = [w \in Workers |-> FALSE]
  /\ active = [w \in Workers |-> TRUE]
  /\ closer = [w \in Workers |-> [n \in Shutdowns |-> "idle"]]
  /\ left = [w \in Workers |-> [n \in Shutdowns |-> {}]]
  /\ open = [w \in Workers |-> {}]
  /\ connecting = [w \in Workers |-> {}]
  /\ closing = [w \in Workers |-> {}]
  /\ joined = [w \in Workers |-> [n \in Shutdowns |-> {}]]
  /\ late = [w \in Workers |-> {}]

Crashed == \E w \in Workers : native[w] = "crashed"

Sent(m, w) == [mail EXCEPT ![m][w] = @ + 1]
Taken(m, w) == [mail EXCEPT ![m][w] = @ - 1]

(* ---- the transport ---- *)

\* Transport.worker() and the constructor of TransportWorker.  The port of a
\* worker() called before the shutdown ended has been closed by it, that of a
\* later one is open.
Construct(w) ==
  /\ dart[w] = "none"
  /\ dart' = [dart EXCEPT ![w] = "constructed"]
  /\ \/ mail' = Sent("ports", w)
     \/ shutdown = "ended" /\ UNCHANGED mail
  /\ UNCHANGED <<transport, native, destroys, loop, timer, active, channels>>

\* transport_worker_initialize, and transport_worker_destroy when it fails:
\* memory that ran out leaves no ring to exit; a ring that could not be set
\* up is whatever malloc returned; only the registration of the buffers
\* fails with everything else in place.
Initialized(w) ==
  \E outcome \in {"ready", "noMemory", "noRing", "notRegistered"} :
    CASE outcome = "ready" ->
           /\ native' = [native EXCEPT ![w] = "ready"]
           /\ mail' = [Taken("ports", w) EXCEPT !["input"][w] = @ + 1]
      [] outcome = "noMemory" ->
           /\ native' = [native EXCEPT ![w] = "crashed"]
           /\ mail' = Taken("ports", w)
      [] outcome = "noRing" ->
           /\ native' \in {[native EXCEPT ![w] = n] : n \in {"crashed", "failed"}}
           /\ mail' = Taken("ports", w)
      [] outcome = "notRegistered" ->
           /\ native' = [native EXCEPT ![w] = "failed"]
           /\ mail' = Taken("ports", w)

\* The handler of the port of Transport.worker().
ReceivePorts(w) ==
  /\ mail["ports"][w] > 0
  /\ registered' = registered \cup {w}
  /\ Initialized(w)
  /\ UNCHANGED <<shutdown, calls, expected, received, destroys, isolate, channels>>

CloseSent == [mail EXCEPT !["close"] =
                [w \in Workers |-> IF w \in registered THEN @[w] + 1 ELSE @[w]]]

\* The end of shutdown(): the ports of worker() are closed, and what is on its
\* way to them is lost.
PortsClosed(m) == [m EXCEPT !["ports"] = [w \in Workers |-> 0]]

\* Mutation of CallShutdown: one worker is not waited for.
CallShutdownTakesLess ==
  /\ calls = 0
  /\ calls' = calls + 1
  /\ mail' = CloseSent
  /\ shutdown' = IF Cardinality(registered) < 2 THEN "ended" ELSE "waiting"
  /\ expected' = Cardinality(registered) - 1
  /\ UNCHANGED <<registered, received, native, destroys, isolate, channels>>

\* shutdown(): a second call sends again and then fails, because the port of
\* the destroyer is listened to already.
CallShutdown ==
  /\ calls + 1 \in Shutdowns
  /\ calls' = calls + 1
  /\ IF calls > 0
     THEN mail' = CloseSent /\ UNCHANGED <<shutdown, expected>>
     ELSE /\ expected' = Cardinality(registered)
          /\ IF registered = {}
             THEN mail' = PortsClosed(mail) /\ shutdown' = "ended"
             ELSE mail' = CloseSent /\ shutdown' = "waiting"
  /\ UNCHANGED <<registered, received, native, destroys, isolate, channels>>

\* The messages of _workerDestroyer, until the expected number is there.
ReceiveDestroyed(w) ==
  /\ mail["destroyed"][w] > 0
  /\ received' = IF shutdown = "waiting" THEN received + 1 ELSE received
  /\ IF shutdown = "waiting" /\ received' >= expected
     THEN mail' = PortsClosed(Taken("destroyed", w)) /\ shutdown' = "ended"
     ELSE mail' = Taken("destroyed", w) /\ UNCHANGED shutdown
  /\ UNCHANGED <<registered, calls, expected, native, destroys, isolate, channels>>

(* ---- a worker ---- *)

\* The user calls initialize(), which waits for the message.
CallInitialize(w) ==
  /\ dart[w] = "constructed"
  /\ dart' = [dart EXCEPT ![w] = "initializing"]
  /\ UNCHANGED <<mail, transport, native, destroys, loop, timer, active, channels>>

\* The rest of initialize(): the timer and the loop start.
FinishInitialize(w) ==
  /\ dart[w] = "initializing" /\ mail["input"][w] > 0
  /\ mail' = Taken("input", w)
  /\ dart' = [dart EXCEPT ![w] = "initialized"]
  /\ timer' = [timer EXCEPT ![w] = TRUE]
  /\ loop' = [loop EXCEPT ![w] = "running"]
  /\ UNCHANGED <<transport, native, destroys, active, channels>>

\* _listen finds the worker inactive after a delay.
LoopEnds(w) ==
  /\ loop[w] = "running" /\ ~active[w]
  /\ loop' = [loop EXCEPT ![w] = "ended"]
  /\ UNCHANGED <<mail, transport, native, destroys, dart, timer, active, channels>>

\* A callback of the user throws inside _handleCqes: transport_cqe_advance
\* is not reached and _listen is over without completing _done.
HandlerThrows(w) ==
  /\ loop[w] = "running" /\ active[w] /\ open[w] # {}
  /\ loop' = [loop EXCEPT ![w] = "dead"]
  /\ UNCHANGED <<mail, transport, native, destroys, dart, timer, active, channels>>

\* The registries that a run of the handler has already taken its snapshot of.
Passed(stage) ==
  CASE stage \in {"idle", "broken"} -> {}
    [] stage = "files" -> {"files"}
    [] stage = "clients" -> {"files", "clients"}
    [] OTHER -> Kinds

\* A factory opens a channel; nothing stops it during a shutdown.  A TCP or
\* unix client still has to connect, and is nobody's until it has.
OpenChannel(w, kind) ==
  /\ dart[w] = "initialized" /\ destroys[w] = 0 /\ kind \in Opens[w] \ open[w]
  /\ open' = [open EXCEPT ![w] = @ \cup {kind}]
  /\ \/ UNCHANGED connecting
     \/ kind = "clients" /\ connecting' = [connecting EXCEPT ![w] = @ \cup {kind}]
  /\ late' = [late EXCEPT ![w] =
                IF \E n \in Shutdowns : kind \in Passed(closer[w][n])
                THEN @ \cup {kind} ELSE @ \ {kind}]
  /\ UNCHANGED <<mail, transport, native, destroys, isolate, closer, left, closing, joined>>

\* The connect has an outcome, in time for a close that may wait for it.
ConnectEnds(w, kind) ==
  /\ kind \in connecting[w] /\ destroys[w] = 0
  /\ connecting' = [connecting EXCEPT ![w] = @ \ {kind}]
  /\ UNCHANGED <<mail, transport, native, destroys, isolate, closer, left, open,
                 closing, joined, late>>

\* A channel is closed by its user, by its factory or by itself.
BeginClose(w, kind) ==
  /\ kind \in open[w] \ (closing[w] \cup connecting[w]) /\ destroys[w] = 0
  /\ closing' = [closing EXCEPT ![w] = @ \cup {kind}]
  /\ UNCHANGED <<mail, transport, native, destroys, isolate, closer, left, open,
                 connecting, joined, late>>

\* The first close() is over, and the channel out of its registry.  That of a
\* client whose connect has no outcome, or came too late for it, is never over.
EndClose(w, kind) ==
  /\ kind \in closing[w] \ connecting[w] /\ destroys[w] = 0
  /\ open' = [open EXCEPT ![w] = @ \ {kind}]
  /\ closing' = [closing EXCEPT ![w] = @ \ {kind}]
  /\ late' = [late EXCEPT ![w] = @ \ {kind}]
  /\ left' = [left EXCEPT ![w] = [n \in Shutdowns |-> @[n] \ {kind}]]
  /\ joined' = [joined EXCEPT ![w] = [n \in Shutdowns |-> @[n] \ {kind}]]
  /\ UNCHANGED <<mail, transport, native, destroys, isolate, closer, connecting>>

(* ---- the closer handler of a worker ---- *)

NextStage(stage) ==
  CASE stage = "files" -> "clients" [] stage = "clients" -> "servers"
    [] stage = "servers" -> "done"

\* The close() of a registry: it closes its channels of this moment and waits
\* for them.  Some may be closing already: those it joins.
Enter(w, n, stage) ==
  LET found == open[w] \cap {stage}
  IN  /\ closer' = [closer EXCEPT ![w][n] = stage]
      /\ left' = [left EXCEPT ![w][n] = found]
      /\ closing' = [closing EXCEPT ![w] = @ \cup found]
      /\ joined' = [joined EXCEPT ![w][n] = @ \cup (found \cap closing[w])]

\* A close() that joined another returns at once, or with its _closer: before
\* the other is over.
JoinReturns(w, n, kind) ==
  /\ kind \in left[w][n] \cap joined[w][n] /\ destroys[w] = 0
  /\ left' = [left EXCEPT ![w][n] = @ \ {kind}]
  /\ UNCHANGED <<mail, transport, native, destroys, isolate, closer, open,
                 connecting, closing, joined, late>>

\* The n-th message: the late fields are not there before initialize().
ReceiveClose(w, n) ==
  /\ mail["close"][w] > 0 /\ destroys[w] = 0 /\ closer[w][n] = "idle"
  /\ \A m \in Shutdowns : m < n => closer[w][m] # "idle"
  /\ mail' = Taken("close", w)
  /\ IF dart[w] = "initialized"
     THEN timer' = [timer EXCEPT ![w] = FALSE] /\ Enter(w, n, "files")
     ELSE /\ closer' = [closer EXCEPT ![w][n] = "broken"]
          /\ UNCHANGED <<timer, left, closing, joined>>
  /\ UNCHANGED <<transport, native, destroys, dart, loop, active, open, connecting, late>>

\* Mutation of RegistryClosed: the handler does not wait for the channels.
RegistryNotAwaited(w, n) ==
  /\ closer[w][n] \in Kinds
  /\ Enter(w, n, NextStage(closer[w][n]))
  /\ active' = IF closer[w][n] = "servers" THEN [active EXCEPT ![w] = FALSE]
               ELSE active
  /\ UNCHANGED <<mail, transport, native, destroys, dart, loop, timer, open,
                 connecting, late>>

\* Mutation of RegistryClosed: the handler waits until the registry is empty.
RegistryEmpty(w, n) ==
  /\ closer[w][n] \in Kinds /\ closer[w][n] \notin open[w]
  /\ Enter(w, n, NextStage(closer[w][n]))
  /\ active' = IF closer[w][n] = "servers" THEN [active EXCEPT ![w] = FALSE]
               ELSE active
  /\ UNCHANGED <<mail, transport, native, destroys, dart, loop, timer, open,
                 connecting, late>>

\* The registry has closed its channels; after the last one the worker is
\* inactive and the handler waits for _done.
RegistryClosed(w, n) ==
  /\ closer[w][n] \in Kinds /\ left[w][n] = {}
  /\ Enter(w, n, NextStage(closer[w][n]))
  /\ active' = IF closer[w][n] = "servers" THEN [active EXCEPT ![w] = FALSE]
               ELSE active
  /\ UNCHANGED <<mail, transport, native, destroys, dart, loop, timer, open,
                 connecting, late>>

\* Mutation of Destroy: the handler goes on waiting and destroys again.
DestroyAgain(w, n) ==
  /\ closer[w][n] = "done" /\ loop[w] = "ended" /\ destroys[w] < 2
  /\ native' = [native EXCEPT ![w] = "destroyed"]
  /\ destroys' = [destroys EXCEPT ![w] = @ + 1]
  /\ UNCHANGED <<mail, transport, isolate, channels>>

\* transport_worker_destroy, when the loop has completed _done.
Destroy(w, n) ==
  /\ closer[w][n] = "done" /\ loop[w] = "ended"
  /\ closer' = [closer EXCEPT ![w][n] = "finished"]
  /\ native' = [native EXCEPT ![w] = "destroyed"]
  /\ destroys' = [destroys EXCEPT ![w] = @ + 1]
  /\ mail' = [Sent("destroyed", w) EXCEPT !["close"][w] = 0]
  /\ UNCHANGED <<transport, isolate, left, open, connecting, closing, joined, late>>

Deliver(w) ==
  \/ ReceivePorts(w) \/ ReceiveDestroyed(w)
  \/ FinishInitialize(w)
  \/ \E n \in Shutdowns : ReceiveClose(w, n)

Closing(w) ==
  \/ LoopEnds(w)
  \/ \E n \in Shutdowns : RegistryClosed(w, n) \/ Destroy(w, n)
  \/ \E n \in Shutdowns, kind \in Kinds : JoinReturns(w, n, kind)
  \/ \E kind \in Kinds : EndClose(w, kind)

User(w) ==
  \/ Construct(w) \/ CallInitialize(w) \/ HandlerThrows(w)
  \/ \E kind \in Kinds : OpenChannel(w, kind) \/ ConnectEnds(w, kind) \/ BeginClose(w, kind)

Next ==
  /\ ~Crashed
  /\ \/ CallShutdown
     \/ \E w \in Workers : Deliver(w) \/ Closing(w) \/ User(w)

\* Messages arrive, and a handler that can go on does: it, too, is told when
\* a close it waits for is over, which CloseTerminates, CloseEnds and CallsEnd
\* say of every close but that of a client which is still connecting.
Fairness ==
  \A w \in Workers :
    /\ WF_vars(~Crashed /\ Deliver(w))
    /\ WF_vars(~Crashed /\ LoopEnds(w))
    /\ \A n \in Shutdowns :
         /\ WF_vars(~Crashed /\ RegistryClosed(w, n))
         /\ WF_vars(~Crashed /\ Destroy(w, n))
         /\ \A kind \in Kinds :
              /\ WF_vars(~Crashed /\ JoinReturns(w, n, kind))
              /\ WF_vars(~Crashed /\ kind \in left[w][n] /\ EndClose(w, kind))

Spec == Init /\ [][Next]_vars /\ Fairness

(* ---- properties ---- *)

\* The type invariant.
TypeOK ==
  /\ mail \in [Messages -> [Workers -> Nat]]
  /\ registered \subseteq Workers
  /\ shutdown \in {"no", "waiting", "ended"} /\ {calls, expected, received} \subseteq Nat
  /\ native \in [Workers -> {"none", "ready", "failed", "crashed", "destroyed"}]
  /\ destroys \in [Workers -> 0..Cardinality(Shutdowns)]
  /\ dart \in [Workers -> {"none", "constructed", "initializing", "initialized"}]
  /\ loop \in [Workers -> {"off", "running", "ended", "dead"}]
  /\ timer \in [Workers -> BOOLEAN] /\ active \in [Workers -> BOOLEAN]
  /\ closer \in [Workers -> [Shutdowns -> Stages]]
  /\ left \in [Workers -> [Shutdowns -> SUBSET Kinds]]
  /\ {open, connecting, closing, late} \subseteq [Workers -> SUBSET Kinds]
  /\ joined \in [Workers -> [Shutdowns -> SUBSET Kinds]]

\* The memory of a worker is freed once, when neither its loop nor its timer
\* will touch it again.  The channels left on it are those the code does not
\* wait for, and no others: opened when the shutdown had passed their registry,
\* or closing already when it came to them, so that its own close() returned
\* before the first one did.
NothingUsesAFreedWorker ==
  \A w \in Workers : destroys[w] > 0 =>
    /\ destroys[w] = 1 /\ native[w] = "destroyed"
    /\ loop[w] = "ended" /\ ~timer[w]
    /\ open[w] \subseteq late[w] \cup UNION {joined[w][n] : n \in Shutdowns}

\* When shutdown() returns every worker it sent a message to is destroyed.
EndMeansDestroyed ==
  shutdown = "ended" =>
    \A w \in registered :
      destroys[w] = 0 => closer[w][1] = "idle" /\ mail["close"][w] = 0

\* What keeps a shutdown from ending: a worker whose set-up failed, that was
\* not initialized when the message came, or whose loop a callback ended; and
\* a client that is closed while it connects.
Spoiled ==
  \/ Crashed
  \/ \E w \in registered :
       closer[w][1] = "broken" \/ loop[w] = "dead" \/ connecting[w] \cap closing[w] # {}

\* shutdown() returns, unless one of these things happens: other channels may
\* be open, opened, closed or found closing meanwhile.
ShutdownEnds == shutdown = "waiting" ~> shutdown = "ended" \/ Spoiled
=============================================================================
