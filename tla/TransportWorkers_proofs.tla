----------------------- MODULE TransportWorkers_proofs -----------------------
(***************************************************************************)
(* Proofs about a transport and its workers (module TransportWorkers), for *)
(* any number of workers: their types with any number of shutdowns, and    *)
(* what one shutdown promises.  (A second shutdown destroys every worker   *)
(* again, so the promises are about Shutdowns = {1}.)                      *)
(*                                                                         *)
(* Nothing in the code relates the messages a port counts to the workers   *)
(* they come from.  ShutdownInv does: the workers that were told are the   *)
(* ones that are waited for, and each of them is destroyed, and counted,   *)
(* at most once.                                                           *)
(***************************************************************************)
EXTENDS TransportWorkers, FiniteSetTheorems, TLAPS

Finished(w) == {n \in Shutdowns : closer[w][n] = "finished"}

WorkerTypes ==
  /\ TypeOK
  /\ \A w \in Workers : destroys[w] = Cardinality(Finished(w))

-----------------------------------------------------------------------------
(* One shutdown.                                                           *)

\* The workers the shutdown sent a message to, and those it has heard of.
Told == {w \in Workers : mail["close"][w] > 0 \/ closer[w][1] # "idle"}
Heard == {w \in Workers : closer[w][1] = "finished" /\ mail["destroyed"][w] = 0}

\* The messages of one worker.
MailOf(w) ==
  /\ mail["ports"][w] + mail["input"][w] <= 1
  /\ dart[w] \in {"none", "initialized"} => mail["ports"][w] = 0 /\ mail["input"][w] = 0
  /\ mail["close"][w] <= 1
  /\ closer[w][1] # "idle" => mail["close"][w] = 0
  /\ mail["destroyed"][w] <= 1
  /\ mail["destroyed"][w] > 0 => closer[w][1] = "finished"

\* How far the closer handler of a worker has come, and what that excludes.
HandlerOf(w) ==
  /\ closer[w][1] \notin {"idle", "broken"} => dart[w] = "initialized" /\ ~timer[w]
  /\ destroys[w] = IF closer[w][1] = "finished" THEN 1 ELSE 0
  /\ closer[w][1] = "finished" => native[w] = "destroyed" /\ loop[w] = "ended"
  /\ left[w][1] \subseteq {closer[w][1]}
  /\ open[w] \cap Passed(closer[w][1]) \subseteq late[w] \cup left[w][1] \cup joined[w][1]

ShutdownInv ==
  /\ calls \in {0, 1}
  /\ calls = 0 <=> shutdown = "no"
  /\ shutdown = "no" => Told = {} /\ received = 0
  /\ shutdown = "waiting" => expected = Cardinality(Told) /\ received = Cardinality(Heard)
  /\ shutdown = "ended" => \A w \in Told : closer[w][1] = "finished"

WorkersInv ==
  /\ WorkerTypes
  /\ \A w \in Workers : MailOf(w) /\ HandlerOf(w)
  /\ ShutdownInv

-----------------------------------------------------------------------------
(* Types.                                                                  *)

\* Finished runs are counted by destroys: a step that finishes none.
LEMMA NoneFinishes ==
  ASSUME WorkerTypes, TypeOK', UNCHANGED destroys,
         \A w \in Workers : \A n \in Shutdowns :
            closer'[w][n] = "finished" <=> closer[w][n] = "finished"
  PROVE  WorkerTypes'
<1>1. \A w \in Workers : Finished(w)' = Finished(w)
  BY DEF Finished
<1> QED
  BY <1>1 DEF WorkerTypes

LEMMA TransportTypes ==
  ASSUME WorkerTypes,
         \/ CallShutdown
         \/ \E w \in Workers : ReceivePorts(w) \/ ReceiveDestroyed(w)
  PROVE  WorkerTypes'
<1>1. TypeOK
  BY DEF WorkerTypes
<1>2. CASE CallShutdown
  <2>1. mail' \in [Messages -> [Workers -> Nat]]
    <3>1. mail' \in {CloseSent, PortsClosed(mail)}
      BY <1>2 DEF CallShutdown
    <3>2. CloseSent \in [Messages -> [Workers -> Nat]]
      BY <1>1 DEF CloseSent, TypeOK, Messages
    <3>3. PortsClosed(mail) \in [Messages -> [Workers -> Nat]]
      BY <1>1 DEF PortsClosed, TypeOK, Messages
    <3> QED
      BY <3>1, <3>2, <3>3
  <2>2. Cardinality(registered) \in Nat
    BY <1>1, WorkersAssumption, FS_Subset, FS_CardinalityType DEF TypeOK
  <2>3. /\ calls' \in Nat /\ expected' \in Nat /\ received' \in Nat
        /\ shutdown' \in {"no", "waiting", "ended"}
    BY <1>1, <1>2, <2>2 DEF CallShutdown, TypeOK
  <2>4. UNCHANGED <<registered, native, destroys, isolate, channels>>
    BY <1>2 DEF CallShutdown
  <2>5. TypeOK'
    BY <1>1, <2>1, <2>3, <2>4 DEF TypeOK, isolate, channels
  <2> QED
    BY <2>4, <2>5, NoneFinishes DEF channels
<1>3. ASSUME NEW w \in Workers, ReceivePorts(w) PROVE WorkerTypes'
  <2>1. /\ mail' \in [Messages -> [Workers -> Nat]]
        /\ native' \in [Workers -> {"none", "ready", "failed", "crashed", "destroyed"}]
    <3>0. mail["ports"][w] \in Nat \ {0} /\ mail["input"][w] \in Nat
      BY <1>1, <1>3 DEF ReceivePorts, TypeOK, Messages
    <3>1. Taken("ports", w) \in [Messages -> [Workers -> Nat]]
      <4> DEFINE n == mail["ports"][w] - 1
      <4>1. n \in Nat /\ Taken("ports", w) = [mail EXCEPT !["ports"][w] = n]
        BY <3>0 DEF Taken
      <4>2. mail \in [Messages -> [Workers -> Nat]] /\ "ports" \in Messages
        BY <1>1 DEF TypeOK, Messages
      <4> HIDE DEF n
      <4> QED
        BY <4>1, <4>2
    <3>2. [Taken("ports", w) EXCEPT !["input"][w] = @ + 1] \in [Messages -> [Workers -> Nat]]
      <4> DEFINE t == Taken("ports", w)
      <4> HIDE DEF t
      <4> QED
        BY <3>1 DEF Messages, t
    <3>3. mail' \in {Taken("ports", w), [Taken("ports", w) EXCEPT !["input"][w] = @ + 1]}
      BY <1>3 DEF ReceivePorts, Initialized
    <3>4. \E n \in {"ready", "crashed", "failed"} : native' = [native EXCEPT ![w] = n]
      BY <1>3 DEF ReceivePorts, Initialized
    <3>5. native \in [Workers -> {"none", "ready", "failed", "crashed", "destroyed"}]
      BY <1>1 DEF TypeOK
    <3>6. native' \in [Workers -> {"none", "ready", "failed", "crashed", "destroyed"}]
      BY <3>4, <3>5
    <3> QED
      BY <3>1, <3>2, <3>3, <3>6
  <2>2. /\ registered' \subseteq Workers
        /\ UNCHANGED <<shutdown, calls, expected, received, destroys, isolate, channels>>
    BY <1>1, <1>3 DEF ReceivePorts, TypeOK
  <2>3. TypeOK'
    BY <1>1, <2>1, <2>2 DEF TypeOK, isolate, channels
  <2> QED
    BY <2>2, <2>3, NoneFinishes DEF channels
<1>4. ASSUME NEW w \in Workers, ReceiveDestroyed(w) PROVE WorkerTypes'
  <2>1. /\ mail' \in [Messages -> [Workers -> Nat]]
        /\ received' \in Nat /\ shutdown' \in {"no", "waiting", "ended"}
        /\ UNCHANGED <<registered, calls, expected, native, destroys, isolate, channels>>
    <3>1. mail["destroyed"][w] \in Nat \ {0}
      BY <1>1, <1>4 DEF ReceiveDestroyed, TypeOK, Messages
    <3> DEFINE t == Taken("destroyed", w)
    <3>2. t \in [Messages -> [Workers -> Nat]]
      <4> DEFINE n == mail["destroyed"][w] - 1
      <4>1. n \in Nat /\ t = [mail EXCEPT !["destroyed"][w] = n]
        BY <3>1 DEF Taken
      <4>2. mail \in [Messages -> [Workers -> Nat]] /\ "destroyed" \in Messages
        BY <1>1 DEF TypeOK, Messages
      <4> HIDE DEF n, t
      <4> QED
        BY <4>1, <4>2
    <3>3. mail' \in {t, PortsClosed(t)}
      BY <1>4 DEF ReceiveDestroyed
    <3> HIDE DEF t
    <3>4. mail' \in [Messages -> [Workers -> Nat]]
      BY <3>2, <3>3 DEF PortsClosed, Messages
    <3> QED
      BY <1>1, <1>4, <3>4 DEF ReceiveDestroyed, TypeOK
  <2>2. TypeOK'
    BY <1>1, <2>1 DEF TypeOK, isolate, channels
  <2> QED
    BY <2>1, <2>2, NoneFinishes DEF channels
<1> QED
  BY <1>2, <1>3, <1>4

LEMMA IsolateTypes ==
  ASSUME WorkerTypes, NEW w \in Workers,
         \/ Construct(w) \/ CallInitialize(w) \/ FinishInitialize(w)
         \/ LoopEnds(w) \/ HandlerThrows(w)
  PROVE  WorkerTypes'
<1>1. TypeOK
  BY DEF WorkerTypes
<1>2. /\ UNCHANGED <<transport, native, destroys, active, channels>>
      /\ dart' \in [Workers -> {"none", "constructed", "initializing", "initialized"}]
      /\ loop' \in [Workers -> {"off", "running", "ended", "dead"}]
      /\ timer' \in [Workers -> BOOLEAN]
  BY <1>1 DEF TypeOK, Construct, CallInitialize, FinishInitialize, LoopEnds, HandlerThrows
<1>3. mail' \in [Messages -> [Workers -> Nat]]
  <2>1. CASE Construct(w)
    <3>1. Sent("ports", w) \in [Messages -> [Workers -> Nat]]
      BY <1>1 DEF Sent, TypeOK, Messages
    <3> QED
      BY <1>1, <2>1, <3>1 DEF Construct, TypeOK
  <2>2. CASE FinishInitialize(w)
    <3>1. mail["input"][w] \in Nat \ {0}
      BY <1>1, <2>2 DEF FinishInitialize, TypeOK, Messages
    <3> QED
      BY <1>1, <2>2, <3>1 DEF FinishInitialize, Taken, TypeOK, Messages
  <2>3. CASE CallInitialize(w) \/ LoopEnds(w) \/ HandlerThrows(w)
    BY <1>1, <2>3 DEF CallInitialize, LoopEnds, HandlerThrows, TypeOK
  <2> QED
    BY <2>1, <2>2, <2>3
<1>4. TypeOK'
  BY <1>1, <1>2, <1>3 DEF TypeOK, transport, channels
<1> QED
  BY <1>2, <1>4, NoneFinishes DEF channels

LEMMA ChannelTypes ==
  ASSUME WorkerTypes, NEW w \in Workers, NEW kind \in Kinds,
         \/ OpenChannel(w, kind) \/ ConnectEnds(w, kind)
         \/ BeginClose(w, kind) \/ EndClose(w, kind)
  PROVE  WorkerTypes'
<1>1. TypeOK
  BY DEF WorkerTypes
<1>2. /\ UNCHANGED <<mail, transport, native, destroys, isolate, closer>>
      /\ open' \in [Workers -> SUBSET Kinds] /\ late' \in [Workers -> SUBSET Kinds]
      /\ connecting' \in [Workers -> SUBSET Kinds] /\ closing' \in [Workers -> SUBSET Kinds]
  <2>1. CASE OpenChannel(w, kind)
    <3>1. /\ open' \in [Workers -> SUBSET Kinds] /\ late' \in [Workers -> SUBSET Kinds]
          /\ UNCHANGED <<mail, transport, native, destroys, isolate, closer, closing>>
      BY <1>1, <2>1 DEF TypeOK, OpenChannel
    <3>2. connecting' \in [Workers -> SUBSET Kinds]
      <4> DEFINE c == connecting[w] \cup {kind}
      <4>1. connecting' = connecting \/ connecting' = [connecting EXCEPT ![w] = c]
        BY <2>1 DEF OpenChannel
      <4>2. connecting \in [Workers -> SUBSET Kinds] /\ c \in SUBSET Kinds
        BY <1>1 DEF TypeOK
      <4> HIDE DEF c
      <4> QED
        BY <4>1, <4>2
    <3> QED
      BY <1>1, <3>1, <3>2 DEF TypeOK
  <2>2. CASE ConnectEnds(w, kind)
    BY <1>1, <2>2 DEF TypeOK, ConnectEnds
  <2>3. CASE BeginClose(w, kind)
    BY <1>1, <2>3 DEF TypeOK, BeginClose
  <2>4. CASE EndClose(w, kind)
    BY <1>1, <2>4 DEF TypeOK, EndClose
  <2> QED
    BY <2>1, <2>2, <2>3, <2>4
<1>3. /\ left' \in [Workers -> [Shutdowns -> SUBSET Kinds]]
      /\ joined' \in [Workers -> [Shutdowns -> SUBSET Kinds]]
  <2>1. CASE EndClose(w, kind)
    <3> DEFINE l == [n \in Shutdowns |-> left[w][n] \ {kind}]
               j == [n \in Shutdowns |-> joined[w][n] \ {kind}]
    <3>1. left' = [left EXCEPT ![w] = l] /\ joined' = [joined EXCEPT ![w] = j]
      BY <2>1 DEF EndClose
    <3>2. l \in [Shutdowns -> SUBSET Kinds] /\ j \in [Shutdowns -> SUBSET Kinds]
      BY <1>1 DEF TypeOK
    <3> HIDE DEF l, j
    <3> QED
      BY <1>1, <3>1, <3>2 DEF TypeOK
  <2>2. CASE OpenChannel(w, kind) \/ ConnectEnds(w, kind) \/ BeginClose(w, kind)
    BY <1>1, <2>2 DEF TypeOK, OpenChannel, ConnectEnds, BeginClose
  <2> QED
    BY <2>1, <2>2
<1>4. TypeOK'
  BY <1>1, <1>2, <1>3 DEF TypeOK, transport, isolate
<1> QED
  BY <1>2, <1>4, NoneFinishes

LEMMA JoinTypes ==
  ASSUME WorkerTypes, NEW w \in Workers, NEW n \in Shutdowns, NEW kind \in Kinds,
         JoinReturns(w, n, kind)
  PROVE  WorkerTypes'
<1>1. TypeOK
  BY DEF WorkerTypes
<1>2. UNCHANGED <<mail, transport, native, destroys, isolate, closer, open,
                  connecting, closing, joined, late>>
  BY DEF JoinReturns
<1>3. left' \in [Workers -> [Shutdowns -> SUBSET Kinds]]
  <2> DEFINE l == left[w][n] \ {kind}
  <2>1. left' = [left EXCEPT ![w][n] = l] /\ l \in SUBSET Kinds
    BY <1>1 DEF JoinReturns, TypeOK
  <2> HIDE DEF l
  <2> QED
    BY <1>1, <2>1 DEF TypeOK
<1>4. TypeOK'
  BY <1>1, <1>2, <1>3 DEF TypeOK, transport, isolate
<1> QED
  BY <1>2, <1>4, NoneFinishes

LEMMA HandlerTypes ==
  ASSUME WorkerTypes, NEW w \in Workers, NEW n \in Shutdowns,
         ReceiveClose(w, n) \/ RegistryClosed(w, n)
  PROVE  WorkerTypes'
<1>1. TypeOK
  BY DEF WorkerTypes
<1>2. /\ UNCHANGED <<transport, native, destroys, dart, loop, open, connecting, late>>
      /\ timer' \in [Workers -> BOOLEAN] /\ active' \in [Workers -> BOOLEAN]
  BY <1>1 DEF TypeOK, ReceiveClose, RegistryClosed
<1>3. mail' \in [Messages -> [Workers -> Nat]]
  <2>1. CASE ReceiveClose(w, n)
    <3>1. mail["close"][w] \in Nat \ {0}
      BY <1>1, <2>1 DEF ReceiveClose, TypeOK, Messages
    <3> QED
      BY <1>1, <2>1, <3>1 DEF ReceiveClose, Taken, TypeOK, Messages
  <2>2. CASE RegistryClosed(w, n)
    BY <1>1, <2>2 DEF RegistryClosed, TypeOK
  <2> QED
    BY <2>1, <2>2
<1>4. PICK stage \in Stages \ {"finished"} :
        /\ closer[w][n] # "finished"
        /\ \/ Enter(w, n, stage)
           \/ closer' = [closer EXCEPT ![w][n] = stage] /\ UNCHANGED <<left, closing, joined>>
  <2>1. CASE ReceiveClose(w, n)
    BY <2>1 DEF ReceiveClose, Stages, Kinds
  <2>2. CASE RegistryClosed(w, n)
    <3>1. NextStage(closer[w][n]) \in Stages \ {"finished"} /\ closer[w][n] # "finished"
      BY <2>2 DEF RegistryClosed, NextStage, Stages, Kinds
    <3> QED
      BY <2>2, <3>1 DEF RegistryClosed
  <2> QED
    BY <2>1, <2>2
<1>5. /\ closer' \in [Workers -> [Shutdowns -> Stages]]
      /\ \A v \in Workers : \A m \in Shutdowns :
           closer'[v][m] = "finished" <=> closer[v][m] = "finished"
  <2>1. closer' = [closer EXCEPT ![w][n] = stage] /\ closer \in [Workers -> [Shutdowns -> Stages]]
    BY <1>1, <1>4 DEF TypeOK, Enter
  <2>2. closer' \in [Workers -> [Shutdowns -> Stages]]
    BY <2>1
  <2>3. \A v \in Workers : \A m \in Shutdowns :
          closer'[v][m] = IF v = w /\ m = n THEN stage ELSE closer[v][m]
    BY <2>1
  <2> QED
    BY <1>4, <2>2, <2>3
<1>6. /\ left' \in [Workers -> [Shutdowns -> SUBSET Kinds]]
      /\ joined' \in [Workers -> [Shutdowns -> SUBSET Kinds]]
      /\ closing' \in [Workers -> SUBSET Kinds]
  <2>1. CASE UNCHANGED <<left, closing, joined>>
    BY <1>1, <2>1 DEF TypeOK
  <2>2. CASE Enter(w, n, stage)
    <3> DEFINE found == open[w] \cap {stage}
               joins == joined[w][n] \cup (found \cap closing[w])
               closes == closing[w] \cup found
    <3>1. /\ left' = [left EXCEPT ![w][n] = found]
          /\ joined' = [joined EXCEPT ![w][n] = joins]
          /\ closing' = [closing EXCEPT ![w] = closes]
      BY <2>2 DEF Enter
    <3>2. found \in SUBSET Kinds /\ joins \in SUBSET Kinds /\ closes \in SUBSET Kinds
      BY <1>1 DEF TypeOK
    <3>3. /\ left \in [Workers -> [Shutdowns -> SUBSET Kinds]]
          /\ joined \in [Workers -> [Shutdowns -> SUBSET Kinds]]
          /\ closing \in [Workers -> SUBSET Kinds]
      BY <1>1 DEF TypeOK
    <3> HIDE DEF found, joins, closes
    <3> QED
      BY <3>1, <3>2, <3>3
  <2> QED
    BY <1>4, <2>1, <2>2
<1>7. TypeOK'
  BY <1>1, <1>2, <1>3, <1>5, <1>6 DEF TypeOK, transport
<1> QED
  BY <1>2, <1>5, <1>7, NoneFinishes

LEMMA DestroyTypes ==
  ASSUME WorkerTypes, NEW w \in Workers, NEW n \in Shutdowns, Destroy(w, n)
  PROVE  WorkerTypes'
<1>1. TypeOK /\ \A v \in Workers : destroys[v] = Cardinality(Finished(v))
  BY DEF WorkerTypes
<1>2. /\ UNCHANGED <<transport, isolate, left, open, connecting, closing, joined, late>>
      /\ closer[w][n] = "done" /\ closer' = [closer EXCEPT ![w][n] = "finished"]
      /\ native' = [native EXCEPT ![w] = "destroyed"]
      /\ destroys' = [destroys EXCEPT ![w] = @ + 1]
  BY DEF Destroy
<1>3. mail' \in [Messages -> [Workers -> Nat]]
  <2>1. Sent("destroyed", w) \in [Messages -> [Workers -> Nat]]
    BY <1>1 DEF Sent, TypeOK, Messages
  <2> DEFINE t == Sent("destroyed", w)
  <2>2. mail' = [t EXCEPT !["close"][w] = 0] /\ t \in [Messages -> [Workers -> Nat]]
    BY <2>1 DEF Destroy
  <2> HIDE DEF t
  <2> QED
    BY <2>2
<1>4. /\ native' \in [Workers -> {"none", "ready", "failed", "crashed", "destroyed"}]
      /\ closer' \in [Workers -> [Shutdowns -> Stages]]
  BY <1>1, <1>2 DEF TypeOK, Stages
<1>5. Finished(w)' = Finished(w) \cup {n} /\ n \notin Finished(w)
  BY <1>1, <1>2 DEF Finished, TypeOK
<1>6. ASSUME NEW v \in Workers
      PROVE  destroys'[v] = Cardinality(Finished(v)') /\ destroys'[v] \in 0..Cardinality(Shutdowns)
  <2>1. Finished(v)' \in SUBSET Shutdowns /\ IsFiniteSet(Shutdowns)
    BY WorkersAssumption DEF Finished
  <2>2. Cardinality(Finished(v)') <= Cardinality(Shutdowns) /\ IsFiniteSet(Finished(v)')
    BY <2>1, FS_Subset
  <2>3. Cardinality(Finished(v)') \in Nat /\ Cardinality(Shutdowns) \in Nat
    BY <2>1, <2>2, FS_CardinalityType
  <2>4. CASE v = w
    <3>1. IsFiniteSet(Finished(w))
      BY WorkersAssumption, FS_Subset DEF Finished
    <3>2. Cardinality(Finished(w)') = Cardinality(Finished(w)) + 1
      BY <1>5, <3>1, FS_AddElement
    <3>3. destroys'[w] = destroys[w] + 1
      BY <1>1, <1>2 DEF TypeOK
    <3>4. destroys'[w] = Cardinality(Finished(w)')
      BY <1>1, <3>2, <3>3
    <3> QED
      BY <2>2, <2>3, <2>4, <3>4
  <2>5. CASE v # w
    <3>1. Finished(v)' = Finished(v) /\ destroys'[v] = destroys[v]
      BY <1>1, <1>2, <2>5 DEF Finished, TypeOK
    <3>2. destroys'[v] = Cardinality(Finished(v)')
      BY <1>1, <3>1
    <3> QED
      BY <2>2, <2>3, <3>2
  <2> QED
    BY <2>4, <2>5
<1>7. destroys' \in [Workers -> 0..Cardinality(Shutdowns)]
  <2>1. destroys' = [v \in Workers |-> destroys'[v]]
    BY <1>1, <1>2 DEF TypeOK
  <2> QED
    BY <1>6, <2>1
<1>8. TypeOK'
  BY <1>1, <1>2, <1>3, <1>4, <1>7 DEF TypeOK, transport, isolate
<1> QED
  BY <1>6, <1>8 DEF WorkerTypes

LEMMA WorkersInitial == Init => WorkerTypes
<1> SUFFICES ASSUME Init PROVE WorkerTypes
  OBVIOUS
<1>1. Cardinality(Shutdowns) \in Nat
  BY WorkersAssumption, FS_CardinalityType
<1>2. TypeOK
  BY <1>1 DEF Init, TypeOK, Stages, Messages
<1>3. ASSUME NEW w \in Workers PROVE destroys[w] = Cardinality(Finished(w))
  <2>1. Finished(w) = {}
    BY DEF Finished, Init
  <2> QED
    BY <2>1, FS_EmptySet DEF Init
<1> QED
  BY <1>2, <1>3 DEF WorkerTypes

LEMMA WorkersTypeStep == WorkerTypes /\ [Next]_vars => WorkerTypes'
<1> SUFFICES ASSUME WorkerTypes, [Next]_vars PROVE WorkerTypes'
  OBVIOUS
<1>1. CASE CallShutdown
  BY <1>1, TransportTypes
<1>2. ASSUME NEW w \in Workers, Deliver(w) PROVE WorkerTypes'
  BY <1>2, TransportTypes, IsolateTypes, HandlerTypes DEF Deliver
<1>3. ASSUME NEW w \in Workers, Closing(w) PROVE WorkerTypes'
  BY <1>3, IsolateTypes, HandlerTypes, DestroyTypes, JoinTypes, ChannelTypes DEF Closing
<1>4. ASSUME NEW w \in Workers, User(w) PROVE WorkerTypes'
  BY <1>4, IsolateTypes, ChannelTypes DEF User
<1>5. CASE UNCHANGED vars
  <2>1. TypeOK' /\ UNCHANGED <<destroys, closer>>
    BY <1>5 DEF WorkerTypes, TypeOK, vars, transport, isolate, channels
  <2> QED
    BY <2>1, NoneFinishes
<1> QED
  BY <1>1, <1>2, <1>3, <1>4, <1>5 DEF Next

\* Every variable keeps its type, however often shutdown() is called: a worker
\* is destroyed at most once by each run of its closer handler.
THEOREM WorkersTypeCorrect == Spec => []TypeOK
<1>1. WorkerTypes => TypeOK
  BY DEF WorkerTypes
<1> QED
  BY <1>1, WorkersInitial, WorkersTypeStep, PTL DEF Spec

-----------------------------------------------------------------------------
(* One shutdown: a step of one worker.                                     *)

\* The step changes nothing of the other workers.
OnlyAt(w) ==
  \A v \in Workers \ {w} :
    /\ \A m \in Messages : mail'[m][v] = mail[m][v]
    /\ native'[v] = native[v] /\ destroys'[v] = destroys[v] /\ dart'[v] = dart[v]
    /\ loop'[v] = loop[v] /\ timer'[v] = timer[v] /\ closer'[v] = closer[v]
    /\ left'[v] = left[v] /\ open'[v] = open[v] /\ late'[v] = late[v]
    /\ joined'[v] = joined[v]

\* It stays told of the shutdown, or not told, and is heard of as before.
SameNews(w) ==
  /\ (mail'["close"][w] > 0 \/ closer'[w][1] # "idle")
       <=> (mail["close"][w] > 0 \/ closer[w][1] # "idle")
  /\ (closer'[w][1] = "finished" /\ mail'["destroyed"][w] = 0)
       <=> (closer[w][1] = "finished" /\ mail["destroyed"][w] = 0)
  /\ closer[w][1] = "finished" => closer'[w][1] = "finished"

LEMMA OthersStay ==
  ASSUME NEW w \in Workers, NEW v \in Workers, v # w, OnlyAt(w),
         MailOf(v), HandlerOf(v)
  PROVE  MailOf(v)' /\ HandlerOf(v)'
<1>1. /\ mail'["ports"][v] = mail["ports"][v] /\ mail'["input"][v] = mail["input"][v]
      /\ mail'["close"][v] = mail["close"][v]
      /\ mail'["destroyed"][v] = mail["destroyed"][v]
      /\ native'[v] = native[v] /\ destroys'[v] = destroys[v] /\ dart'[v] = dart[v]
      /\ loop'[v] = loop[v] /\ timer'[v] = timer[v] /\ closer'[v] = closer[v]
      /\ left'[v] = left[v] /\ open'[v] = open[v] /\ late'[v] = late[v]
      /\ joined'[v] = joined[v]
  BY DEF OnlyAt, Messages
<1>2. Passed(closer[v][1])' = Passed(closer[v][1])
  BY <1>1 DEF Passed
<1> QED
  BY <1>1, <1>2 DEF MailOf, HandlerOf

LEMMA WorkerStep ==
  ASSUME WorkersInv, WorkerTypes', NEW w \in Workers, OnlyAt(w), SameNews(w),
         UNCHANGED <<shutdown, calls, expected, received>>,
         MailOf(w)', HandlerOf(w)'
  PROVE  WorkersInv'
<1>1. ASSUME NEW v \in Workers PROVE MailOf(v)' /\ HandlerOf(v)'
  BY OthersStay DEF WorkersInv
<1>2. \A v \in Workers :
        /\ (mail'["close"][v] > 0 \/ closer'[v][1] # "idle")
             <=> (mail["close"][v] > 0 \/ closer[v][1] # "idle")
        /\ (closer'[v][1] = "finished" /\ mail'["destroyed"][v] = 0)
             <=> (closer[v][1] = "finished" /\ mail["destroyed"][v] = 0)
        /\ closer[v][1] = "finished" => closer'[v][1] = "finished"
  BY DEF OnlyAt, SameNews, Messages
<1>3. Told' = Told /\ Heard' = Heard
  BY <1>2 DEF Told, Heard
<1>4. \A v \in Told : v \in Workers
  BY DEF Told
<1>5. ShutdownInv'
  BY <1>2, <1>3, <1>4 DEF WorkersInv, ShutdownInv
<1> QED
  BY <1>1, <1>5 DEF WorkersInv

\* The facts of one worker that the steps below need.
LEMMA WorkerFacts ==
  ASSUME WorkersInv, NEW w \in Workers
  PROVE  /\ WorkerTypes /\ TypeOK /\ MailOf(w) /\ HandlerOf(w)
         /\ mail["ports"][w] \in Nat /\ mail["input"][w] \in Nat
         /\ mail["close"][w] \in Nat /\ mail["destroyed"][w] \in Nat
         /\ mail \in [Messages -> [Workers -> Nat]]
         /\ {"ports", "input", "close", "destroyed"} = Messages
BY DEF WorkersInv, WorkerTypes, TypeOK, Messages

LEMMA OnceReceivePorts ==
  ASSUME WorkersInv, NEW w \in Workers, ReceivePorts(w)
  PROVE  WorkersInv'
<1>1. /\ WorkerTypes /\ TypeOK /\ MailOf(w) /\ HandlerOf(w)
      /\ mail["ports"][w] \in Nat /\ mail["input"][w] \in Nat
      /\ mail["close"][w] \in Nat /\ mail["destroyed"][w] \in Nat
      /\ mail \in [Messages -> [Workers -> Nat]]
      /\ {"ports", "input", "close", "destroyed"} = Messages
  BY WorkerFacts
<1>2. WorkerTypes'
  BY <1>1, TransportTypes
<1>3. /\ mail["ports"][w] > 0
      /\ UNCHANGED <<shutdown, calls, expected, received, destroys, dart, loop,
                     timer, closer, left, open, joined, late>>
      /\ \/ native' = native
         \/ \E n \in {"ready", "crashed", "failed"} : native' = [native EXCEPT ![w] = n]
      /\ \/ mail' = Taken("ports", w)
         \/ mail' = [Taken("ports", w) EXCEPT !["input"][w] = @ + 1]
  BY DEF ReceivePorts, Initialized, isolate, channels
<1>4. Taken("ports", w)
        = [mail EXCEPT !["ports"] = [mail["ports"] EXCEPT ![w] = mail["ports"][w] - 1]]
  BY <1>1 DEF Taken
<1>5. /\ mail'["ports"][w] = mail["ports"][w] - 1
      /\ mail'["input"][w] \in {mail["input"][w], mail["input"][w] + 1}
      /\ mail'["close"] = mail["close"] /\ mail'["destroyed"] = mail["destroyed"]
      /\ \A m \in Messages : \A v \in Workers : v # w => mail'[m][v] = mail[m][v]
  <2> DEFINE ports == [mail["ports"] EXCEPT ![w] = mail["ports"][w] - 1]
             input == [mail["input"] EXCEPT ![w] = mail["input"][w] + 1]
             taken == [mail EXCEPT !["ports"] = ports]
  <2>1. /\ ports[w] = mail["ports"][w] - 1 /\ input[w] = mail["input"][w] + 1
        /\ \A v \in Workers : v # w => ports[v] = mail["ports"][v] /\ input[v] = mail["input"][v]
    BY <1>1
  <2>2. taken = Taken("ports", w)
    BY <1>4
  <2> HIDE DEF ports
  <2>3. /\ DOMAIN taken = Messages /\ taken["ports"] = ports
        /\ taken["input"] = mail["input"] /\ taken["close"] = mail["close"]
        /\ taken["destroyed"] = mail["destroyed"]
    BY <1>1
  <2>4. [taken EXCEPT !["input"][w] = @ + 1] = [taken EXCEPT !["input"] = input]
    BY <2>3
  <2> HIDE DEF input, taken
  <2>5. /\ mail'["ports"] = ports /\ mail'["input"] \in {mail["input"], input}
        /\ mail'["close"] = mail["close"] /\ mail'["destroyed"] = mail["destroyed"]
    BY <1>1, <1>3, <2>2, <2>3, <2>4
  <2> QED
    BY <1>1, <2>1, <2>5
<1>6. OnlyAt(w)
  BY <1>1, <1>3, <1>5 DEF OnlyAt, TypeOK
<1>7. SameNews(w)
  BY <1>3, <1>5 DEF SameNews
<1>8. dart[w] # "initialized" /\ closer[w][1] # "finished"
  BY <1>1, <1>3 DEF MailOf, HandlerOf
<1>9. MailOf(w)'
  BY <1>1, <1>3, <1>5 DEF MailOf
<1>10. HandlerOf(w)'
  BY <1>1, <1>3, <1>8 DEF HandlerOf, Passed
<1> QED
  BY <1>2, <1>3, <1>6, <1>7, <1>9, <1>10, WorkerStep

LEMMA OnceIsolate ==
  ASSUME WorkersInv, NEW w \in Workers,
         \/ Construct(w) \/ CallInitialize(w) \/ FinishInitialize(w)
         \/ LoopEnds(w) \/ HandlerThrows(w)
  PROVE  WorkersInv'
<1>1. /\ WorkerTypes /\ TypeOK /\ MailOf(w) /\ HandlerOf(w)
      /\ mail["ports"][w] \in Nat /\ mail["input"][w] \in Nat
      /\ mail["close"][w] \in Nat /\ mail["destroyed"][w] \in Nat
      /\ mail \in [Messages -> [Workers -> Nat]]
      /\ {"ports", "input", "close", "destroyed"} = Messages
  BY WorkerFacts
<1>2. WorkerTypes'
  BY <1>1, IsolateTypes
<1>3. UNCHANGED <<transport, native, destroys, active, channels>>
  BY DEF Construct, CallInitialize, FinishInitialize, LoopEnds, HandlerThrows
<1>4. UNCHANGED <<shutdown, calls, expected, received, native, destroys, closer,
                  left, open, joined, late>>
  BY <1>3 DEF transport, channels
<1>5. CASE Construct(w)
  <2>1. /\ dart[w] = "none" /\ dart' = [dart EXCEPT ![w] = "constructed"]
        /\ \/ mail' = [mail EXCEPT !["ports"] = [mail["ports"] EXCEPT ![w] = mail["ports"][w] + 1]]
           \/ mail' = mail
        /\ UNCHANGED <<loop, timer>>
    BY <1>1, <1>5 DEF Construct, Sent
  <2>2. /\ mail'["ports"][w] \in {mail["ports"][w], mail["ports"][w] + 1}
        /\ mail'["input"] = mail["input"]
        /\ mail'["close"] = mail["close"] /\ mail'["destroyed"] = mail["destroyed"]
        /\ \A m \in Messages : \A v \in Workers : v # w => mail'[m][v] = mail[m][v]
    BY <1>1, <2>1
  <2>3. dart'[w] = "constructed"
    BY <1>1, <2>1 DEF TypeOK
  <2>4. OnlyAt(w) /\ SameNews(w)
    BY <1>1, <1>4, <2>1, <2>2 DEF OnlyAt, SameNews, TypeOK
  <2>5. MailOf(w)'
    BY <1>1, <1>4, <2>1, <2>2, <2>3 DEF MailOf
  <2>6. HandlerOf(w)'
    BY <1>1, <1>4, <2>1 DEF HandlerOf, Passed
  <2> QED
    BY <1>2, <1>4, <2>4, <2>5, <2>6, WorkerStep
<1>6. CASE FinishInitialize(w)
  <2>1. /\ dart[w] = "initializing" /\ mail["input"][w] > 0
        /\ dart' = [dart EXCEPT ![w] = "initialized"]
        /\ mail' = [mail EXCEPT !["input"] = [mail["input"] EXCEPT ![w] = mail["input"][w] - 1]]
        /\ timer' = [timer EXCEPT ![w] = TRUE] /\ loop' = [loop EXCEPT ![w] = "running"]
    BY <1>1, <1>6 DEF FinishInitialize, Taken
  <2>2. /\ mail'["input"][w] = mail["input"][w] - 1 /\ mail'["ports"] = mail["ports"]
        /\ mail'["close"] = mail["close"] /\ mail'["destroyed"] = mail["destroyed"]
        /\ \A m \in Messages : \A v \in Workers : v # w => mail'[m][v] = mail[m][v]
    BY <1>1, <2>1
  <2>3. OnlyAt(w) /\ SameNews(w)
    BY <1>1, <1>4, <2>1, <2>2 DEF OnlyAt, SameNews, TypeOK
  <2>4. MailOf(w)'
    <3>1. mail["input"][w] = 1 /\ mail["ports"][w] = 0
      <4>1. mail["ports"][w] + mail["input"][w] <= 1
        BY <1>1 DEF MailOf
      <4>2. mail["ports"][w] \in Nat /\ mail["input"][w] \in Nat
        BY <1>1
      <4>3. mail["input"][w] > 0
        BY <2>1
      <4> QED
        BY <4>1, <4>2, <4>3
    <3>2. mail'["input"][w] = 0 /\ mail'["ports"][w] = 0
      BY <2>2, <3>1
    <3> QED
      BY <1>1, <1>4, <2>2, <3>2 DEF MailOf
  <2>5. closer[w][1] \in {"idle", "broken"}
    BY <1>1, <2>1 DEF HandlerOf
  <2>6. HandlerOf(w)'
    BY <1>1, <1>4, <2>5 DEF HandlerOf, Passed
  <2> QED
    BY <1>2, <1>4, <2>3, <2>4, <2>6, WorkerStep
<1>7. CASE CallInitialize(w)
  <2>1. /\ dart[w] = "constructed" /\ dart' = [dart EXCEPT ![w] = "initializing"]
        /\ UNCHANGED <<mail, loop, timer>>
    BY <1>7 DEF CallInitialize
  <2>2. OnlyAt(w) /\ SameNews(w) /\ dart'[w] = "initializing"
    BY <1>1, <1>4, <2>1 DEF OnlyAt, SameNews, TypeOK
  <2>3. MailOf(w)' /\ HandlerOf(w)'
    BY <1>1, <1>4, <2>1, <2>2 DEF MailOf, HandlerOf, Passed
  <2> QED
    BY <1>2, <1>4, <2>2, <2>3, WorkerStep
<1>8. CASE LoopEnds(w) \/ HandlerThrows(w)
  <2>1. /\ loop[w] = "running" /\ UNCHANGED <<mail, dart, timer>>
        /\ \E next \in {"ended", "dead"} : loop' = [loop EXCEPT ![w] = next]
    BY <1>8 DEF LoopEnds, HandlerThrows
  <2>2. OnlyAt(w) /\ SameNews(w)
    BY <1>1, <1>4, <2>1 DEF OnlyAt, SameNews, TypeOK
  <2>3. closer[w][1] # "finished"
    BY <1>1, <2>1 DEF HandlerOf
  <2>4. MailOf(w)' /\ HandlerOf(w)'
    BY <1>1, <1>4, <2>1, <2>3 DEF MailOf, HandlerOf, Passed
  <2> QED
    BY <1>2, <1>4, <2>2, <2>4, WorkerStep
<1> QED
  BY <1>5, <1>6, <1>7, <1>8

\* A registry that is passed has only channels left that opened too late, or
\* whose close the handler joined.
LEMMA OnceChannels ==
  ASSUME 1 \in Shutdowns, \A n \in Shutdowns : n = 1, WorkersInv, NEW w \in Workers,
         NEW kind \in Kinds,
         \/ OpenChannel(w, kind) \/ ConnectEnds(w, kind)
         \/ BeginClose(w, kind) \/ EndClose(w, kind)
  PROVE  WorkersInv'
<1>1. /\ WorkerTypes /\ TypeOK /\ MailOf(w) /\ HandlerOf(w)
  BY WorkerFacts
<1>2. WorkerTypes' /\ UNCHANGED <<mail, transport, native, destroys, isolate, closer>>
  BY <1>1, ChannelTypes DEF OpenChannel, ConnectEnds, BeginClose, EndClose
<1>3. UNCHANGED <<mail, shutdown, calls, expected, received, native, destroys, dart,
                  loop, timer, closer>>
  BY <1>2 DEF transport, isolate
<1>4. CASE OpenChannel(w, kind)
  <2>1. /\ open'[w] = open[w] \cup {kind} /\ left' = left /\ joined' = joined
        /\ late'[w] = IF kind \in Passed(closer[w][1])
                      THEN late[w] \cup {kind} ELSE late[w] \ {kind}
        /\ \A v \in Workers : v # w => open'[v] = open[v] /\ late'[v] = late[v]
    BY <1>1, <1>4 DEF OpenChannel, TypeOK
  <2>2. OnlyAt(w) /\ SameNews(w) /\ MailOf(w)'
    BY <1>1, <1>3, <2>1 DEF OnlyAt, SameNews, MailOf
  <2>3. Passed(closer'[w][1]) = Passed(closer[w][1])
    BY <1>3
  <2> HIDE DEF Passed
  <2>4. open'[w] \cap Passed(closer'[w][1]) \subseteq late'[w] \cup left'[w][1] \cup joined'[w][1]
    BY <1>1, <2>1, <2>3 DEF HandlerOf
  <2>5. HandlerOf(w)'
    BY <1>1, <1>3, <2>1, <2>4 DEF HandlerOf
  <2> QED
    BY <1>2, <1>3, <2>2, <2>5, WorkerStep
<1>5. CASE EndClose(w, kind)
  <2>1. /\ open'[w] = open[w] \ {kind} /\ late'[w] = late[w] \ {kind}
        /\ left'[w][1] = left[w][1] \ {kind} /\ joined'[w][1] = joined[w][1] \ {kind}
        /\ \A v \in Workers : v # w =>
             /\ open'[v] = open[v] /\ late'[v] = late[v] /\ left'[v] = left[v]
             /\ joined'[v] = joined[v]
    BY <1>1, <1>5 DEF EndClose, TypeOK
  <2>2. OnlyAt(w) /\ SameNews(w) /\ MailOf(w)'
    BY <1>1, <1>3, <2>1 DEF OnlyAt, SameNews, MailOf
  <2>3. Passed(closer'[w][1]) = Passed(closer[w][1])
    BY <1>3
  <2> HIDE DEF Passed
  <2>4. HandlerOf(w)'
    BY <1>1, <1>3, <2>1, <2>3 DEF HandlerOf
  <2> QED
    BY <1>2, <1>3, <2>2, <2>4, WorkerStep
<1>6. CASE ConnectEnds(w, kind) \/ BeginClose(w, kind)
  <2>1. UNCHANGED <<open, left, joined, late>>
    BY <1>6 DEF ConnectEnds, BeginClose
  <2>2. OnlyAt(w) /\ SameNews(w)
    BY <1>3, <2>1 DEF OnlyAt, SameNews
  <2>3. MailOf(w)' /\ HandlerOf(w)'
    BY <1>1, <1>3, <2>1 DEF MailOf, HandlerOf, Passed
  <2> QED
    BY <1>2, <1>3, <2>2, <2>3, WorkerStep
<1> QED
  BY <1>4, <1>5, <1>6

\* Who joined a close may go on before it is over: the channel stays joined.
LEMMA OnceJoinReturns ==
  ASSUME 1 \in Shutdowns, WorkersInv, NEW w \in Workers, NEW kind \in Kinds,
         JoinReturns(w, 1, kind)
  PROVE  WorkersInv'
<1>1. /\ WorkerTypes /\ TypeOK /\ MailOf(w) /\ HandlerOf(w)
  BY WorkerFacts
<1>2. /\ WorkerTypes' /\ kind \in joined[w][1]
      /\ UNCHANGED <<mail, shutdown, calls, expected, received, native, destroys, dart,
                     loop, timer, closer, open, joined, late>>
      /\ left'[w][1] = left[w][1] \ {kind}
      /\ \A v \in Workers : v # w => left'[v] = left[v]
  BY <1>1, JoinTypes DEF JoinReturns, transport, isolate, TypeOK
<1>3. OnlyAt(w) /\ SameNews(w)
  BY <1>2 DEF OnlyAt, SameNews
<1>4. Passed(closer'[w][1]) = Passed(closer[w][1])
  BY <1>2
<1> HIDE DEF Passed
<1>5. MailOf(w)' /\ HandlerOf(w)'
  BY <1>1, <1>2, <1>4 DEF MailOf, HandlerOf
<1> QED
  BY <1>2, <1>3, <1>5, WorkerStep

\* What a handler that enters a registry changes.
LEMMA Entered ==
  ASSUME 1 \in Shutdowns, TypeOK, NEW w \in Workers, NEW stage, Enter(w, 1, stage)
  PROVE  /\ closer'[w][1] = stage /\ left'[w][1] = open[w] \cap {stage}
         /\ joined[w][1] \subseteq joined'[w][1]
         /\ \A v \in Workers : v # w =>
              closer'[v] = closer[v] /\ left'[v] = left[v] /\ joined'[v] = joined[v]
<1> DEFINE found == open[w] \cap {stage}
           joins == joined[w][1] \cup (found \cap closing[w])
<1>1. /\ closer' = [closer EXCEPT ![w][1] = stage]
      /\ left' = [left EXCEPT ![w][1] = found]
      /\ joined' = [joined EXCEPT ![w][1] = joins]
  BY DEF Enter
<1>2. joined[w][1] \subseteq joins
  OBVIOUS
<1> HIDE DEF found, joins
<1>3. /\ closer'[w][1] = stage /\ left'[w][1] = found /\ joined'[w][1] = joins
      /\ \A v \in Workers : v # w =>
           closer'[v] = closer[v] /\ left'[v] = left[v] /\ joined'[v] = joined[v]
  BY <1>1 DEF TypeOK
<1> QED
  BY <1>2, <1>3 DEF found

LEMMA OnceReceiveClose ==
  ASSUME 1 \in Shutdowns, WorkersInv, NEW w \in Workers, ReceiveClose(w, 1)
  PROVE  WorkersInv'
<1>1. /\ WorkerTypes /\ TypeOK /\ MailOf(w) /\ HandlerOf(w)
      /\ mail["ports"][w] \in Nat /\ mail["input"][w] \in Nat
      /\ mail["close"][w] \in Nat /\ mail["destroyed"][w] \in Nat
      /\ mail \in [Messages -> [Workers -> Nat]]
      /\ {"ports", "input", "close", "destroyed"} = Messages
  BY WorkerFacts
<1>2. /\ WorkerTypes'
      /\ UNCHANGED <<shutdown, calls, expected, received, native, destroys, dart,
                     loop, open, late>>
      /\ mail["close"][w] > 0 /\ closer[w][1] = "idle" /\ destroys[w] = 0
      /\ mail' = [mail EXCEPT !["close"] = [mail["close"] EXCEPT ![w] = mail["close"][w] - 1]]
  BY <1>1, HandlerTypes DEF ReceiveClose, Taken, transport
<1>3. /\ mail'["close"][w] = mail["close"][w] - 1 /\ mail'["ports"] = mail["ports"]
      /\ mail'["input"] = mail["input"] /\ mail'["destroyed"] = mail["destroyed"]
      /\ \A m \in Messages : \A v \in Workers : v # w => mail'[m][v] = mail[m][v]
  BY <1>1, <1>2
<1>4. mail["close"][w] = 1 /\ mail'["close"][w] = 0
  BY <1>1, <1>2, <1>3 DEF MailOf
<1>5. CASE dart[w] = "initialized"
  <2>1. Enter(w, 1, "files") /\ timer' = [timer EXCEPT ![w] = FALSE]
    BY <1>5 DEF ReceiveClose
  <2>2. /\ closer'[w][1] = "files" /\ left'[w][1] = open[w] \cap {"files"} /\ ~timer'[w]
        /\ \A v \in Workers : v # w =>
             /\ closer'[v] = closer[v] /\ left'[v] = left[v] /\ timer'[v] = timer[v]
             /\ joined'[v] = joined[v]
    BY <1>1, <2>1, Entered DEF TypeOK
  <2>3. OnlyAt(w)
    BY <1>2, <1>3, <2>2 DEF OnlyAt
  <2>4. SameNews(w)
    BY <1>2, <2>2 DEF SameNews
  <2>5. MailOf(w)'
    BY <1>1, <1>2, <1>3, <1>4, <2>2 DEF MailOf
  <2>6. HandlerOf(w)'
    BY <1>1, <1>2, <1>5, <2>2 DEF HandlerOf, Passed
  <2> QED
    BY <1>2, <2>3, <2>4, <2>5, <2>6, WorkerStep
<1>6. CASE dart[w] # "initialized"
  <2>1. closer' = [closer EXCEPT ![w][1] = "broken"] /\ UNCHANGED <<timer, left, joined>>
    BY <1>6 DEF ReceiveClose
  <2>2. /\ closer'[w][1] = "broken"
        /\ \A v \in Workers : v # w => closer'[v] = closer[v]
    BY <1>1, <2>1 DEF TypeOK
  <2>3. OnlyAt(w)
    BY <1>2, <1>3, <2>1, <2>2 DEF OnlyAt
  <2>4. SameNews(w)
    BY <1>2, <2>2 DEF SameNews
  <2>5. MailOf(w)'
    BY <1>1, <1>2, <1>3, <1>4, <2>2 DEF MailOf
  <2>6. left'[w][1] = {}
    <3>1. left[w][1] \subseteq Kinds /\ left[w][1] \subseteq {"idle"}
      BY <1>1, <1>2 DEF HandlerOf, TypeOK
    <3> QED
      BY <2>1, <3>1 DEF Kinds
  <2>7. HandlerOf(w)'
    BY <1>1, <1>2, <2>1, <2>2, <2>6 DEF HandlerOf, Passed
  <2> QED
    BY <1>2, <2>3, <2>4, <2>5, <2>7, WorkerStep
<1> QED
  BY <1>5, <1>6

LEMMA OnceRegistryClosed ==
  ASSUME 1 \in Shutdowns, WorkersInv, NEW w \in Workers, RegistryClosed(w, 1)
  PROVE  WorkersInv'
<1> DEFINE stage == closer[w][1]
           next == NextStage(stage)
<1>1. /\ WorkerTypes /\ TypeOK /\ MailOf(w) /\ HandlerOf(w)
  BY WorkerFacts
<1>2. /\ WorkerTypes'
      /\ UNCHANGED <<mail, shutdown, calls, expected, received, native, destroys, dart,
                     loop, timer, open, late>>
      /\ stage \in Kinds /\ left[w][1] = {}
      /\ Enter(w, 1, next)
  BY <1>1, HandlerTypes DEF RegistryClosed, transport
<1>3. /\ next \in {"clients", "servers", "done"}
      /\ Passed(next) \subseteq Passed(stage) \cup {next}
  BY <1>2 DEF NextStage, Passed, Kinds
<1>4. /\ closer'[w][1] = next /\ left'[w][1] = open[w] \cap {next}
      /\ joined[w][1] \subseteq joined'[w][1]
      /\ \A v \in Workers : v # w =>
           closer'[v] = closer[v] /\ left'[v] = left[v] /\ joined'[v] = joined[v]
  BY <1>1, <1>2, Entered
<1>5. stage \notin {"idle", "broken", "finished"}
  BY <1>2 DEF Kinds
<1>6. open[w] \cap Passed(stage) \subseteq late[w] \cup joined[w][1]
  BY <1>1, <1>2 DEF HandlerOf
<1> HIDE DEF next, Passed
<1>7. OnlyAt(w) /\ SameNews(w)
  BY <1>2, <1>3, <1>4, <1>5 DEF OnlyAt, SameNews
<1>8. MailOf(w)'
  BY <1>1, <1>2, <1>3, <1>4, <1>5 DEF MailOf
<1>9. open'[w] \cap Passed(closer'[w][1]) \subseteq late'[w] \cup left'[w][1] \cup joined'[w][1]
  BY <1>2, <1>3, <1>4, <1>6
<1>10. HandlerOf(w)'
  BY <1>1, <1>2, <1>3, <1>4, <1>5, <1>9 DEF HandlerOf
<1> QED
  BY <1>2, <1>7, <1>8, <1>10, WorkerStep

\* The handler destroys the worker once: its stage is "finished" from then on.
LEMMA OnceDestroy ==
  ASSUME 1 \in Shutdowns, WorkersInv, NEW w \in Workers, Destroy(w, 1)
  PROVE  WorkersInv'
<1>1. /\ WorkerTypes /\ TypeOK /\ MailOf(w) /\ HandlerOf(w)
      /\ mail["ports"][w] \in Nat /\ mail["input"][w] \in Nat
      /\ mail["close"][w] \in Nat /\ mail["destroyed"][w] \in Nat
      /\ mail \in [Messages -> [Workers -> Nat]]
      /\ {"ports", "input", "close", "destroyed"} = Messages
  BY WorkerFacts
<1>2. /\ WorkerTypes'
      /\ UNCHANGED <<shutdown, calls, expected, received, dart, loop, timer, left,
                     open, joined, late>>
      /\ closer[w][1] = "done" /\ loop[w] = "ended"
      /\ closer' = [closer EXCEPT ![w][1] = "finished"]
      /\ native' = [native EXCEPT ![w] = "destroyed"]
      /\ destroys' = [destroys EXCEPT ![w] = @ + 1]
  BY <1>1, DestroyTypes DEF Destroy, transport, isolate
<1>3. mail["close"][w] = 0 /\ mail["destroyed"][w] = 0 /\ destroys[w] = 0
  BY <1>1, <1>2 DEF MailOf, HandlerOf
<1>4. /\ mail'["close"][w] = 0 /\ mail'["ports"] = mail["ports"]
      /\ mail'["input"] = mail["input"] /\ mail'["destroyed"][w] = 1
      /\ \A m \in Messages : \A v \in Workers : v # w => mail'[m][v] = mail[m][v]
  <2> DEFINE t == [mail EXCEPT !["destroyed"] =
                     [mail["destroyed"] EXCEPT ![w] = mail["destroyed"][w] + 1]]
  <2>1. Sent("destroyed", w) = t
    BY <1>1 DEF Sent
  <2>2. /\ t["close"] = mail["close"] /\ t["ports"] = mail["ports"]
        /\ t["input"] = mail["input"] /\ t["destroyed"][w] = 1
        /\ \A m \in Messages : \A v \in Workers : v # w => t[m][v] = mail[m][v]
        /\ t \in [Messages -> [Workers -> Nat]]
    BY <1>1, <1>3
  <2> HIDE DEF t
  <2>3. mail' = [t EXCEPT !["close"] = [t["close"] EXCEPT ![w] = 0]]
    BY <2>1, <2>2, <1>1 DEF Destroy
  <2> QED
    BY <1>1, <2>2, <2>3
<1>5. /\ closer'[w][1] = "finished" /\ native'[w] = "destroyed" /\ destroys'[w] = 1
      /\ \A v \in Workers : v # w => closer'[v] = closer[v] /\ native'[v] = native[v]
                                      /\ destroys'[v] = destroys[v]
  BY <1>1, <1>2, <1>3 DEF TypeOK
<1>6. OnlyAt(w)
  BY <1>2, <1>4, <1>5 DEF OnlyAt
<1>7. SameNews(w)
  BY <1>2, <1>4, <1>5 DEF SameNews
<1>8. MailOf(w)'
  BY <1>1, <1>2, <1>4, <1>5 DEF MailOf
<1>9. left[w][1] = {}
  <2>1. left[w][1] \subseteq Kinds /\ left[w][1] \subseteq {"done"}
    BY <1>1, <1>2 DEF HandlerOf, TypeOK
  <2> QED
    BY <2>1 DEF Kinds
<1>10. Passed("finished") = Kinds /\ Passed("done") = Kinds
  BY DEF Passed
<1>11. HandlerOf(w)'
  BY <1>1, <1>2, <1>5, <1>9, <1>10 DEF HandlerOf
<1> QED
  BY <1>2, <1>6, <1>7, <1>8, <1>11, WorkerStep

-----------------------------------------------------------------------------
(* One shutdown: who is told, and who is counted.                          *)

\* Every registered worker gets one message, and nobody had one before.
LEMMA OnceCallShutdown ==
  ASSUME \A n \in Shutdowns : n = 1, WorkersInv, CallShutdown
  PROVE  WorkersInv'
<1>1. /\ WorkerTypes /\ TypeOK /\ ShutdownInv /\ WorkerTypes'
      /\ \A w \in Workers : MailOf(w) /\ HandlerOf(w)
      /\ mail \in [Messages -> [Workers -> Nat]]
  BY TransportTypes DEF WorkersInv, WorkerTypes, TypeOK
<1>2. /\ calls = 0 /\ calls' = 1 /\ shutdown = "no" /\ Told = {} /\ received = 0
  BY <1>1 DEF CallShutdown, ShutdownInv
<1>3. \A w \in Workers : mail["close"][w] = 0 /\ closer[w][1] = "idle"
  <2> TAKE w \in Workers
  <2>1. mail["close"][w] \in Nat /\ w \notin Told
    BY <1>1, <1>2 DEF Messages
  <2> QED
    BY <2>1 DEF Told
<1>4. /\ mail' = IF registered = {} THEN PortsClosed(mail) ELSE CloseSent
      /\ expected' = Cardinality(registered)
      /\ shutdown' = IF registered = {} THEN "ended" ELSE "waiting"
      /\ UNCHANGED <<registered, received, native, destroys, isolate, channels>>
  BY <1>2 DEF CallShutdown
<1>5. /\ \A w \in Workers : mail'["ports"][w] \in {0, mail["ports"][w]}
      /\ mail'["input"] = mail["input"] /\ mail'["destroyed"] = mail["destroyed"]
      /\ \A w \in Workers : mail'["close"][w] = IF w \in registered THEN 1 ELSE 0
  <2>1. CASE registered = {}
    BY <1>1, <1>3, <1>4, <2>1 DEF PortsClosed, Messages
  <2>2. CASE registered # {}
    BY <1>1, <1>3, <1>4, <2>2 DEF CloseSent, Messages
  <2> QED
    BY <2>1, <2>2
<1>6. UNCHANGED <<native, destroys, dart, loop, timer, closer, left, open, joined, late>>
  BY <1>4 DEF isolate, channels
<1>7. ASSUME NEW w \in Workers PROVE MailOf(w)' /\ HandlerOf(w)'
  <2>1. /\ mail["ports"][w] \in Nat /\ mail["input"][w] \in Nat
        /\ mail["destroyed"][w] \in Nat
    BY <1>1 DEF Messages
  <2>2. MailOf(w)'
    BY <1>1, <1>3, <1>5, <1>6, <2>1 DEF MailOf
  <2>3. HandlerOf(w)'
    BY <1>1, <1>6 DEF HandlerOf, Passed
  <2> QED
    BY <2>2, <2>3
<1>8. Told' = registered
  BY <1>1, <1>3, <1>5, <1>6 DEF Told, TypeOK
<1>9. Heard' = {}
  BY <1>3, <1>6 DEF Heard
<1>10. ShutdownInv'
  BY <1>2, <1>4, <1>8, <1>9, FS_EmptySet DEF ShutdownInv
<1> QED
  BY <1>1, <1>7, <1>10 DEF WorkersInv

\* shutdown() ends with the last message: as many were heard of as were told,
\* and who was heard of was told.
LEMMA OnceReceiveDestroyed ==
  ASSUME WorkersInv, NEW w \in Workers, ReceiveDestroyed(w)
  PROVE  WorkersInv'
<1>1. /\ WorkerTypes /\ TypeOK /\ MailOf(w) /\ HandlerOf(w)
      /\ mail["ports"][w] \in Nat /\ mail["input"][w] \in Nat
      /\ mail["close"][w] \in Nat /\ mail["destroyed"][w] \in Nat
      /\ mail \in [Messages -> [Workers -> Nat]]
      /\ {"ports", "input", "close", "destroyed"} = Messages
  BY WorkerFacts
<1>2. /\ WorkerTypes' /\ ShutdownInv
      /\ \A v \in Workers : MailOf(v) /\ HandlerOf(v)
      /\ mail["destroyed"][w] > 0
      /\ mail' \in {Taken("destroyed", w), PortsClosed(Taken("destroyed", w))}
      /\ UNCHANGED <<calls, expected, native, destroys, dart, loop, timer, closer, left,
                     open, joined, late>>
  BY <1>1, TransportTypes DEF WorkersInv, ReceiveDestroyed, isolate, channels
<1>3. mail["destroyed"][w] = 1 /\ closer[w][1] = "finished"
  BY <1>1, <1>2 DEF MailOf
<1>4. /\ mail'["destroyed"][w] = 0
      /\ \A v \in Workers : v # w => mail'["destroyed"][v] = mail["destroyed"][v]
      /\ mail'["input"] = mail["input"] /\ mail'["close"] = mail["close"]
      /\ \A v \in Workers : mail'["ports"][v] \in {0, mail["ports"][v]}
  <2> DEFINE destroyed == [mail["destroyed"] EXCEPT ![w] = mail["destroyed"][w] - 1]
             t == [mail EXCEPT !["destroyed"] = destroyed]
  <2>1. /\ destroyed[w] = 0
        /\ \A v \in Workers : v # w => destroyed[v] = mail["destroyed"][v]
    BY <1>1, <1>3
  <2>2. t = Taken("destroyed", w)
    BY <1>1 DEF Taken
  <2> HIDE DEF destroyed
  <2>3. /\ DOMAIN t = Messages /\ t["destroyed"] = destroyed /\ t["ports"] = mail["ports"]
        /\ t["input"] = mail["input"] /\ t["close"] = mail["close"]
    BY <1>1
  <2> HIDE DEF t
  <2>4. mail' = t \/ mail' = [t EXCEPT !["ports"] = [v \in Workers |-> 0]]
    BY <1>2, <2>2 DEF PortsClosed
  <2>5. /\ mail'["destroyed"] = destroyed
        /\ mail'["input"] = mail["input"] /\ mail'["close"] = mail["close"]
        /\ \A v \in Workers : mail'["ports"][v] \in {0, mail["ports"][v]}
    BY <1>1, <2>3, <2>4
  <2> QED
    BY <2>1, <2>5
<1>6. ASSUME NEW v \in Workers PROVE MailOf(v)' /\ HandlerOf(v)'
  <2>1. /\ mail["ports"][v] \in Nat /\ mail["input"][v] \in Nat
        /\ MailOf(v) /\ HandlerOf(v)
    BY <1>2, WorkerFacts
  <2>2. MailOf(v)'
    BY <1>2, <1>3, <1>4, <2>1 DEF MailOf
  <2>3. HandlerOf(v)'
    BY <1>2, <2>1 DEF HandlerOf, Passed
  <2> QED
    BY <2>2, <2>3
<1>8. Told' = Told /\ w \in Told
  BY <1>2, <1>3, <1>4 DEF Told
<1>9. Heard' = Heard \cup {w} /\ w \notin Heard
  BY <1>1, <1>2, <1>3, <1>4 DEF Heard
<1>10. IsFiniteSet(Heard) /\ IsFiniteSet(Told) /\ Heard' \subseteq Told
  <2>1. Heard \in SUBSET Workers /\ Told \in SUBSET Workers
    BY DEF Heard, Told
  <2>2. Heard' \subseteq Told
    BY <1>8, <1>9 DEF Heard, Told
  <2> QED
    BY <2>1, <2>2, WorkersAssumption, FS_Subset
<1>11. CASE shutdown = "waiting"
  <2>1. received' = received + 1 /\ shutdown' = IF received' >= expected THEN "ended" ELSE "waiting"
    BY <1>11 DEF ReceiveDestroyed
  <2>2. /\ expected = Cardinality(Told) /\ received' = Cardinality(Heard')
    <3>1. expected = Cardinality(Told) /\ received = Cardinality(Heard)
      BY <1>2, <1>11 DEF ShutdownInv
    <3>2. Cardinality(Heard \cup {w}) = Cardinality(Heard) + 1
      BY <1>9, <1>10, FS_AddElement, Zenon
    <3> QED
      BY <1>9, <2>1, <3>1, <3>2, Zenon
  <2>3. CASE shutdown' = "ended"
    <3>1. Cardinality(Heard') >= Cardinality(Told)
      BY <2>1, <2>2, <2>3
    <3>2. Cardinality(Heard') \in Nat /\ Cardinality(Told) \in Nat
      BY <1>10, FS_Subset, FS_CardinalityType
    <3>3. Heard' = Told
      BY <1>10, <3>1, <3>2, FS_Subset
    <3>4. \A v \in Told' : closer'[v][1] = "finished"
      BY <1>8, <3>3 DEF Heard
    <3> QED
      BY <1>2, <1>11, <2>3, <3>4, <1>6 DEF ShutdownInv, WorkersInv
  <2>4. CASE shutdown' = "waiting"
    BY <1>2, <1>8, <1>11, <2>2, <2>4, <1>6 DEF ShutdownInv, WorkersInv
  <2> QED
    BY <2>1, <2>3, <2>4
<1>12. CASE shutdown # "waiting"
  <2>1. UNCHANGED <<received, shutdown>>
    BY <1>12 DEF ReceiveDestroyed
  <2>2. shutdown = "ended"
    BY <1>1, <1>2, <1>8, <1>12 DEF ShutdownInv, TypeOK
  <2>3. ShutdownInv'
    BY <1>2, <1>8, <2>1, <2>2 DEF ShutdownInv
  <2> QED
    BY <1>2, <2>3, <1>6 DEF WorkersInv
<1> QED
  BY <1>11, <1>12

LEMMA OnceInitial ==
  ASSUME 1 \in Shutdowns, Init
  PROVE  WorkersInv
<1>1. WorkerTypes
  BY WorkersInitial
<1>2. \A w \in Workers : /\ \A m \in Messages : mail[m][w] = 0
                        /\ closer[w][1] = "idle" /\ left[w][1] = {} /\ open[w] = {}
                        /\ dart[w] = "none" /\ destroys[w] = 0
  BY DEF Init
<1>3. {"ports", "input", "close", "destroyed"} = Messages
  BY DEF Messages
<1>4. ASSUME NEW w \in Workers PROVE MailOf(w) /\ HandlerOf(w)
  BY <1>2, <1>3 DEF MailOf, HandlerOf
<1>5. Told = {}
  BY <1>2, <1>3 DEF Told
<1>6. ShutdownInv
  BY <1>5 DEF Init, ShutdownInv
<1> QED
  BY <1>1, <1>4, <1>6 DEF WorkersInv

LEMMA OnceStep ==
  ASSUME Shutdowns = {1}, WorkersInv, [Next]_vars
  PROVE  WorkersInv'
<1>1. CASE CallShutdown
  BY <1>1, OnceCallShutdown
<1>2. ASSUME NEW w \in Workers, Deliver(w) PROVE WorkersInv'
  BY <1>2, OnceReceivePorts, OnceReceiveDestroyed, OnceIsolate, OnceReceiveClose DEF Deliver
<1>3. ASSUME NEW w \in Workers, Closing(w) PROVE WorkersInv'
  BY <1>3, OnceIsolate, OnceRegistryClosed, OnceDestroy, OnceJoinReturns, OnceChannels DEF Closing
<1>4. ASSUME NEW w \in Workers, User(w) PROVE WorkersInv'
  BY <1>4, OnceIsolate, OnceChannels DEF User
<1>5. CASE UNCHANGED vars
  <2>1. UNCHANGED <<mail, calls, shutdown, expected, received, native, destroys, dart,
                    loop, timer, closer, left, open, joined, late>>
    BY <1>5 DEF vars, transport, isolate, channels
  <2>2. WorkerTypes'
    BY <1>5, WorkersTypeStep DEF WorkersInv
  <2>3. ASSUME NEW w \in Workers PROVE MailOf(w)' /\ HandlerOf(w)'
    BY <2>1 DEF WorkersInv, MailOf, HandlerOf, Passed
  <2>4. Told' = Told /\ Heard' = Heard
    BY <2>1 DEF Told, Heard
  <2>5. ShutdownInv'
    BY <2>1, <2>4 DEF WorkersInv, ShutdownInv
  <2> QED
    BY <2>2, <2>3, <2>5 DEF WorkersInv
<1> QED
  BY <1>1, <1>2, <1>3, <1>4, <1>5 DEF Next

\* The invariant of one shutdown holds in every reachable state.
THEOREM WorkersInvariant ==
  ASSUME Shutdowns = {1}
  PROVE  Spec => []WorkersInv
<1>1. Init => WorkersInv
  BY OnceInitial
<1>2. WorkersInv /\ [Next]_vars => WorkersInv'
  BY OnceStep
<1> QED
  BY <1>1, <1>2, PTL DEF Spec

\* With one shutdown a worker is freed once, when neither its loop nor its
\* timer can touch it again and no channel is left on it but those opened
\* while the shutdown had passed their registry, and those it found closing.
THEOREM NoUseAfterFree ==
  ASSUME Shutdowns = {1}
  PROVE  Spec => []NothingUsesAFreedWorker
<1>1. WorkersInv => NothingUsesAFreedWorker
  <2> SUFFICES ASSUME WorkersInv, NEW w \in Workers, destroys[w] > 0
               PROVE  /\ destroys[w] = 1 /\ native[w] = "destroyed"
                      /\ loop[w] = "ended" /\ ~timer[w]
                      /\ open[w] \subseteq late[w] \cup joined[w][1]
    BY DEF NothingUsesAFreedWorker
  <2>1. HandlerOf(w) /\ TypeOK
    BY WorkerFacts
  <2>2. closer[w][1] = "finished"
    BY <2>1 DEF HandlerOf
  <2>3. left[w][1] = {}
    <3>1. left[w][1] \subseteq Kinds /\ left[w][1] \subseteq {"finished"}
      BY <2>1, <2>2 DEF HandlerOf, TypeOK
    <3> QED
      BY <3>1 DEF Kinds
  <2>4. open[w] \subseteq Kinds /\ Passed("finished") = Kinds
    BY <2>1 DEF TypeOK, Passed
  <2> QED
    BY <2>1, <2>2, <2>3, <2>4 DEF HandlerOf
<1> QED
  BY <1>1, WorkersInvariant, PTL

\* When the first shutdown() returns every worker it sent a message to has been
\* destroyed: the counted messages come from different workers, the told ones.
THEOREM ShutdownMeansDestroyed ==
  ASSUME Shutdowns = {1}
  PROVE  Spec => []EndMeansDestroyed
<1>1. WorkersInv => EndMeansDestroyed
  <2> SUFFICES ASSUME WorkersInv, shutdown = "ended", NEW w \in registered, destroys[w] = 0
               PROVE  closer[w][1] = "idle" /\ mail["close"][w] = 0
    BY DEF EndMeansDestroyed
  <2>1. w \in Workers
    BY DEF WorkersInv, WorkerTypes, TypeOK
  <2>2. HandlerOf(w) /\ mail["close"][w] \in Nat
    BY <2>1, WorkerFacts
  <2>3. closer[w][1] # "finished"
    BY <2>2 DEF HandlerOf
  <2>4. w \notin Told
    BY <2>3 DEF WorkersInv, ShutdownInv
  <2> QED
    BY <2>1, <2>2, <2>4 DEF Told
<1> QED
  BY <1>1, WorkersInvariant, PTL
=============================================================================
