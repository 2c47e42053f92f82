----------------------------- MODULE FileChannel -----------------------------
(***************************************************************************)
(* One TransportFileChannel and load() of its provider (file/file.dart,    *)
(* file/provider.dart): the file is read by rounds, each a chain of linked *)
(* reads, while writes append to it and close() comes at any moment.       *)
(*                                                                         *)
(* The content of the file are the positions 1..size.  The kernel takes    *)
(* the reads of a chain in order, and a read that is short or fails breaks *)
(* it: the rest is cancelled.  Payloads go through the inbound stream,     *)
(* which hands its listener one event per microtask.                       *)
(*                                                                         *)
(* Buffers are counted only (TransportBuffers is about who gets which); a  *)
(* call that finds its buffers at once is a wait that ends at once.        *)
(***************************************************************************)
EXTENDS Integers, Sequences

CONSTANTS
  PoolSize,    \* buffers of the worker
  BufferSize,  \* bytes of a buffer
  Sizes,       \* the sizes the file may begin with
  Writes,      \* bound: the calls of writeSingle, each issued once
  Blocks,      \* the blocksCount, and
  Offsets,     \* the offset load() may be given
  OffsetLimit  \* 2^32: transport_worker_read takes a uint32_t

ASSUME FileAssumption ==
  /\ {PoolSize, BufferSize, OffsetLimit} \subseteq Nat \ {0}
  /\ Sizes \subseteq Nat /\ Offsets \subseteq Nat
  /\ Blocks \subseteq 1..PoolSize

VARIABLES
  size,     \* bytes of the file
  free,     \* buffers in the pool
  write,    \* write[w]: "idle", "waiting" for a buffer, "issued", "refused"
  load,     \* the call of load(): its arguments and local variables
  chains,   \* the reads under way: where the next begins, how many are left
  writing,  \* the number of writes under way
  cq,       \* completion queue
  batch,    \* how many of its entries _handleCqes has still to handle
  events,   \* the events _inboundEvents has not delivered
  ch        \* _pending, _active, _closer, and where close() stands

vars == <<size, free, write, load, chains, writing, cq, batch, events, ch>>

\* A payload without bytes, a cancellation, another error, a write.
Data(from, to) == [what |-> "data", bytes |-> [i \in 1..(to - from) |-> from + i]]
Without(what) == [what |-> what, bytes |-> <<>>]

Closing == ch.phase # "open"
Listening == load.state \in {"waiting", "reading"}
Seen(l) == Len(l.bytes)
Least(a, b) == IF a < b THEN a ELSE b
Greatest(a, b) == IF a < b THEN b ELSE a

Init ==
  /\ size \in Sizes
  /\ free = PoolSize
  /\ write = [w \in Writes |-> "idle"]
  /\ load = [state |-> "idle", stat |-> 0, offset |-> 0, single |-> TRUE,
             blocks |-> 1, counter |-> 0, bytes |-> <<>>]
  /\ chains = {} /\ writing = 0
  /\ cq = <<>> /\ batch = 0 /\ events = <<>>
  /\ ch = [pending |-> 0, active |-> TRUE, closer |-> FALSE, phase |-> "open",
           forced |-> FALSE]

(* ---- the isolate ---- *)

\* Continuations and stream events run when the batch has been handled.
Microtask == batch = 0

\* Timers and the next batch come when no microtask is left.
NextTurn ==
  /\ Microtask
  /\ ~(Listening /\ events # <<>>)
  /\ ~(load.state = "waiting" /\ free >= load.blocks)
  /\ ~(\E w \in Writes : write[w] = "waiting" /\ free > 0)
  /\ ~(ch.phase \in {"grace", "awaitCloser"} /\ ch.closer)

(* ---- calls of the user ---- *)

CallWrite(w) ==
  /\ write[w] = "idle"
  /\ write' = [write EXCEPT ![w] = "waiting"]
  /\ UNCHANGED <<size, free, load, chains, writing, cq, batch, events, ch>>

\* writeSingle after its await; a refused call keeps the buffer.
WriteContinues(w) ==
  /\ Microtask /\ write[w] = "waiting" /\ free > 0
  /\ free' = free - 1
  /\ IF Closing
     THEN write' = [write EXCEPT ![w] = "refused"] /\ UNCHANGED <<writing, ch>>
     ELSE /\ write' = [write EXCEPT ![w] = "issued"]
          /\ writing' = writing + 1
          /\ ch' = [ch EXCEPT !.pending = @ + 1]
  /\ UNCHANGED <<size, load, chains, cq, batch, events>>

\* load(), and delegate.stat() that it awaits.
CallLoad(blocks, offset) ==
  /\ load.state = "idle"
  /\ load' = [load EXCEPT !.state = "stat", !.stat = size, !.offset = offset,
                          !.single = (blocks = 1), !.blocks = blocks]
  /\ UNCHANGED <<size, free, write, chains, writing, cq, batch, events, ch>>

\* _loadFile: listen and read the first round.
LoadFile ==
  /\ Microtask /\ load.state = "stat"
  /\ load' = [load EXCEPT !.state = "waiting"]
  /\ UNCHANGED <<size, free, write, chains, writing, cq, batch, events, ch>>

\* Mutation of NextOffset: the offset of the caller is forgotten.
NextOffsetFromStart(l) == Seen(l)

NextOffset(l) == l.offset + Seen(l)

\* Mutation of IssueReads: _pending is incremented once.
IssueReadsCountsOne ==
  /\ chains' = chains \cup
       {[at |-> NextOffset(load), left |-> load.blocks, broken |-> FALSE]}
  /\ ch' = [ch EXCEPT !.pending = @ + 1]

\* Each read but the last carries IOSQE_IO_LINK.
IssueReads ==
  /\ chains' = chains \cup
       {[at |-> NextOffset(load), left |-> load.blocks, broken |-> FALSE]}
  /\ ch' = [ch EXCEPT !.pending = @ + load.blocks]

\* readSingle and readMany after their await.  The error of a refused round
\* ends the load; its buffers are kept, and the subscription is cancelled.
LoadContinues ==
  /\ Microtask /\ load.state = "waiting" /\ free >= load.blocks
  /\ free' = free - load.blocks
  /\ IF Closing
     THEN load' = [load EXCEPT !.state = "failed"] /\ events' = <<>>
          /\ UNCHANGED <<chains, ch>>
     ELSE load' = [load EXCEPT !.state = "reading"] /\ IssueReads
          /\ UNCHANGED events
  /\ UNCHANGED <<size, write, writing, cq, batch>>

(* ---- the listener of load() ---- *)

\* The completer ends the load and its subscription with it: events that
\* were not delivered are dropped.
Ends(l, state) == load' = [l EXCEPT !.state = state] /\ events' = <<>>

GoesOn(l) == load' = l /\ events' = Tail(events)

\* The round is over: the next one has no more blocks than are left.
NextRound(l) ==
  [l EXCEPT !.state = "waiting", !.counter = 0,
            !.blocks = Least(@, Greatest((l.stat - Seen(l)) \div BufferSize, 1))]

\* onData, after takeBytes has released the buffer.
OnPayload(bytes) ==
  LET l == [load EXCEPT !.bytes = @ \o bytes, !.counter = @ + 1]
  IN  IF bytes = <<>> \/ Seen(l) = l.stat THEN Ends(l, "done")
      ELSE IF l.single \/ l.counter = l.blocks THEN GoesOn(NextRound(l))
      ELSE GoesOn(l)

\* Mutation of OnError: a cancelled read does not end the load.
OnErrorIgnoresCancel(what) ==
  IF what = "canceled" THEN GoesOn(load) ELSE Ends(load, "failed")

\* onError: what was cancelled comes after the end of the file.
OnError(what) == Ends(load, IF what = "canceled" THEN "done" ELSE "failed")

Deliver ==
  /\ Microtask /\ Listening /\ events # <<>>
  /\ LET event == Head(events)
     IN  IF event.what = "data"
         THEN OnPayload(event.bytes) /\ free' = free + 1
         ELSE OnError(event.what) /\ UNCHANGED free
  /\ UNCHANGED <<size, write, chains, writing, cq, batch, ch>>

(* ---- the kernel ---- *)

\* What a read at this offset finds now.
Content(at) ==
  LET from == at % OffsetLimit
  IN  Data(from, Greatest(from, Least(from + BufferSize, size)))

Post(result) == cq' = Append(cq, result)

\* The first read of a chain that is left ends.  Once the chain is broken or
\* a close has cancelled it, it may be cancelled.
KernelReads(chain) ==
  LET rest(broken) ==
        IF chain.left = 1 THEN {}
        ELSE {[at |-> chain.at + BufferSize, left |-> chain.left - 1, broken |-> broken]}
      ended(result, broken) ==
        /\ Post(result)
        /\ chains' = (chains \ {chain}) \cup rest(broken)
      found == Content(chain.at)
  IN  /\ \/ chain.broken /\ ended(Without("canceled"), TRUE)
         \/ /\ ~chain.broken
            /\ \/ ended(found, Len(found.bytes) < BufferSize)
               \/ ended(Without("error"), TRUE)
               \/ ch.forced /\ ended(Without("canceled"), TRUE)
      /\ UNCHANGED <<size, free, write, load, writing, batch, events, ch>>

\* The file is open for appending.  A write that fails, or is cancelled,
\* adds nothing.
KernelWrites ==
  /\ writing > 0
  /\ writing' = writing - 1
  /\ \E n \in 0..BufferSize : size' = size + n
  /\ Post(Without("write"))
  /\ UNCHANGED <<free, write, load, chains, batch, events, ch>>

(* ---- completions ---- *)

Peek ==
  /\ NextTurn
  /\ batch' \in 1..Len(cq)
  /\ UNCHANGED <<size, free, write, load, chains, writing, cq, events, ch>>

\* Mutation of Released: the buffer of a failed read is kept.
ReleasedUnlessRead(active, what) == ~active \/ what = "write"

\* Which completions give the buffer back: all but a payload that goes to
\* the stream.
Released(active, what) == ~active \/ what # "data"

\* notify: the last completion of a closing channel completes _closer.  What
\* is added to the stream without a listener, after the load, is dropped.
Notify ==
  /\ batch > 0 /\ batch' = batch - 1
  /\ cq' = Tail(cq)
  /\ LET result == Head(cq)
         last   == ch.pending = 1 /\ Closing
     IN  /\ ch' = [ch EXCEPT !.pending = @ - 1, !.closer = @ \/ last,
                             !.active = @ /\ ~last]
         /\ free' = IF Released(ch.active, result.what) THEN free + 1 ELSE free
         /\ events' = IF ch.active /\ result.what # "write" /\ Listening
                      THEN Append(events, result) ELSE events
  /\ UNCHANGED <<size, write, load, chains, writing>>

(* ---- close ---- *)

Cancelling(c) == [c EXCEPT !.active = FALSE, !.phase = "awaitCloser", !.forced = TRUE]

\* Past the completer: a stream that has a listener is closed first.
Finishing(c) ==
  [c EXCEPT !.active = FALSE, !.phase = IF Listening THEN "draining" ELSE "closed"]

\* The first close(), with or without a grace timeout.
CallClose(gently) ==
  /\ ~Closing
  /\ ch' = IF ch.pending = 0 THEN Finishing(ch)
           ELSE IF gently THEN [ch EXCEPT !.phase = "grace"] ELSE Cancelling(ch)
  /\ UNCHANGED <<size, free, write, load, chains, writing, cq, batch, events>>

GraceTimeout ==
  /\ NextTurn /\ ch.phase = "grace"
  /\ ch' = Cancelling(ch)
  /\ UNCHANGED <<size, free, write, load, chains, writing, cq, batch, events>>

CloserCompleted ==
  /\ Microtask /\ ch.phase \in {"grace", "awaitCloser"} /\ ch.closer
  /\ ch' = Finishing(ch)
  /\ UNCHANGED <<size, free, write, load, chains, writing, cq, batch, events>>

\* The done event follows the others; the registry and the descriptor.
InboundDrained ==
  /\ Microtask /\ ch.phase = "draining" /\ events = <<>>
  /\ ch' = [ch EXCEPT !.phase = "closed"]
  /\ UNCHANGED <<size, free, write, load, chains, writing, cq, batch, events>>

Kernel == KernelWrites \/ \E chain \in chains : KernelReads(chain)

Next ==
  \/ \E w \in Writes : CallWrite(w) \/ WriteContinues(w)
  \/ \E blocks \in Blocks, offset \in Offsets : CallLoad(blocks, offset)
  \/ LoadFile \/ LoadContinues \/ Deliver
  \/ Kernel \/ Peek \/ Notify
  \/ \E gently \in BOOLEAN : CallClose(gently)
  \/ GraceTimeout \/ CloserCompleted \/ InboundDrained

\* The kernel ends what it has of a file, and the isolate runs.
Fairness ==
  /\ WF_vars(Kernel) /\ WF_vars(Peek) /\ WF_vars(Notify)
  /\ WF_vars(\E w \in Writes : WriteContinues(w))
  /\ WF_vars(LoadFile) /\ WF_vars(LoadContinues) /\ WF_vars(Deliver)
  /\ WF_vars(CloserCompleted) /\ WF_vars(InboundDrained)

Spec == Init /\ [][Next]_vars
FairSpec == Spec /\ Fairness

-----------------------------------------------------------------------------
Results == {"data", "canceled", "error"}

\* The type invariant, with the counter: _pending is what the kernel and the
\* completion queue hold, and there is one round of reads at a time.
TypeOK ==
  /\ size \in Nat /\ free \in 0..PoolSize /\ writing \in Nat
  /\ write \in [Writes -> {"idle", "waiting", "issued", "refused"}]
  /\ load \in [state : {"idle", "stat", "waiting", "reading", "done", "failed"},
               stat : Nat, offset : Nat, single : BOOLEAN, blocks : 1..PoolSize,
               counter : 0..PoolSize, bytes : Seq(Nat)]
  /\ \A i \in 1..Len(cq) : cq[i].what \in Results \cup {"write"}
  /\ \A i \in 1..Len(events) : events[i].what \in Results
  /\ batch \in 0..Len(cq)
  /\ ch \in [pending : Nat, active : BOOLEAN, closer : BOOLEAN, forced : BOOLEAN,
             phase : {"open", "grace", "awaitCloser", "draining", "closed"}]
  /\ \A a, b \in chains : a = b
  /\ \A chain \in chains : ch.pending = chain.left + writing + Len(cq)
  /\ chains = {} => ch.pending = writing + Len(cq)

\* What load() has read is the file from the offset on, in order, without a gap
\* and nothing twice, although reads are chained, broken off and repeated
\* while the file grows; and a load that succeeds has read at least what was
\* there when it began.
LoadReturnsFile ==
  /\ \A i \in DOMAIN load.bytes : load.bytes[i] = load.offset + i
  /\ load.state = "done" => Seen(load) >= load.stat - load.offset

NothingUnderWay ==
  /\ chains = {} /\ writing = 0 /\ cq = <<>> /\ events = <<>>
  /\ load.state # "waiting"

\* The first round goes beyond a file that fills its last block.
ReadsPastTheEnd ==
  /\ load.state = "done"
  /\ load.stat > 0 /\ load.stat % BufferSize = 0
  /\ load.blocks * BufferSize > load.stat

\* When nothing is under way all buffers are in the pool, but for those of
\* calls the close has refused, and for the payload of the read that comes back
\* empty when the load has already ended.
BuffersComeBack ==
  NothingUnderWay =>
    \/ free = PoolSize
    \/ \E w \in Writes : write[w] = "refused"
    \/ load.state = "failed" /\ Closing
    \/ ReadsPastTheEnd

\* The close is over and its cancellation has taken the result of a round.
Forgotten == load.state = "reading" /\ ch.forced

\* The load waits for buffers that refused calls keep.
Starved ==
  /\ load.state = "waiting" /\ free < load.blocks
  /\ \E w \in Writes : write[w] = "refused"

\* A load ends, also when the channel is closed meanwhile, unless the close is
\* forced or keeps its buffers; and a close ends.
CallsEnd ==
  /\ load.state # "idle" ~> load.state \in {"done", "failed"} \/ Forgotten \/ Starved
  /\ Closing ~> ch.phase = "closed"
=============================================================================
