-------------------------- MODULE OutboundHandlers --------------------------
(***************************************************************************)
(* How the result of a write reaches the onDone or onError of the user:    *)
(* the two handler tables of a channel, keyed by buffer id, and the        *)
(* counters by which a provider folds the results of writeMany into one    *)
(* callback (client/client.dart, client/provider.dart; the server          *)
(* connection, the datagram channels and the file use the same code).      *)
(*                                                                         *)
(* The tables outlive a write, because a success removes only its done     *)
(* handler and a failure only its error handler, and a buffer is used      *)
(* again as soon as it is released.  A close ends this in two ways: from   *)
(* _closing on a write is refused, which the provider reports itself, and  *)
(* without _active a result is dropped with no handler called.             *)
(***************************************************************************)
EXTENDS Integers, Sequences, FiniteSets

CONSTANTS
  Buffers,   \* ids of the buffers of the pool
  Singles,   \* bound: the calls of writeSingle, each issued once
  Batches,   \* bound: the calls of writeMany, each issued once
  BatchSize, \* bytes.length of a writeMany
  Linked,    \* its linked argument
  Handlers   \* the sets of handlers a writeSingle may be given

Writes == Singles \cup Batches
NoWrite == "none"

\* Whose buffer a refused call has kept.
Kept == "kept"

ASSUME OutboundAssumption ==
  /\ Singles \cap Batches = {} /\ {NoWrite, Kept} \cap Writes = {}
  /\ BatchSize \in Nat \ {0} /\ Linked \in BOOLEAN
  /\ Handlers \subseteq SUBSET {"done", "error"}

VARIABLES
  stage,         \* of the channel: open, grace (_closing), inactive (~_active)
  carries,       \* carries[b]: the write whose request uses buffer b
  part,          \* part[b]: which request of that write
  doneHandlers,  \* _outboundDoneHandlers: the write a buffer's handler is of
  errorHandlers, \* _outboundErrorHandlers
  given,         \* given[w]: the callbacks the user gave to write w
  doneCounter,   \* doneCounter[w], errorCounter[w] of writeMany
  errorCounter,
  outcome,       \* outcome[w]: results of the requests of w, in order of part
  reported       \* reported[w]: the callbacks of the user that have run

vars == <<stage, carries, part, doneHandlers, errorHandlers, given, doneCounter,
          errorCounter, outcome, reported>>
counters == <<doneCounter, errorCounter>>

Size(w) == IF w \in Batches THEN BatchSize ELSE 1
Free == {b \in Buffers : carries[b] = NoWrite}
Issued(w) == outcome[w] # <<>>

Init ==
  /\ stage = "open"
  /\ carries = [b \in Buffers |-> NoWrite]
  /\ part = [b \in Buffers |-> 0]
  /\ doneHandlers = [b \in Buffers |-> NoWrite]
  /\ errorHandlers = [b \in Buffers |-> NoWrite]
  /\ given = [w \in Writes |-> {}]
  /\ doneCounter = [w \in Writes |-> 0]
  /\ errorCounter = [w \in Writes |-> 0]
  /\ outcome = [w \in Writes |-> <<>>]
  /\ reported = [w \in Writes |-> <<>>]

\* writeSingle, writeMany: each request of w gets a buffer, and the handlers
\* that were given overwrite the entries of that buffer; others stay.  The
\* provider of writeMany always gives both.
Write(w) ==
  /\ stage = "open" /\ ~Issued(w)
  /\ \E buffer \in [1..Size(w) -> Free], handlers \in SUBSET {"done", "error"} :
       LET used == {buffer[i] : i \in 1..Size(w)}
       IN  /\ Cardinality(used) = Size(w)
           /\ IF w \in Batches THEN handlers = {"done", "error"} ELSE handlers \in Handlers
           /\ carries' = [b \in Buffers |-> IF b \in used THEN w ELSE carries[b]]
           /\ part' = [b \in Buffers |->
                         IF b \in used THEN CHOOSE i \in 1..Size(w) : buffer[i] = b
                                       ELSE part[b]]
           /\ doneHandlers' = [b \in Buffers |->
                IF b \in used /\ "done" \in handlers THEN w ELSE doneHandlers[b]]
           /\ errorHandlers' = [b \in Buffers |->
                IF b \in used /\ "error" \in handlers THEN w ELSE errorHandlers[b]]
           /\ given' = [given EXCEPT ![w] = handlers]
  /\ outcome' = [outcome EXCEPT ![w] = [i \in 1..Size(w) |-> "underWay"]]
  /\ UNCHANGED <<stage, counters, reported>>

Report(w, what) == reported' = [reported EXCEPT ![w] = Append(@, what)]

\* A write whose buffers come when the channel is closing ends with an error,
\* which the provider hands to onError.  It keeps the buffers.
Refuse(w) ==
  /\ stage # "open" /\ ~Issued(w)
  /\ \E used \in SUBSET Free, handlers \in SUBSET {"done", "error"} :
       /\ Cardinality(used) = Size(w)
       /\ w \in Singles => handlers \in Handlers
       /\ carries' = [b \in Buffers |-> IF b \in used THEN Kept ELSE carries[b]]
       /\ given' = [given EXCEPT ![w] = handlers]
       /\ IF "error" \in handlers THEN Report(w, "error") ELSE UNCHANGED reported
  /\ outcome' = [outcome EXCEPT ![w] = [i \in 1..Size(w) |-> "refused"]]
  /\ UNCHANGED <<stage, part, doneHandlers, errorHandlers, counters>>

\* close(): with a grace for what is under way, or at once.
Close ==
  /\ stage = "open" /\ stage' \in {"grace", "inactive"}
  /\ UNCHANGED <<carries, part, doneHandlers, errorHandlers, given, counters,
                 outcome, reported>>

\* The grace is over.
GraceEnds ==
  /\ stage = "grace" /\ stage' = "inactive"
  /\ UNCHANGED <<carries, part, doneHandlers, errorHandlers, given, counters,
                 outcome, reported>>

\* Mutation of CallDone: the counter is compared before it is incremented.
CallDonePostIncrement(w) ==
  IF w \in Singles
  THEN Report(w, "done") /\ UNCHANGED counters
  ELSE /\ doneCounter' = IF errorCounter[w] = 0
                         THEN [doneCounter EXCEPT ![w] = @ + 1] ELSE doneCounter
       /\ IF errorCounter[w] = 0 /\ doneCounter[w] = Size(w)
          THEN Report(w, "done") ELSE UNCHANGED reported
       /\ UNCHANGED errorCounter

\* The onDone a channel calls: of the user, or counting for the batch.
CallDone(w) ==
  IF w \in Singles
  THEN Report(w, "done") /\ UNCHANGED counters
  ELSE /\ doneCounter' = IF errorCounter[w] = 0
                         THEN [doneCounter EXCEPT ![w] = @ + 1] ELSE doneCounter
       /\ IF errorCounter[w] = 0 /\ doneCounter[w] + 1 = Size(w)
          THEN Report(w, "done") ELSE UNCHANGED reported
       /\ UNCHANGED errorCounter

\* Mutation of CallError: the first error of a batch is reported at once.
CallErrorAtOnce(w) ==
  /\ Report(w, "error")
  /\ errorCounter' = [errorCounter EXCEPT ![w] = @ + 1]
  /\ UNCHANGED doneCounter

\* The onError a channel calls.
CallError(w) ==
  IF w \in Singles
  THEN Report(w, "error") /\ UNCHANGED counters
  ELSE /\ errorCounter' = [errorCounter EXCEPT ![w] = @ + 1]
       /\ IF errorCounter[w] + 1 + doneCounter[w] = Size(w)
          THEN Report(w, "error") ELSE UNCHANGED reported
       /\ UNCHANGED doneCounter

NoCall == UNCHANGED <<counters, reported>>

\* Linked requests complete in their order, and fail once one has failed.
LinkAllows(w, i, result) ==
  (Linked /\ w \in Batches) =>
    /\ \A j \in 1..(i - 1) : outcome[w][j] # "underWay"
    /\ (\E j \in 1..(i - 1) : outcome[w][j] = "error") => result = "error"

\* Mutation of Notify: the completion is not taken off the queue.
NotifyAgain(b, result) ==
  LET w == carries[b]
      handlers == IF result = "done" THEN doneHandlers ELSE errorHandlers
  IN  /\ stage # "inactive" /\ w \in Writes
      /\ LinkAllows(w, part[b], result)
      /\ outcome' = [outcome EXCEPT ![w][part[b]] = result]
      /\ CASE handlers[b] = NoWrite -> NoCall
           [] handlers[b] # NoWrite /\ result = "done" -> CallDone(handlers[b])
           [] OTHER -> CallError(handlers[b])
      /\ UNCHANGED <<stage, carries, part, given, doneHandlers, errorHandlers>>

\* notifyData for a write of an active channel: the buffer is released, and
\* the handler of the result, if there is one for this buffer, is removed
\* and called.
Notify(b, result) ==
  LET w == carries[b]
      handlers == IF result = "done" THEN doneHandlers ELSE errorHandlers
  IN  /\ stage # "inactive" /\ w \in Writes
      /\ LinkAllows(w, part[b], result)
      /\ carries' = [carries EXCEPT ![b] = NoWrite]
      /\ outcome' = [outcome EXCEPT ![w][part[b]] = result]
      /\ doneHandlers' = IF result = "done"
                         THEN [doneHandlers EXCEPT ![b] = NoWrite] ELSE doneHandlers
      /\ errorHandlers' = IF result = "error"
                          THEN [errorHandlers EXCEPT ![b] = NoWrite] ELSE errorHandlers
      /\ CASE handlers[b] = NoWrite -> NoCall
           [] handlers[b] # NoWrite /\ result = "done" -> CallDone(handlers[b])
           [] OTHER -> CallError(handlers[b])
      /\ UNCHANGED <<stage, part, given>>

\* notifyData of an inactive channel: the buffer is released, whatever the
\* result, and no handler is called.
NotifyInactive(b) ==
  LET w == carries[b]
  IN  /\ stage = "inactive" /\ w \in Writes
      /\ LinkAllows(w, part[b], "error")
      /\ carries' = [carries EXCEPT ![b] = NoWrite]
      /\ outcome' = [outcome EXCEPT ![w][part[b]] = "dropped"]
      /\ UNCHANGED <<stage, part, given, doneHandlers, errorHandlers, counters, reported>>

Next ==
  \/ \E w \in Writes : Write(w) \/ Refuse(w)
  \/ Close \/ GraceEnds
  \/ \E b \in Buffers : NotifyInactive(b)
  \/ \E b \in Buffers, result \in {"done", "error"} : Notify(b, result)

Spec == Init /\ [][Next]_vars

-----------------------------------------------------------------------------
\* Types: the counters of a batch never exceed its size.
TypeOK ==
  /\ stage \in {"open", "grace", "inactive"}
  /\ carries \in [Buffers -> Writes \cup {NoWrite, Kept}]
  /\ doneHandlers \in [Buffers -> Writes \cup {NoWrite}]
  /\ errorHandlers \in [Buffers -> Writes \cup {NoWrite}]
  /\ doneCounter \in [Writes -> 0..BatchSize]
  /\ errorCounter \in [Writes -> 0..BatchSize]

\* What the user should hear of a write: nothing before its last request
\* has completed, then onDone if all succeeded, else onError.
Over(w) == Issued(w) /\ \A i \in 1..Size(w) : outcome[w][i] # "underWay"
Verdict(w) == IF \A i \in 1..Size(w) : outcome[w][i] = "done" THEN "done" ELSE "error"

\* The channel was inactive when a result of the write came.
Dropped(w) == Issued(w) /\ \E i \in 1..Size(w) : outcome[w][i] = "dropped"

\* No callback runs twice, early, for the wrong result or for another write,
\* and none runs for a write with a dropped result, whatever results of it came
\* before.
NoFalseReport ==
  \A w \in Writes :
    reported[w] # <<>> => Over(w) /\ ~Dropped(w) /\ reported[w] = <<Verdict(w)>>

\* The only results that are lost are those of a channel that a close, or the
\* end of its grace, has made inactive: any other write that is over, a
\* refused one included, has run the callback the user gave for its result.
NoLostReport ==
  \A w \in Writes :
    Over(w) /\ Verdict(w) \in given[w] =>
      reported[w] # <<>> \/ (stage = "inactive" /\ Dropped(w))
=============================================================================
