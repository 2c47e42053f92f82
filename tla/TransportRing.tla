---------------------------- MODULE TransportRing ----------------------------
(***************************************************************************)
(* The native half of a worker (transport_worker.c) as its channels use    *)
(* it: the event table, the submission queue, what the kernel executes,    *)
(* the completion queue and the batch of completions being handled.        *)
(*                                                                         *)
(* An operation is named by the user_data of its request, here a pair      *)
(* <<event, buffer>> of the one channel the module that extends this one   *)
(* models (the file descriptor, the third part of user_data, is fixed).    *)
(* The kernel (io_uring) is external: it completes what was submitted, in  *)
(* any order, and an operation it was asked to cancel sooner or later.     *)
(* The submission queue always has room: see the README for the spin of    *)
(* transport_provide_sqe when it has not.                                  *)
(***************************************************************************)
EXTENDS Integers, Sequences, FiniteSets

CONSTANT PeekCount   \* worker->cqe_peek_count

ASSUME RingAssumption == PeekCount \in Nat \ {0}

VARIABLES
  events,     \* worker->events: the operations the table can still cancel
  queued,     \* requests prepared but not submitted
  inflight,   \* requests the kernel executes
  cancelled,  \* those of them a cancellation has reached
  cq,         \* the completion queue: records [op, result]
  waiting,    \* the isolate is blocked inside transport_worker_peek
  batch       \* completions of the current batch not handled yet

ringVars == <<events, queued, inflight, cancelled, cq, waiting, batch>>
loopVars == <<waiting, batch>>

Completed == {cq[i].op : i \in 1..Len(cq)}
Outstanding == queued \cup inflight \cup Completed

\* The event loop of the isolate runs neither peek nor a batch.
LoopIdle == ~waiting /\ batch = 0

RingInit ==
  /\ events = {} /\ queued = {} /\ inflight = {} /\ cancelled = {}
  /\ cq = <<>>
  /\ waiting = FALSE
  /\ batch = 0

\* transport_worker_read, _write, _send_message, _receive_message, _connect:
\* each prepares a request and enters it in the event table.
Prepare(ops) ==
  /\ queued' = queued \cup ops
  /\ events' = events \cup ops
  /\ UNCHANGED <<inflight, cancelled>>

\* io_uring_submit with cancellations of ops behind all that was queued; a
\* cancellation finds only what is executing, and never posts a completion
\* of its own (IORING_ASYNC_CANCEL_ALL with IOSQE_CQE_SKIP_SUCCESS).
SubmitAndCancel(ops) ==
  /\ inflight' = inflight \cup queued
  /\ queued' = {}
  /\ cancelled' = (cancelled \cup ops) \cap inflight'

\* Mutation of CancelEvents: the whole table is cleared.
CancelEventsClears(ops) ==
  /\ SubmitAndCancel(ops)
  /\ events' = {}

\* The entries a cancellation was queued for leave the table.
CancelEvents(ops) ==
  /\ SubmitAndCancel(ops)
  /\ events' = events \ ops

\* Mutation of CancelByFd: the entries go before their requests are named.
CancelByFdNothing == SubmitAndCancel({}) /\ events' = {}

\* transport_worker_cancel_by_fd, for the descriptor of the channel.
CancelByFd == CancelEvents(events)

\* Mutation of CheckEventTimeouts: expired entries are only forgotten.
CheckEventTimeoutsForgets(timed) ==
  \E expired \in SUBSET (events \cap timed) :
    SubmitAndCancel({}) /\ events' = events \ expired

\* transport_worker_check_event_timeouts: some entries that have a timeout
\* (timed) have expired; the submission happens whether or not any has.
CheckEventTimeouts(timed) ==
  \E expired \in SUBSET (events \cap timed) : CancelEvents(expired)

\* transport_worker_peek submits and waits for a completion or a timeout.
PeekSubmit ==
  /\ LoopIdle
  /\ waiting' = TRUE
  /\ SubmitAndCancel({})
  /\ UNCHANGED <<events, cq, batch>>

\* Then it collects at most cqe_peek_count completions to handle.
PeekCollect ==
  /\ waiting
  /\ waiting' = FALSE
  /\ batch' = IF Len(cq) <= PeekCount THEN Len(cq) ELSE PeekCount
  /\ UNCHANGED <<events, queued, inflight, cancelled, cq>>

\* _handleCqes takes the next completion of the batch, and its entry out of
\* the table (transport_worker_remove_event) before the channel is notified.
NextCqe ==
  /\ batch > 0
  /\ batch' = batch - 1
  /\ cq' = Tail(cq)
  /\ UNCHANGED waiting

RemoveEvent == events' = events \ {Head(cq).op}

\* The kernel finishes an operation with one of its results.
Complete(op, result) ==
  /\ op \in inflight
  /\ inflight' = inflight \ {op}
  /\ cancelled' = cancelled \ {op}
  /\ cq' = Append(cq, [op |-> op, result |-> result])
  /\ UNCHANGED <<events, queued, waiting, batch>>
=============================================================================
