-------------------------- MODULE TransportBuffers --------------------------
(***************************************************************************)
(* The buffer pool of one worker: the stack of free ids in native memory   *)
(* (transport_buffers_pool.h) and the Dart class TransportBuffers, whose   *)
(* callers sleep on a completer when the stack is empty (buffers.dart).    *)
(*                                                                         *)
(* A member of Callers is one asynchronous call that wants buffers (a      *)
(* read, a writeSingle, a writeMany, ...) and later returns them; it may   *)
(* be issued again once everything it took is back in the pool.            *)
(*                                                                         *)
(* A worker is one isolate: Dart code runs to its next await without being *)
(* interrupted.  release() completes a completer, which puts all who await *)
(* it in the microtask queue; until they run, any code may call get() and  *)
(* take the buffer they were woken for.                                    *)
(***************************************************************************)
EXTENDS Integers, FiniteSets, Sequences

CONSTANTS Callers,       \* concurrent calls that allocate
          BuffersCount,  \* worker->buffers_count
          Sizes,         \* Sizes[c]: {1} for read, writeSingle, ...; n for a
                         \* writeMany of n buffers
          MaxCalls       \* bound: how often each caller is issued

ASSUME BuffersAssumption ==
  /\ BuffersCount \in Nat
  /\ Sizes \in [Callers -> SUBSET (Nat \ {0})]
  /\ MaxCalls \in Nat

Ids == 0..(BuffersCount - 1)

VARIABLES
  ids,         \* pool->ids, the array under the stack
  count,       \* pool->count, its height
  finalizers,  \* _finalizers: each completer as the callers awaiting it
  woken,       \* microtasks: callers whose completer was completed
  need,        \* need[c]: buffers the loop of call c still has to get
  held,        \* held[c]: buffers call c has taken and not returned
  calls        \* calls[c]: how often c was issued (bounded by MaxCalls)

vars == <<ids, count, finalizers, woken, need, held, calls>>

Free == {ids[i] : i \in 0..(count - 1)}

-----------------------------------------------------------------------------
(* transport_worker_initialize pushes every id once.                       *)
Init ==
  /\ ids = [i \in Ids |-> i]
  /\ count = BuffersCount
  /\ finalizers = <<>>
  /\ woken = <<>>
  /\ need = [c \in Callers |-> 0]
  /\ held = [c \in Callers |-> {}]
  /\ calls = [c \in Callers |-> 0]

\* Mutation of Await: a new completer takes the place of the pending one.
AwaitAlone(c) == finalizers' = << <<c>> >>

\* Awaiting: the last completer of the queue if there is one, else a new one.
Await(c) ==
  finalizers' = IF finalizers = <<>>
                THEN << <<c>> >>
                ELSE [finalizers EXCEPT ![Len(finalizers)] = Append(@, c)]

\* transport_buffers_pool_pop, k times: the top of the stack goes to c.
Pop(c, k) ==
  /\ held' = [held EXCEPT ![c] = @ \cup {ids[i] : i \in (count - k)..(count - 1)}]
  /\ count' = count - k
  /\ UNCHANGED ids

\* Mutation of Allocate: a call that has to wait takes nothing before.
AllocateAllOrNothing(c, n) ==
  \/ /\ n <= count
     /\ Pop(c, n)
     /\ need' = [need EXCEPT ![c] = 0]
     /\ UNCHANGED finalizers
  \/ /\ n > count
     /\ Pop(c, 0)
     /\ need' = [need EXCEPT ![c] = n]
     /\ Await(c)

\* The synchronous run of get()/allocate()/allocateArray() for n buffers:
\* pop until n are taken or the stack is empty, then await.
Allocate(c, n) ==
  \/ /\ n <= count
     /\ Pop(c, n)
     /\ need' = [need EXCEPT ![c] = 0]
     /\ UNCHANGED finalizers
  \/ /\ n > count
     /\ Pop(c, count)
     /\ need' = [need EXCEPT ![c] = n - count]
     /\ Await(c)

\* A caller asks for n buffers.  It may run at any time: between two
\* microtasks, in a callback, or in another timer.
Request(c) ==
  /\ need[c] = 0 /\ held[c] = {}
  /\ calls[c] < MaxCalls
  /\ calls' = [calls EXCEPT ![c] = @ + 1]
  /\ \E n \in Sizes[c] : Allocate(c, n)
  /\ UNCHANGED woken

\* The microtask queue resumes the caller that has been woken longest.
Resume ==
  /\ woken # <<>>
  /\ woken' = Tail(woken)
  /\ Allocate(Head(woken), need[Head(woken)])
  /\ UNCHANGED calls

\* Mutation of Push: the height is incremented before it is used as index.
PushPreIncrement(b) ==
  /\ ids' = [ids EXCEPT ![count + 1] = b]
  /\ count' = count + 1

\* transport_buffers_pool_push.
Push(b) ==
  /\ ids' = [ids EXCEPT ![count] = b]
  /\ count' = count + 1

\* Mutations of CompleteLast: nobody is woken; only the first is.
CompleteNone == UNCHANGED <<finalizers, woken>>
CompleteFirstWaiter ==
  \/ /\ finalizers = <<>>
     /\ UNCHANGED <<finalizers, woken>>
  \/ /\ finalizers # <<>>
     /\ finalizers' = SubSeq(finalizers, 1, Len(finalizers) - 1)
     /\ woken' = Append(woken, finalizers[Len(finalizers)][1])

\* release() completes the last completer if there is one: all who await it
\* are resumed, in the order in which they came.
CompleteLast ==
  \/ /\ finalizers = <<>>
     /\ UNCHANGED <<finalizers, woken>>
  \/ /\ finalizers # <<>>
     /\ finalizers' = SubSeq(finalizers, 1, Len(finalizers) - 1)
     /\ woken' = woken \o finalizers[Len(finalizers)]

\* Mutation of Release: the call releases again what it has released.
ReleaseTwice(c) ==
  /\ need[c] = 0
  /\ \E b \in held[c] : Push(b)
  /\ CompleteLast
  /\ UNCHANGED <<need, held, calls>>

\* A call that has all its buffers gives one back.
Release(c) ==
  /\ need[c] = 0
  /\ \E b \in held[c] :
       /\ Push(b)
       /\ held' = [held EXCEPT ![c] = @ \ {b}]
  /\ CompleteLast
  /\ UNCHANGED <<need, calls>>

Next ==
  \/ \E c \in Callers : Request(c) \/ Release(c)
  \/ Resume

Spec == Init /\ [][Next]_vars

\* The microtask queue is always drained, and a call that got all its
\* buffers is completed by the kernel and gives them back.
Fairness == WF_vars(Resume) /\ \A c \in Callers : WF_vars(Release(c))

FairSpec == Spec /\ Fairness

-----------------------------------------------------------------------------
Waiting(c) == need[c] > 0

\* The callers parked on a completer or in the microtask queue.
Parked(s) == {s[i] : i \in 1..Len(s)}
OnCompleter == UNION {Parked(finalizers[i]) : i \in 1..Len(finalizers)}

\* Types: the stack holds ids of buffers, and its height stays within it.
TypeOK ==
  /\ ids \in [Ids -> Ids]
  /\ count \in 0..BuffersCount
  /\ finalizers \in Seq(Seq(Callers))
  /\ woken \in Seq(Callers)
  /\ need \in [Callers -> Nat]
  /\ held \in [Callers -> SUBSET Ids]
  /\ calls \in [Callers -> 0..MaxCalls]

StackHasNoDuplicate ==
  \A i, j \in 0..(count - 1) : ids[i] = ids[j] => i = j
HeldOnce ==
  \A c, d \in Callers : c # d => held[c] \cap held[d] = {}
HeldIsNotFree ==
  \A c \in Callers : held[c] \cap Free = {}
NothingLost ==
  Ids \subseteq Free \cup UNION {held[c] : c \in Callers}

\* Every buffer has exactly one owner: it is once in the stack, or held by
\* one call; none is lost, none is handed out twice (pop and push).
PoolIntegrity ==
  StackHasNoDuplicate /\ HeldOnce /\ HeldIsNotFree /\ NothingLost

\* transport_buffers_pool_push has no bound check: whoever can release a
\* buffer finds room for it, so the push never writes past the array.
PushFits ==
  \A c \in Callers : held[c] # {} => count < BuffersCount

\* No wakeup is lost: nobody sleeps on a completer while a buffer is free,
\* although releases, resumptions and barging requests interleave freely,
\* and no second completer hides behind the last one of the queue.
NoLostWakeup ==
  /\ finalizers # <<>> => count = 0
  /\ Len(finalizers) <= 1

\* A call that waits sits in exactly one place, where a release or the
\* microtask queue finds it; a call that does not wait sits nowhere.
ParkedOnce ==
  /\ \A c \in Callers : Waiting(c) <=> c \in OnCompleter \cup Parked(woken)
  /\ OnCompleter \cap Parked(woken) = {}
  /\ \A i, j \in 1..Len(woken) : woken[i] = woken[j] => i = j
  /\ \A k \in 1..Len(finalizers) : \A i, j \in 1..Len(finalizers[k]) :
       finalizers[k][i] = finalizers[k][j] => i = j

\* Every call gets all the buffers it asked for, once the callers stop
\* issuing new requests (each is issued at most MaxCalls times; an endless
\* stream of get() calls may overtake a woken waiter for ever).
EveryCallServed == \A c \in Callers : Waiting(c) ~> ~Waiting(c)

Ownership == INSTANCE BufferOwnership WITH free <- Free

\* The pool implements the abstract allocator: stack, completers and
\* microtasks change which buffer is taken and when, never the ownership.
OwnershipSpec == Ownership!OwnershipSpec
=============================================================================
