------------------------- MODULE TransportRing_proofs -------------------------
(***************************************************************************)
(* Lemmas about the ring (module TransportRing), for the proofs of the     *)
(* channels that run on it.  Ops is the set of the operations a channel    *)
(* may name, Rs the set of the results the kernel may give.                *)
(*                                                                         *)
(* RingInv says where an operation is: in exactly one of the submission    *)
(* queue, the kernel and the completion queue, and as long as it has not   *)
(* completed it can still be cancelled, or has been.  One lemma per step   *)
(* of the ring says that the step keeps RingInv, and how the set of the    *)
(* outstanding operations moves.                                           *)
(***************************************************************************)
EXTENDS TransportRing, FiniteSetTheorems, SequenceTheorems, TLAPS

\* No operation is in two places, or twice in the completion queue.
Separate ==
  /\ queued \cap inflight = {}
  /\ (queued \cup inflight) \cap Completed = {}
  /\ \A i, j \in 1..Len(cq) : cq[i].op = cq[j].op => i = j

RingInv(Ops, Rs) ==
  /\ events \subseteq Ops /\ queued \subseteq Ops /\ inflight \subseteq Ops
  /\ cancelled \subseteq inflight
  /\ cq \in Seq([op : Ops, result : Rs])
  /\ waiting \in BOOLEAN /\ batch \in 0..Len(cq)
  /\ Separate
  /\ queued \cup inflight \subseteq events \cup cancelled

-----------------------------------------------------------------------------
(* The completion queue at its two ends.                                   *)

LEMMA CompletedInOps ==
  ASSUME NEW Ops, NEW Rs, cq \in Seq([op : Ops, result : Rs])
  PROVE  /\ Len(cq) \in Nat
         /\ \A i \in 1..Len(cq) : cq[i] \in [op : Ops, result : Rs]
         /\ Completed \subseteq Ops
<1>1. Len(cq) \in Nat
  BY LenProperties
<1>2. \A i \in 1..Len(cq) : cq[i] \in [op : Ops, result : Rs]
  BY ElementOfSeq
<1> QED
  BY <1>1, <1>2 DEF Completed

\* Taking the first completion takes its operation out of Completed.
LEMMA CompletedTail ==
  ASSUME NEW Ops, NEW Rs, cq \in Seq([op : Ops, result : Rs]), cq # <<>>,
         Separate, cq' = Tail(cq)
  PROVE  /\ cq' \in Seq([op : Ops, result : Rs])
         /\ Len(cq') = Len(cq) - 1
         /\ Head(cq) \in [op : Ops, result : Rs]
         /\ Head(cq).op \in Completed
         /\ Completed' = Completed \ {Head(cq).op}
         /\ \A i, j \in 1..Len(cq') : cq'[i].op = cq'[j].op => i = j
<1>1. /\ cq' \in Seq([op : Ops, result : Rs])
      /\ Len(cq') = Len(cq) - 1
      /\ Head(cq) \in [op : Ops, result : Rs]
      /\ \A i \in 1..Len(cq') : cq'[i] = cq[i + 1]
  BY HeadTailProperties
<1>2. Len(cq) \in Nat \ {0}
  BY EmptySeq
<1>3. Head(cq) = cq[1]
  OBVIOUS
<1>4. \A i, j \in 1..Len(cq) : cq[i].op = cq[j].op => i = j
  BY DEF Separate
<1>5. Completed' = Completed \ {Head(cq).op}
  <2>1. \A i \in 1..Len(cq') : cq'[i].op \in Completed /\ cq'[i].op # Head(cq).op
    <3> TAKE i \in 1..Len(cq')
    <3>1. i + 1 \in 1..Len(cq) /\ i + 1 # 1
      BY <1>1, <1>2
    <3>2. cq'[i] = cq[i + 1]
      BY <1>1
    <3> QED
      BY <1>2, <1>3, <1>4, <3>1, <3>2 DEF Completed
  <2>2. \A k \in 1..Len(cq) : cq[k].op # Head(cq).op => cq[k].op \in Completed'
    <3> TAKE k \in 1..Len(cq)
    <3> SUFFICES ASSUME cq[k].op # Head(cq).op PROVE cq[k].op \in Completed'
      OBVIOUS
    <3>1. k # 1
      BY <1>3
    <3>2. k - 1 \in 1..Len(cq') /\ (k - 1) + 1 = k
      BY <1>1, <1>2, <3>1
    <3>3. cq'[k - 1] = cq[k]
      BY <1>1, <3>2
    <3> QED
      BY <3>2, <3>3 DEF Completed
  <2> QED
    BY <2>1, <2>2 DEF Completed
<1>6. \A i, j \in 1..Len(cq') : cq'[i].op = cq'[j].op => i = j
  <2> TAKE i, j \in 1..Len(cq')
  <2>1. i + 1 \in 1..Len(cq) /\ j + 1 \in 1..Len(cq)
    BY <1>1, <1>2
  <2>2. cq'[i] = cq[i + 1] /\ cq'[j] = cq[j + 1]
    BY <1>1
  <2> QED
    BY <1>4, <2>1, <2>2
<1>7. Head(cq).op \in Completed
  BY <1>2, <1>3 DEF Completed
<1> QED
  BY <1>1, <1>5, <1>6, <1>7

\* A completion posted at the end adds its operation.
LEMMA CompletedAppend ==
  ASSUME NEW Ops, NEW Rs, cq \in Seq([op : Ops, result : Rs]), Separate,
         NEW op \in Ops, NEW result \in Rs, op \notin Completed,
         cq' = Append(cq, [op |-> op, result |-> result])
  PROVE  /\ cq' \in Seq([op : Ops, result : Rs])
         /\ Len(cq') = Len(cq) + 1
         /\ Completed' = Completed \cup {op}
         /\ \A i, j \in 1..Len(cq') : cq'[i].op = cq'[j].op => i = j
<1> DEFINE e == [op |-> op, result |-> result]
<1>1. Len(cq) \in Nat
  BY LenProperties
<1>2. /\ cq' \in Seq([op : Ops, result : Rs])
      /\ Len(cq') = Len(cq) + 1
      /\ \A i \in 1..Len(cq) : cq'[i] = cq[i]
      /\ cq'[Len(cq) + 1] = e
  BY AppendProperties
<1>3. e.op = op
  OBVIOUS
<1> HIDE DEF e
<1>4. 1..Len(cq') = 1..Len(cq) \cup {Len(cq) + 1}
  BY <1>1, <1>2
<1>5. Completed' = Completed \cup {op}
  BY <1>2, <1>3, <1>4 DEF Completed
<1>6. \A i, j \in 1..Len(cq') : cq'[i].op = cq'[j].op => i = j
  BY <1>1, <1>2, <1>3, <1>4 DEF Completed, Separate
<1> QED
  BY <1>2, <1>5, <1>6

\* There are as many completed operations as completions.
LEMMA CompletedCount ==
  ASSUME NEW Ops, NEW Rs, cq \in Seq([op : Ops, result : Rs]), Separate
  PROVE  IsFiniteSet(Completed) /\ Cardinality(Completed) = Len(cq)
<1> DEFINE S == 1..Len(cq)
           f == [i \in S |-> cq[i].op]
<1>1. Len(cq) \in Nat
  BY LenProperties
<1>2. IsFiniteSet(S) /\ Cardinality(S) = Len(cq)
  <2>1. /\ IsFiniteSet(1..Len(cq))
        /\ Cardinality(1..Len(cq)) = IF 1 > Len(cq) THEN 0 ELSE Len(cq) - 1 + 1
    BY <1>1, FS_Interval
  <2>2. Cardinality(1..Len(cq)) = Len(cq)
    BY <1>1, <2>1
  <2> QED
    BY <2>1, <2>2
<1>3. f \in Surjection(S, Completed)
  BY DEF Surjection, Completed
<1>4. f \in Injection(S, Completed)
  <2>1. f \in [S -> Completed]
    BY DEF Completed
  <2>2. \A i, j \in S : f[i] = f[j] => i = j
    BY DEF Separate
  <2> QED
    BY <2>1, <2>2 DEF Injection, IsInjective
<1> QED
  BY <1>2, <1>3, <1>4, FS_Surjection

-----------------------------------------------------------------------------
(* The steps of the ring.                                                  *)

LEMMA RingInitial ==
  ASSUME NEW Ops, NEW Rs, RingInit
  PROVE  RingInv(Ops, Rs) /\ Outstanding = {}
<1>1. cq \in Seq([op : Ops, result : Rs]) /\ Len(cq) = 0
  BY EmptySeq DEF RingInit
<1>2. Completed = {}
  BY <1>1 DEF Completed
<1>3. Separate
  BY <1>1, <1>2 DEF RingInit, Separate
<1>4. /\ events = {} /\ queued = {} /\ inflight = {} /\ cancelled = {}
      /\ waiting \in BOOLEAN /\ batch = 0
  BY DEF RingInit
<1>5. batch \in 0..Len(cq)
  BY <1>1, <1>4
<1> QED
  BY <1>1, <1>2, <1>3, <1>4, <1>5 DEF RingInv, Outstanding

LEMMA RingStutter ==
  ASSUME NEW Ops, NEW Rs, RingInv(Ops, Rs), UNCHANGED ringVars
  PROVE  RingInv(Ops, Rs)' /\ Outstanding' = Outstanding
<1>1. Completed' = Completed
  BY DEF Completed, ringVars
<1> QED
  BY <1>1 DEF ringVars, RingInv, Separate, Outstanding

\* New operations that were not under way are outstanding now.
LEMMA RingPrepare ==
  ASSUME NEW Ops, NEW Rs, RingInv(Ops, Rs),
         NEW ops \in SUBSET Ops, ops \cap Outstanding = {},
         Prepare(ops), UNCHANGED <<cq, waiting, batch>>
  PROVE  RingInv(Ops, Rs)' /\ Outstanding' = Outstanding \cup ops
<1>1. Completed' = Completed
  BY DEF Completed
<1>2. Outstanding' = Outstanding \cup ops
  BY <1>1 DEF Prepare, Outstanding
<1>3. Separate'
  BY <1>1 DEF RingInv, Separate, Prepare, Outstanding
<1> QED
  BY <1>2, <1>3 DEF RingInv, Prepare

\* A submission, with cancellations or without, moves operations only.
LEMMA RingCancel ==
  ASSUME NEW Ops, NEW Rs, RingInv(Ops, Rs),
         NEW ops, CancelEvents(ops),
         cq' = cq, waiting' \in BOOLEAN, batch' = batch
  PROVE  RingInv(Ops, Rs)' /\ Outstanding' = Outstanding
<1>1. Completed' = Completed
  BY DEF Completed
<1>2. Outstanding' = Outstanding
  BY <1>1 DEF CancelEvents, SubmitAndCancel, Outstanding
<1>3. Separate'
  BY <1>1 DEF RingInv, Separate, CancelEvents, SubmitAndCancel
<1>4. queued' \cup inflight' \subseteq events' \cup cancelled'
  BY DEF RingInv, CancelEvents, SubmitAndCancel
<1> QED
  BY <1>2, <1>3, <1>4 DEF RingInv, CancelEvents, SubmitAndCancel

LEMMA RingPeek ==
  ASSUME NEW Ops, NEW Rs, RingInv(Ops, Rs), PeekSubmit
  PROVE  RingInv(Ops, Rs)' /\ Outstanding' = Outstanding
<1>1. CancelEvents({})
  BY DEF PeekSubmit, CancelEvents
<1> QED
  BY <1>1, RingCancel DEF PeekSubmit

LEMMA RingCollect ==
  ASSUME NEW Ops, NEW Rs, RingInv(Ops, Rs), PeekCollect
  PROVE  RingInv(Ops, Rs)' /\ Outstanding' = Outstanding
<1>1. Completed' = Completed
  BY DEF Completed, PeekCollect
<1>2. Len(cq) \in Nat
  BY CompletedInOps DEF RingInv
<1>3. waiting' \in BOOLEAN /\ batch' \in 0..Len(cq)
  <2>1. waiting' = FALSE /\ batch' = IF Len(cq) <= PeekCount THEN Len(cq) ELSE PeekCount
    BY DEF PeekCollect
  <2>2. PeekCount \in Nat
    BY RingAssumption
  <2>3. batch' \in 0..Len(cq)
    BY <1>2, <2>1, <2>2
  <2> QED
    BY <2>1, <2>3
<1> QED
  BY <1>1, <1>3 DEF PeekCollect, RingInv, Separate, Outstanding

\* The completion loop takes an operation out of the ring: what it cancels
\* meanwhile stays outstanding.
LEMMA RingTakeCancel ==
  ASSUME NEW Ops, NEW Rs, RingInv(Ops, Rs), NextCqe,
         NEW ops, SubmitAndCancel(ops),
         events' \subseteq events, events \ (ops \cup {Head(cq).op}) \subseteq events'
  PROVE  /\ Head(cq) \in [op : Ops, result : Rs]
         /\ Head(cq).op \in Outstanding
         /\ RingInv(Ops, Rs)'
         /\ Outstanding' = Outstanding \ {Head(cq).op}
<1>1. cq \in Seq([op : Ops, result : Rs]) /\ Len(cq) \in Nat /\ Separate
  BY LenProperties DEF RingInv
<1>2. batch \in 0..Len(cq) /\ batch > 0
  BY DEF RingInv, NextCqe
<1>3. cq # <<>>
  BY <1>1, <1>2, EmptySeq
<1>4. cq' = Tail(cq) /\ batch' = batch - 1 /\ waiting' = waiting
  BY DEF NextCqe
<1>5. /\ cq' \in Seq([op : Ops, result : Rs])
      /\ Len(cq') = Len(cq) - 1
      /\ Head(cq) \in [op : Ops, result : Rs]
      /\ Head(cq).op \in Completed
      /\ Completed' = Completed \ {Head(cq).op}
      /\ \A i, j \in 1..Len(cq') : cq'[i].op = cq'[j].op => i = j
  BY <1>1, <1>3, <1>4, CompletedTail
<1> DEFINE h == Head(cq).op
<1> HIDE DEF h
<1>6. h \in Completed /\ Completed' = Completed \ {h}
  BY <1>5 DEF h
<1>7. h \notin queued \cup inflight
  BY <1>1, <1>6 DEF Separate
<1>8. queued' = {} /\ inflight' = inflight \cup queued
      /\ cancelled' = (cancelled \cup ops) \cap inflight'
  BY DEF SubmitAndCancel
<1>9. batch' \in 0..Len(cq')
  BY <1>1, <1>2, <1>4, <1>5
<1>10. Separate'
  BY <1>1, <1>5, <1>6, <1>8 DEF Separate
<1>11. Outstanding' = Outstanding \ {h}
  BY <1>6, <1>7, <1>8 DEF Outstanding
<1>12. events \ (ops \cup {h}) \subseteq events'
  BY DEF h
<1>13. queued' \cup inflight' \subseteq events' \cup cancelled'
  BY <1>7, <1>8, <1>12 DEF RingInv
<1>14. RingInv(Ops, Rs)'
  BY <1>4, <1>5, <1>8, <1>9, <1>10, <1>13 DEF RingInv
<1> QED
  BY <1>5, <1>6, <1>11, <1>14 DEF Outstanding, h

LEMMA RingTake ==
  ASSUME NEW Ops, NEW Rs, RingInv(Ops, Rs), NextCqe, RemoveEvent,
         UNCHANGED <<queued, inflight, cancelled>>
  PROVE  /\ Head(cq) \in [op : Ops, result : Rs]
         /\ Head(cq).op \in Outstanding
         /\ RingInv(Ops, Rs)'
         /\ Outstanding' = Outstanding \ {Head(cq).op}
<1>1. cq \in Seq([op : Ops, result : Rs]) /\ Len(cq) \in Nat /\ Separate
  BY LenProperties DEF RingInv
<1>2. batch \in 0..Len(cq) /\ batch > 0
  BY DEF RingInv, NextCqe
<1>3. cq # <<>>
  BY <1>1, <1>2, EmptySeq
<1>4. cq' = Tail(cq) /\ batch' = batch - 1 /\ waiting' = waiting
  BY DEF NextCqe
<1>5. /\ cq' \in Seq([op : Ops, result : Rs])
      /\ Len(cq') = Len(cq) - 1
      /\ Head(cq) \in [op : Ops, result : Rs]
      /\ Head(cq).op \in Completed
      /\ Completed' = Completed \ {Head(cq).op}
      /\ \A i, j \in 1..Len(cq') : cq'[i].op = cq'[j].op => i = j
  BY <1>1, <1>3, <1>4, CompletedTail
<1> DEFINE h == Head(cq).op
<1> HIDE DEF h
<1>6. h \in Completed /\ Completed' = Completed \ {h}
  BY <1>5 DEF h
<1>7. h \notin queued \cup inflight
  BY <1>1, <1>6 DEF Separate
<1>8. events' = events \ {h}
  BY DEF RemoveEvent, h
<1>9. batch' \in 0..Len(cq')
  BY <1>1, <1>2, <1>4, <1>5
<1>10. Separate'
  BY <1>1, <1>5, <1>6 DEF Separate
<1>11. Outstanding' = Outstanding \ {h}
  BY <1>6, <1>7 DEF Outstanding
<1>12. queued \cup inflight \subseteq events' \cup cancelled
  BY <1>7, <1>8 DEF RingInv
<1>13. RingInv(Ops, Rs)'
  BY <1>4, <1>5, <1>8, <1>9, <1>10, <1>12 DEF RingInv
<1> QED
  BY <1>5, <1>6, <1>11, <1>13 DEF Outstanding, h

\* A completion is taken and its operation prepared again at once.
LEMMA RingTakeAgain ==
  ASSUME NEW Ops, NEW Rs, RingInv(Ops, Rs), NextCqe, Prepare({Head(cq).op})
  PROVE  /\ Head(cq) \in [op : Ops, result : Rs]
         /\ Head(cq).op \in Outstanding
         /\ RingInv(Ops, Rs)'
         /\ Outstanding' = Outstanding
         /\ Completed' = Completed \ {Head(cq).op}
<1>1. cq \in Seq([op : Ops, result : Rs]) /\ Len(cq) \in Nat /\ Separate
  BY LenProperties DEF RingInv
<1>2. batch \in 0..Len(cq) /\ batch > 0
  BY DEF RingInv, NextCqe
<1>3. cq # <<>>
  BY <1>1, <1>2, EmptySeq
<1>4. cq' = Tail(cq) /\ batch' = batch - 1 /\ waiting' = waiting
  BY DEF NextCqe
<1>5. /\ cq' \in Seq([op : Ops, result : Rs])
      /\ Len(cq') = Len(cq) - 1
      /\ Head(cq) \in [op : Ops, result : Rs]
      /\ Head(cq).op \in Completed
      /\ Completed' = Completed \ {Head(cq).op}
      /\ \A i, j \in 1..Len(cq') : cq'[i].op = cq'[j].op => i = j
  BY <1>1, <1>3, <1>4, CompletedTail
<1> DEFINE h == Head(cq).op
<1>6. /\ queued' = queued \cup {h} /\ events' = events \cup {h}
      /\ inflight' = inflight /\ cancelled' = cancelled
  BY DEF Prepare, h
<1> HIDE DEF h
<1>7. h \in Completed /\ Completed' = Completed \ {h} /\ h \in Ops
  BY <1>5 DEF h
<1>8. h \notin queued \cup inflight
  BY <1>1, <1>7 DEF Separate
<1>9. batch' \in 0..Len(cq')
  BY <1>1, <1>2, <1>4, <1>5
<1>10. Separate'
  BY <1>1, <1>5, <1>6, <1>7, <1>8 DEF Separate
<1>11. Outstanding' = Outstanding
  BY <1>6, <1>7 DEF Outstanding
<1>12. RingInv(Ops, Rs)'
  BY <1>4, <1>5, <1>6, <1>7, <1>9, <1>10 DEF RingInv
<1> QED
  BY <1>5, <1>7, <1>11, <1>12 DEF Outstanding, h

\* What is left of the queue was there before, and is not the first.
LEMMA TakenTail ==
  ASSUME NEW Ops, NEW Rs, RingInv(Ops, Rs), NextCqe
  PROVE  /\ 1 \in 1..Len(cq) /\ Head(cq) = cq[1]
         /\ \A i \in 1..Len(cq') : /\ cq'[i].op # Head(cq).op
                                   /\ \E j \in 1..Len(cq) : cq'[i] = cq[j]
<1>1. cq \in Seq([op : Ops, result : Rs]) /\ Len(cq) \in Nat /\ Separate
  BY LenProperties DEF RingInv
<1>2. batch \in 0..Len(cq) /\ batch > 0 /\ cq' = Tail(cq)
  BY DEF RingInv, NextCqe
<1>3. cq # <<>>
  BY <1>1, <1>2, EmptySeq
<1>4. Completed' = Completed \ {Head(cq).op}
  BY <1>1, <1>2, <1>3, CompletedTail
<1>5. /\ Len(cq') = Len(cq) - 1
      /\ \A i \in 1..Len(cq') : cq'[i] = cq[i + 1]
  BY <1>1, <1>2, <1>3, HeadTailProperties
<1>6. 1 \in 1..Len(cq) /\ Head(cq) = cq[1]
  BY <1>1, <1>2
<1>7. ASSUME NEW i \in 1..Len(cq')
      PROVE  cq'[i].op # Head(cq).op /\ \E j \in 1..Len(cq) : cq'[i] = cq[j]
  <2>1. i + 1 \in 1..Len(cq) /\ cq'[i] = cq[i + 1]
    BY <1>1, <1>5
  <2>2. cq'[i].op \in Completed'
    BY DEF Completed
  <2> QED
    BY <1>4, <2>1, <2>2
<1> QED
  BY <1>6, <1>7

\* The kernel posts a completion.
LEMMA RingComplete ==
  ASSUME NEW Ops, NEW Rs, RingInv(Ops, Rs),
         NEW op, NEW result \in Rs, Complete(op, result)
  PROVE  /\ op \in inflight /\ RingInv(Ops, Rs)'
         /\ Outstanding' = Outstanding
<1>1. cq \in Seq([op : Ops, result : Rs]) /\ Len(cq) \in Nat /\ Separate
  BY LenProperties DEF RingInv
<1>2. op \in inflight /\ op \in Ops /\ op \notin Completed /\ op \notin queued
  BY <1>1 DEF RingInv, Complete, Separate
<1>3. /\ inflight' = inflight \ {op} /\ cancelled' = cancelled \ {op}
      /\ cq' = Append(cq, [op |-> op, result |-> result])
      /\ UNCHANGED <<events, queued, waiting, batch>>
  BY DEF Complete
<1>4. /\ cq' \in Seq([op : Ops, result : Rs])
      /\ Len(cq') = Len(cq) + 1
      /\ Completed' = Completed \cup {op}
      /\ \A i, j \in 1..Len(cq') : cq'[i].op = cq'[j].op => i = j
  BY <1>1, <1>2, <1>3, CompletedAppend
<1>5. batch' \in 0..Len(cq')
  BY <1>1, <1>3, <1>4 DEF RingInv
<1>6. Separate'
  BY <1>1, <1>2, <1>3, <1>4 DEF Separate
<1>7. Outstanding' = Outstanding
  BY <1>2, <1>3, <1>4 DEF Outstanding
<1>8. queued' \cup inflight' \subseteq events' \cup cancelled'
  BY <1>2, <1>3 DEF RingInv
<1>9. RingInv(Ops, Rs)'
  BY <1>3, <1>4, <1>5, <1>6, <1>8 DEF RingInv
<1> QED
  BY <1>2, <1>7, <1>9

\* The outstanding operations are counted where they are.
LEMMA RingCount ==
  ASSUME NEW Ops, NEW Rs, RingInv(Ops, Rs), IsFiniteSet(Ops)
  PROVE  /\ IsFiniteSet(Outstanding)
         /\ Cardinality(Outstanding) =
              Cardinality(queued) + Cardinality(inflight) + Len(cq)
<1>1. cq \in Seq([op : Ops, result : Rs]) /\ Separate
  BY DEF RingInv
<1>2. IsFiniteSet(queued) /\ IsFiniteSet(inflight)
  BY FS_Subset DEF RingInv
<1>3. IsFiniteSet(Completed) /\ Cardinality(Completed) = Len(cq)
  BY <1>1, CompletedCount
<1>4. queued \cap inflight = {} /\ (queued \cup inflight) \cap Completed = {}
  BY <1>1 DEF Separate
<1>5. /\ IsFiniteSet(queued \cup inflight)
      /\ Cardinality(queued \cup inflight) =
           Cardinality(queued) + Cardinality(inflight) - Cardinality(queued \cap inflight)
  BY <1>2, FS_Union
<1>6. /\ IsFiniteSet((queued \cup inflight) \cup Completed)
      /\ Cardinality((queued \cup inflight) \cup Completed) =
           Cardinality(queued \cup inflight) + Cardinality(Completed)
             - Cardinality((queued \cup inflight) \cap Completed)
  BY <1>3, <1>5, FS_Union
<1>7. /\ Cardinality(queued) \in Nat /\ Cardinality(inflight) \in Nat
      /\ Cardinality(Completed) \in Nat /\ Cardinality({}) = 0
  BY <1>2, <1>3, FS_CardinalityType, FS_EmptySet
<1>8. Cardinality(queued \cup inflight) = Cardinality(queued) + Cardinality(inflight)
  <2>1. Cardinality(queued \cap inflight) = 0
    BY <1>4, <1>7
  <2> QED
    BY <1>5, <1>7, <2>1
<1>9. Cardinality((queued \cup inflight) \cup Completed) =
        Cardinality(queued \cup inflight) + Cardinality(Completed)
  <2>1. Cardinality((queued \cup inflight) \cap Completed) = 0
    BY <1>4, <1>7
  <2> QED
    BY <1>6, <1>7, <1>8, <2>1
<1>10. Outstanding = (queued \cup inflight) \cup Completed
  BY DEF Outstanding
<1> QED
  BY <1>3, <1>6, <1>8, <1>9, <1>10
=============================================================================
