----------------------- MODULE TransportBuffers_proofs -----------------------
(***************************************************************************)
(* Proofs about the buffer pool (module TransportBuffers), for every       *)
(* number of buffers, every set of callers and every request size.         *)
(*                                                                         *)
(* The inductive invariant is PoolInv: the types, unique ownership of      *)
(* every buffer, and the discipline of the completers.  The type of count  *)
(* (no push past the array) is not inductive by itself: it needs unique    *)
(* ownership and a pigeonhole argument (lemma RoomForHeld).                *)
(*                                                                         *)
(* On top of it: where the waiting callers are (ParkedOnce), and that the  *)
(* pool implements the abstract allocator BufferOwnership.  The refinement *)
(* needs ParkedOnce: a microtask is a step of the abstract allocator only  *)
(* because whoever sits in the microtask queue still wants a buffer.       *)
(***************************************************************************)
EXTENDS TransportBuffers, FiniteSetTheorems, SequenceTheorems, TLAPS

PoolInv == TypeOK /\ PoolIntegrity /\ NoLostWakeup

-----------------------------------------------------------------------------
(* A queue that holds at most one completer and is not empty holds one.    *)
LEMMA OnlyCompleter ==
  ASSUME NEW S, NEW s \in Seq(S), s # <<>>, Len(s) <= 1
  PROVE  Len(s) = 1 /\ s[1] \in S
<1>1. Len(s) \in Nat /\ Len(s) # 0
  BY EmptySeq
<1>2. Len(s) = 1
  BY <1>1
<1>3. s[1] \in S
  BY <1>2, ElementOfSeq
<1> QED
  BY <1>2, <1>3

(* The pigeonhole: an injective stack of count distinct ids that misses a  *)
(* buffer some call holds is shorter than the array.                       *)
LEMMA RoomForHeld ==
  ASSUME TypeOK, PoolIntegrity,
         NEW c \in Callers, NEW b \in held[c]
  PROVE  count < BuffersCount
<1> DEFINE Stack == 0..(count - 1)
<1> DEFINE f == [i \in Stack |-> ids[i]]
<1>1. BuffersCount \in Nat /\ count \in 0..BuffersCount
  BY BuffersAssumption DEF TypeOK
<1>2. b \in Ids /\ b \notin Free
  BY DEF TypeOK, PoolIntegrity, HeldIsNotFree
<1>3. f \in Injection(Stack, Ids \ {b})
  <2>1. \A i \in Stack : ids[i] \in Ids \ {b}
    BY <1>1, <1>2 DEF TypeOK, Free, Ids
  <2>2. \A i, j \in Stack : ids[i] = ids[j] => i = j
    BY DEF PoolIntegrity, StackHasNoDuplicate
  <2> QED
    BY <2>1, <2>2 DEF Injection, IsInjective
<1>4. IsFiniteSet(Ids) /\ Cardinality(Ids) = BuffersCount
  BY <1>1, FS_Interval DEF Ids
<1>5. IsFiniteSet(Ids \ {b}) /\ Cardinality(Ids \ {b}) = BuffersCount - 1
  BY <1>2, <1>4, FS_RemoveElement
<1>6. Cardinality(Stack) = count
  <2>1. 0 \in Int /\ count - 1 \in Int
    BY <1>1
  <2>2. Cardinality(Stack) = IF 0 > count - 1 THEN 0 ELSE count - 1 - 0 + 1
    BY <2>1, FS_Interval
  <2> QED
    BY <1>1, <2>2
<1>7. Cardinality(Stack) <= Cardinality(Ids \ {b})
  BY <1>3, <1>5, FS_Injection
<1> QED
  BY <1>1, <1>5, <1>6, <1>7

(***************************************************************************)
(* Moving buffers between the stack and a call keeps unique ownership.     *)
(***************************************************************************)
LEMMA PopKeepsOwnership ==
  ASSUME TypeOK, PoolIntegrity,
         NEW c \in Callers, NEW k \in 0..count, Pop(c, k)
  PROVE  /\ PoolIntegrity'
         /\ ids' \in [Ids -> Ids]
         /\ count' \in 0..BuffersCount
         /\ held' \in [Callers -> SUBSET Ids]
<1> DEFINE popped == {ids[i] : i \in (count - k)..(count - 1)}
<1>1. /\ BuffersCount \in Nat /\ count \in 0..BuffersCount
      /\ ids \in [Ids -> Ids] /\ held \in [Callers -> SUBSET Ids]
  BY BuffersAssumption DEF TypeOK
<1>2. /\ ids' = ids /\ count' = count - k
      /\ held' = [held EXCEPT ![c] = @ \cup popped]
  BY DEF Pop
<1>3. popped \subseteq Free /\ popped \subseteq Ids
  BY <1>1 DEF Free, Ids
<1>4. /\ held'[c] = held[c] \cup popped
      /\ \A d \in Callers \ {c} : held'[d] = held[d]
  BY <1>1, <1>2
<1>5. count' \in 0..BuffersCount /\ held' \in [Callers -> SUBSET Ids]
  BY <1>1, <1>2, <1>3
<1>6. Free' \subseteq Free /\ Free' \cap popped = {}
  BY <1>1, <1>2 DEF Free, PoolIntegrity, StackHasNoDuplicate
<1>7. Free \subseteq Free' \cup popped
  BY <1>1, <1>2 DEF Free
<1>8. StackHasNoDuplicate'
  BY <1>1, <1>2 DEF PoolIntegrity, StackHasNoDuplicate
<1>9. HeldOnce'
  BY <1>3, <1>4 DEF PoolIntegrity, HeldOnce, HeldIsNotFree
<1>10. HeldIsNotFree'
  BY <1>4, <1>6 DEF PoolIntegrity, HeldIsNotFree
<1>11. NothingLost'
  <2>1. \A d \in Callers : held[d] \subseteq held'[d]
    BY <1>4
  <2>2. popped \subseteq held'[c]
    BY <1>4
  <2> QED
    BY <1>7, <2>1, <2>2 DEF PoolIntegrity, NothingLost
<1> QED
  BY <1>1, <1>2, <1>5, <1>8, <1>9, <1>10, <1>11 DEF PoolIntegrity

LEMMA PushKeepsOwnership ==
  ASSUME TypeOK, PoolIntegrity,
         NEW c \in Callers, NEW b \in held[c], Push(b),
         held' = [held EXCEPT ![c] = @ \ {b}]
  PROVE  /\ PoolIntegrity'
         /\ ids' \in [Ids -> Ids]
         /\ count' \in 0..BuffersCount
         /\ held' \in [Callers -> SUBSET Ids]
<1>1. /\ BuffersCount \in Nat /\ count \in 0..BuffersCount
      /\ ids \in [Ids -> Ids] /\ held \in [Callers -> SUBSET Ids]
  BY BuffersAssumption DEF TypeOK
<1>2. count < BuffersCount
  BY RoomForHeld
<1>3. b \in Ids /\ b \notin Free
  BY <1>1 DEF PoolIntegrity, HeldIsNotFree
<1>4. count' = count + 1 /\ ids' = [ids EXCEPT ![count] = b]
  BY DEF Push
<1>5. ids'[count] = b /\ \A i \in 0..(count - 1) : ids'[i] = ids[i]
  BY <1>1, <1>2, <1>4 DEF Ids
<1>6. Free' = Free \cup {b}
  <2>1. 0..(count' - 1) = 0..(count - 1) \cup {count}
    BY <1>1, <1>4
  <2> QED
    BY <1>5, <2>1 DEF Free
<1>7. /\ held'[c] = held[c] \ {b}
      /\ \A d \in Callers \ {c} : held'[d] = held[d] /\ b \notin held[d]
  BY <1>1 DEF PoolIntegrity, HeldOnce
<1>8. /\ ids' \in [Ids -> Ids] /\ count' \in 0..BuffersCount
      /\ held' \in [Callers -> SUBSET Ids]
  <2>1. ids' \in [Ids -> Ids]
    BY <1>1, <1>3, <1>4
  <2>2. count' \in 0..BuffersCount
    BY <1>1, <1>2, <1>4
  <2>3. held' \in [Callers -> SUBSET Ids]
    BY <1>1
  <2> QED
    BY <2>1, <2>2, <2>3
<1>9. StackHasNoDuplicate'
  <2>1. \A i \in 0..(count - 1) : ids[i] # b
    BY <1>3 DEF Free
  <2>2. \A i \in 0..(count' - 1) : i \in 0..(count - 1) \/ i = count
    BY <1>1, <1>4
  <2> QED
    BY <1>5, <2>1, <2>2 DEF PoolIntegrity, StackHasNoDuplicate
<1>10. HeldOnce'
  BY <1>7 DEF PoolIntegrity, HeldOnce
<1>11. HeldIsNotFree'
  BY <1>6, <1>7 DEF PoolIntegrity, HeldIsNotFree
<1>12. NothingLost'
  <2>1. UNION {held[d] : d \in Callers} \subseteq {b} \cup UNION {held'[d] : d \in Callers}
    BY <1>7
  <2> QED
    BY <1>6, <2>1 DEF PoolIntegrity, NothingLost
<1> QED
  BY <1>8, <1>9, <1>10, <1>11, <1>12 DEF PoolIntegrity

(***************************************************************************)
(* One synchronous run of allocate/allocateArray, whatever it finds.       *)
(***************************************************************************)
LEMMA AllocateKeepsPool ==
  ASSUME PoolInv, NEW c \in Callers, NEW n \in Nat, Allocate(c, n)
  PROVE  /\ PoolIntegrity' /\ NoLostWakeup'
         /\ ids' \in [Ids -> Ids]
         /\ count' \in 0..BuffersCount
         /\ finalizers' \in Seq(Seq(Callers))
         /\ need' \in [Callers -> Nat]
         /\ held' \in [Callers -> SUBSET Ids]
<1>1. TypeOK /\ PoolIntegrity /\ NoLostWakeup
  BY DEF PoolInv
<1>2. /\ BuffersCount \in Nat /\ count \in 0..BuffersCount
      /\ finalizers \in Seq(Seq(Callers)) /\ need \in [Callers -> Nat]
  BY <1>1, BuffersAssumption DEF TypeOK
<1>3. CASE n <= count /\ Pop(c, n) /\ need' = [need EXCEPT ![c] = 0]
           /\ UNCHANGED finalizers
  <2>1. n \in 0..count
    BY <1>2, <1>3
  <2>2. NoLostWakeup'
    BY <1>1, <1>2, <1>3, <2>1 DEF NoLostWakeup, Pop
  <2> QED
    BY <1>1, <1>2, <1>3, <2>1, <2>2, PopKeepsOwnership
<1>4. CASE n > count /\ Pop(c, count) /\ need' = [need EXCEPT ![c] = n - count]
           /\ Await(c)
  <2>1. count \in 0..count /\ n - count \in Nat
    BY <1>2, <1>4
  <2>2. count' = 0
    BY <1>2, <1>4 DEF Pop
  <2>3. finalizers' \in Seq(Seq(Callers)) /\ Len(finalizers') <= 1
    <3>1. CASE finalizers = <<>>
      <4>1. <<c>> \in Seq(Callers)
        OBVIOUS
      <4>2. finalizers' = << <<c>> >>
        BY <1>4, <3>1 DEF Await
      <4> QED
        BY <4>1, <4>2
    <3>2. CASE finalizers # <<>>
      <4>1. Len(finalizers) = 1
        BY <1>1, <1>2, <3>2, OnlyCompleter DEF NoLostWakeup
      <4>2. finalizers' = [finalizers EXCEPT ![1] = Append(finalizers[1], c)]
        BY <1>4, <3>2, <4>1 DEF Await
      <4>3. finalizers[1] \in Seq(Callers)
        BY <1>1, <1>2, <3>2, OnlyCompleter DEF NoLostWakeup
      <4>4. Append(finalizers[1], c) \in Seq(Callers)
        BY <4>3
      <4>5. finalizers' \in Seq(Seq(Callers)) /\ Len(finalizers') = Len(finalizers)
        <5> DEFINE longer == Append(finalizers[1], c)
        <5>1. finalizers' = [finalizers EXCEPT ![1] = longer]
          BY <4>2
        <5>2. 1 \in 1..Len(finalizers) /\ longer \in Seq(Callers)
          BY <4>1, <4>4
        <5> HIDE DEF longer
        <5> QED
          BY <1>2, <5>1, <5>2, ExceptSeq
      <4> QED
        BY <4>1, <4>5
    <3> QED
      BY <3>1, <3>2
  <2>4. need' \in [Callers -> Nat]
    BY <1>2, <1>4, <2>1
  <2> QED
    BY <1>1, <1>4, <2>1, <2>2, <2>3, <2>4, PopKeepsOwnership DEF NoLostWakeup
<1> QED
  BY <1>3, <1>4 DEF Allocate

-----------------------------------------------------------------------------
(* The inductive invariant.                                                *)
LEMMA InitPool == Init => PoolInv
<1> SUFFICES ASSUME Init PROVE PoolInv
  OBVIOUS
<1>1. BuffersCount \in Nat /\ MaxCalls \in Nat
  BY BuffersAssumption
<1>2. TypeOK
  BY <1>1 DEF Init, TypeOK, Ids
<1>3. Free = Ids
  BY <1>1 DEF Init, Free, Ids
<1>4. PoolIntegrity
  BY <1>1, <1>3 DEF Init, PoolIntegrity, StackHasNoDuplicate, HeldOnce,
                    HeldIsNotFree, NothingLost, Ids
<1>5. NoLostWakeup
  BY DEF Init, NoLostWakeup
<1> QED
  BY <1>2, <1>4, <1>5 DEF PoolInv

LEMMA NextPool == PoolInv /\ [Next]_vars => PoolInv'
<1> SUFFICES ASSUME PoolInv, [Next]_vars PROVE PoolInv'
  OBVIOUS
<1>1. TypeOK /\ PoolIntegrity /\ NoLostWakeup
  BY DEF PoolInv
<1>2. ASSUME NEW c \in Callers, Request(c) PROVE PoolInv'
  <2>1. PICK n \in Sizes[c] : Allocate(c, n)
    BY <1>2 DEF Request
  <2>2. n \in Nat
    BY BuffersAssumption
  <2>3. calls' \in [Callers -> 0..MaxCalls]
    BY <1>1, <1>2, BuffersAssumption DEF Request, TypeOK
  <2>4. woken' \in Seq(Callers)
    BY <1>1, <1>2 DEF Request, TypeOK
  <2> QED
    BY <2>1, <2>2, <2>3, <2>4, AllocateKeepsPool DEF PoolInv, TypeOK
<1>3. ASSUME NEW c \in Callers, Release(c) PROVE PoolInv'
  <2>1. PICK b \in held[c] : Push(b) /\ held' = [held EXCEPT ![c] = @ \ {b}]
    BY <1>3 DEF Release
  <2>2. /\ PoolIntegrity' /\ ids' \in [Ids -> Ids]
        /\ count' \in 0..BuffersCount /\ held' \in [Callers -> SUBSET Ids]
    BY <1>1, <2>1, PushKeepsOwnership
  <2>3. need' \in [Callers -> Nat] /\ calls' \in [Callers -> 0..MaxCalls]
    BY <1>1, <1>3 DEF Release, TypeOK
  <2>4. finalizers' = <<>> /\ woken' \in Seq(Callers)
    <3>1. CASE finalizers = <<>>
      BY <1>1, <1>3, <3>1 DEF Release, CompleteLast, TypeOK
    <3>2. CASE finalizers # <<>>
      <4>1. finalizers \in Seq(Seq(Callers)) /\ woken \in Seq(Callers)
        BY <1>1 DEF TypeOK
      <4>2. Len(finalizers) = 1
        BY <1>1, <3>2, <4>1, OnlyCompleter DEF NoLostWakeup
      <4>3. finalizers' = SubSeq(finalizers, 1, 0) /\ woken' = woken \o finalizers[1]
        BY <1>3, <3>2, <4>2 DEF Release, CompleteLast
      <4>4. finalizers[1] \in Seq(Callers)
        BY <1>1, <3>2, <4>1, OnlyCompleter DEF NoLostWakeup
      <4>5. SubSeq(finalizers, 1, 0) = <<>>
        BY <4>1
      <4> QED
        BY <4>1, <4>3, <4>4, <4>5
    <3> QED
      BY <3>1, <3>2
  <2>5. finalizers' \in Seq(Seq(Callers)) /\ NoLostWakeup'
    BY <2>4 DEF NoLostWakeup
  <2> QED
    BY <2>2, <2>3, <2>4, <2>5 DEF PoolInv, TypeOK
<1>4. ASSUME Resume PROVE PoolInv'
  <2> DEFINE c == Head(woken)
  <2>1. woken \in Seq(Callers) /\ woken # <<>>
    BY <1>1, <1>4 DEF Resume, TypeOK
  <2>2. c \in Callers /\ woken' \in Seq(Callers)
    BY <1>4, <2>1 DEF Resume
  <2>3. need[c] \in Nat
    BY <1>1, <2>2 DEF TypeOK
  <2>4. Allocate(c, need[c])
    BY <1>4 DEF Resume
  <2>5. calls' \in [Callers -> 0..MaxCalls]
    BY <1>1, <1>4 DEF Resume, TypeOK
  <2> QED
    BY <2>2, <2>3, <2>4, <2>5, AllocateKeepsPool DEF PoolInv, TypeOK
<1>5. CASE UNCHANGED vars
  <2>1. TypeOK' /\ NoLostWakeup'
    BY <1>1, <1>5 DEF vars, TypeOK, NoLostWakeup
  <2>2. ids' = ids /\ count' = count /\ held' = held
    BY <1>5 DEF vars
  <2>3. Free' = Free
    BY <2>2 DEF Free
  <2>4. PoolIntegrity'
    BY <1>1, <2>2, <2>3 DEF PoolIntegrity, StackHasNoDuplicate, HeldOnce,
                            HeldIsNotFree, NothingLost
  <2> QED
    BY <2>1, <2>4 DEF PoolInv
<1> QED
  BY <1>2, <1>3, <1>4, <1>5 DEF Next

\* The inductive invariant of the pool holds in every reachable state.
THEOREM PoolInvariant == Spec => []PoolInv
<1> QED
  BY InitPool, NextPool, PTL DEF Spec

-----------------------------------------------------------------------------
\* The state keeps its types: the stack never grows past the ids array and
\* never underflows, for every request size and every interleaving.
THEOREM TypeCorrect == Spec => []TypeOK
<1>1. PoolInv => TypeOK
  BY DEF PoolInv
<1> QED
  BY <1>1, PoolInvariant, PTL

\* Every buffer has exactly one owner, the stack or one call.
THEOREM UniqueOwnership == Spec => []PoolIntegrity
<1>1. PoolInv => PoolIntegrity
  BY DEF PoolInv
<1> QED
  BY <1>1, PoolInvariant, PTL

\* transport_buffers_pool_push, which checks nothing, always finds room.
THEOREM PushAlwaysFits == Spec => []PushFits
<1>1. PoolInv => PushFits
  BY RoomForHeld DEF PoolInv, PushFits
<1> QED
  BY <1>1, PoolInvariant, PTL

\* Nobody sleeps on a completer while a buffer is free.
THEOREM WakeupsAreNotLost == Spec => []NoLostWakeup
<1>1. PoolInv => NoLostWakeup
  BY DEF PoolInv
<1> QED
  BY <1>1, PoolInvariant, PTL

-----------------------------------------------------------------------------
(* Sequences without repetition, and the set of what is in them.           *)
Distinct(s) == \A i, j \in 1..Len(s) : s[i] = s[j] => i = j

LEMMA ParkedAppend ==
  ASSUME NEW S, NEW s \in Seq(S), NEW e \in S
  PROVE  /\ Parked(Append(s, e)) = Parked(s) \cup {e}
         /\ Distinct(s) /\ e \notin Parked(s) => Distinct(Append(s, e))
<1>1. /\ Len(s) \in Nat /\ Len(Append(s, e)) = Len(s) + 1
      /\ \A i \in 1..Len(s) : Append(s, e)[i] = s[i]
      /\ Append(s, e)[Len(s) + 1] = e
  BY AppendProperties, LenProperties
<1>2. 1..(Len(s) + 1) = 1..Len(s) \cup {Len(s) + 1}
  BY <1>1
<1> HIDE DEF Parked
<1>3. Parked(Append(s, e)) = Parked(s) \cup {e}
  BY <1>1, <1>2 DEF Parked
<1>4. Distinct(s) /\ e \notin Parked(s) => Distinct(Append(s, e))
  BY <1>1, <1>2 DEF Parked, Distinct
<1> QED
  BY <1>3, <1>4

LEMMA ParkedConcat ==
  ASSUME NEW S, NEW s \in Seq(S), NEW t \in Seq(S)
  PROVE  /\ Parked(s \o t) = Parked(s) \cup Parked(t)
         /\ Distinct(s) /\ Distinct(t) /\ Parked(s) \cap Parked(t) = {}
              => Distinct(s \o t)
<1>1. /\ Len(s) \in Nat /\ Len(t) \in Nat /\ Len(s \o t) = Len(s) + Len(t)
      /\ \A i \in 1..(Len(s) + Len(t)) :
           (s \o t)[i] = IF i <= Len(s) THEN s[i] ELSE t[i - Len(s)]
  BY ConcatProperties, LenProperties
<1>2. \A i \in 1..Len(s) : i \in 1..Len(s \o t) /\ (s \o t)[i] = s[i]
  BY <1>1
<1>3. \A i \in 1..Len(t) : Len(s) + i \in 1..Len(s \o t) /\ (s \o t)[Len(s) + i] = t[i]
  <2> TAKE i \in 1..Len(t)
  <2>1. Len(s) + i \in 1..(Len(s) + Len(t)) /\ ~(Len(s) + i <= Len(s))
    BY <1>1
  <2>2. Len(s) + i - Len(s) = i
    BY <1>1
  <2> QED
    BY <1>1, <2>1, <2>2
<1>4. \A k \in 1..Len(s \o t) :
        \/ k \in 1..Len(s)
        \/ k - Len(s) \in 1..Len(t) /\ k = Len(s) + (k - Len(s))
  BY <1>1
<1>5. Parked(s \o t) = Parked(s) \cup Parked(t)
  <2>1. \A i \in 1..Len(s) : s[i] \in Parked(s \o t)
    BY <1>2 DEF Parked
  <2>2. \A i \in 1..Len(t) : t[i] \in Parked(s \o t)
    BY <1>3 DEF Parked
  <2>3. \A k \in 1..Len(s \o t) : (s \o t)[k] \in Parked(s) \cup Parked(t)
    <3> TAKE k \in 1..Len(s \o t)
    <3>1. CASE k \in 1..Len(s)
      BY <1>2, <3>1 DEF Parked
    <3>2. CASE k - Len(s) \in 1..Len(t) /\ k = Len(s) + (k - Len(s))
      <4>1. (s \o t)[k] = t[k - Len(s)]
        BY <1>3, <3>2
      <4> QED
        BY <3>2, <4>1 DEF Parked
    <3> QED
      BY <1>4, <3>1, <3>2
  <2> QED
    BY <2>1, <2>2, <2>3 DEF Parked
<1>6. ASSUME Distinct(s), Distinct(t), Parked(s) \cap Parked(t) = {}
      PROVE  Distinct(s \o t)
  <2> SUFFICES ASSUME NEW i \in 1..Len(s \o t), NEW j \in 1..Len(s \o t),
                      (s \o t)[i] = (s \o t)[j]
               PROVE  i = j
    BY DEF Distinct
  <2>1. \A k \in 1..Len(s), l \in 1..Len(t) : s[k] # t[l]
    BY <1>6 DEF Parked
  <2>2. CASE i \in 1..Len(s) /\ j \in 1..Len(s)
    BY <1>2, <1>6, <2>2 DEF Distinct
  <2>3. CASE i - Len(s) \in 1..Len(t) /\ j - Len(s) \in 1..Len(t)
    <3>1. (s \o t)[i] = t[i - Len(s)] /\ (s \o t)[j] = t[j - Len(s)]
      BY <1>1, <1>3, <2>3
    <3>2. i - Len(s) = j - Len(s)
      BY <1>6, <2>3, <3>1 DEF Distinct
    <3> QED
      BY <1>1, <3>2
  <2>4. CASE i \in 1..Len(s) /\ j - Len(s) \in 1..Len(t)
    BY <1>1, <1>2, <1>3, <2>1, <2>4
  <2>5. CASE i - Len(s) \in 1..Len(t) /\ j \in 1..Len(s)
    BY <1>1, <1>2, <1>3, <2>1, <2>5
  <2> QED
    BY <1>4, <2>2, <2>3, <2>4, <2>5
<1> QED
  BY <1>5, <1>6

LEMMA ParkedTail ==
  ASSUME NEW S, NEW s \in Seq(S), s # <<>>, Distinct(s)
  PROVE  /\ Parked(Tail(s)) = Parked(s) \ {Head(s)}
         /\ Head(s) \in Parked(s)
         /\ Distinct(Tail(s))
<1>1. /\ Len(s) \in Nat \ {0} /\ Len(Tail(s)) = Len(s) - 1
      /\ \A i \in 1..Len(Tail(s)) : Tail(s)[i] = s[i + 1]
      /\ Head(s) = s[1]
  BY HeadTailProperties, EmptySeq
<1>2. \A i \in 1..(Len(s) - 1) : i + 1 \in 1..Len(s) /\ i + 1 # 1
  BY <1>1
<1>3. \A i \in 1..Len(s) : i # 1 => i - 1 \in 1..(Len(s) - 1) /\ s[i] = Tail(s)[i - 1]
  BY <1>1
<1>4. Distinct(Tail(s))
  BY <1>1, <1>2 DEF Distinct
<1>5. Head(s) \in Parked(s)
  BY <1>1 DEF Parked
<1>6. \A i \in 1..Len(Tail(s)) : Tail(s)[i] \in Parked(s) \ {Head(s)}
  BY <1>1, <1>2 DEF Distinct, Parked
<1>7. \A i \in 1..Len(s) : s[i] # Head(s) => s[i] \in Parked(Tail(s))
  BY <1>1, <1>3 DEF Parked
<1> QED
  BY <1>4, <1>5, <1>6, <1>7 DEF Parked

-----------------------------------------------------------------------------
(* The callers on the only completer, in the order in which they came.     *)
Waiters == IF finalizers = <<>> THEN <<>> ELSE finalizers[1]

(* Where the waiting callers are, with the queue s of those already woken. *)
ParkedIn(s) ==
  /\ \A c \in Callers : Waiting(c) <=> c \in Parked(Waiters) \cup Parked(s)
  /\ Parked(Waiters) \cap Parked(s) = {}
  /\ Distinct(s) /\ Distinct(Waiters)

LEMMA WaitersType ==
  ASSUME TypeOK, NoLostWakeup
  PROVE  /\ Waiters \in Seq(Callers)
         /\ finalizers # <<>> => Len(finalizers) = 1 /\ finalizers[1] = Waiters
<1>1. finalizers \in Seq(Seq(Callers)) /\ Len(finalizers) <= 1
  BY DEF TypeOK, NoLostWakeup
<1>2. CASE finalizers = <<>>
  BY <1>2, EmptySeq DEF Waiters
<1>3. CASE finalizers # <<>>
  BY <1>1, <1>3, OnlyCompleter DEF Waiters
<1> QED
  BY <1>2, <1>3

LEMMA OnlyWaiters ==
  ASSUME TypeOK, NoLostWakeup
  PROVE  ParkedOnce <=> ParkedIn(woken)
<1>1. CASE finalizers = <<>>
  <2>1. Waiters = <<>> /\ Len(finalizers) = 0 /\ Len(Waiters) = 0
    BY <1>1 DEF Waiters
  <2>2. OnCompleter = {} /\ Parked(Waiters) = {} /\ Distinct(Waiters)
    BY <2>1 DEF OnCompleter, Parked, Distinct
  <2> QED
    BY <2>1, <2>2 DEF ParkedOnce, ParkedIn, Distinct
<1>2. CASE finalizers # <<>>
  <2>1. Len(finalizers) = 1 /\ finalizers[1] = Waiters
    BY <1>2, WaitersType
  <2>2. 1..Len(finalizers) = {1}
    BY <2>1
  <2>3. OnCompleter = Parked(Waiters)
    BY <2>1, <2>2 DEF OnCompleter
  <2>4. (\A k \in 1..Len(finalizers) : \A i, j \in 1..Len(finalizers[k]) :
           finalizers[k][i] = finalizers[k][j] => i = j) <=> Distinct(Waiters)
    BY <2>1, <2>2 DEF Distinct
  <2> QED
    BY <2>3, <2>4 DEF ParkedOnce, ParkedIn, Distinct
<1> QED
  BY <1>1, <1>2

(* A caller that is parked nowhere runs allocate: it ends up parked on the *)
(* completer if it has to wait, else nowhere.                              *)
LEMMA AllocateParks ==
  ASSUME PoolInv, PoolInv', NEW c \in Callers, NEW n \in Nat, Allocate(c, n),
         \A d \in Callers \ {c} : Waiting(d) <=> d \in Parked(Waiters) \cup Parked(woken'),
         c \notin Parked(Waiters) \cup Parked(woken'),
         Parked(Waiters) \cap Parked(woken') = {},
         Distinct(woken'), Distinct(Waiters)
  PROVE  ParkedOnce'
<1>1. /\ count \in Nat /\ need \in [Callers -> Nat]
      /\ Waiters \in Seq(Callers)
      /\ finalizers # <<>> => Len(finalizers) = 1 /\ finalizers[1] = Waiters
      /\ finalizers \in Seq(Seq(Callers))
  BY WaitersType, BuffersAssumption DEF PoolInv, TypeOK
<1> SUFFICES ParkedIn(woken)'
  <2>1. (TypeOK /\ NoLostWakeup)'
    BY DEF PoolInv
  <2>2. (ParkedOnce <=> ParkedIn(woken))'
    BY <2>1, OnlyWaiters, PTL
  <2> QED
    BY <2>2
<1>2. CASE need' = [need EXCEPT ![c] = 0] /\ UNCHANGED finalizers
  <2>1. Waiters' = Waiters
    BY <1>2 DEF Waiters
  <2>2. ~(need'[c] > 0) /\ \A d \in Callers \ {c} : need'[d] = need[d]
    BY <1>1, <1>2
  <2> QED
    BY <2>1, <2>2 DEF ParkedIn, Waiting
<1>3. CASE n > count /\ need' = [need EXCEPT ![c] = n - count] /\ Await(c)
  <2>1. need'[c] > 0 /\ \A d \in Callers \ {c} : need'[d] = need[d]
    BY <1>1, <1>3
  <2>2. Waiters' = Append(Waiters, c)
    <3>1. CASE finalizers = <<>>
      <4>1. Waiters = <<>> /\ finalizers' = << <<c>> >>
        BY <1>3, <3>1 DEF Await, Waiters
      <4>2. finalizers' # <<>> /\ Waiters' = <<c>>
        BY <4>1 DEF Waiters
      <4> QED
        BY <4>1, <4>2
    <3>2. CASE finalizers # <<>>
      <4>1. Len(finalizers) = 1 /\ finalizers[1] = Waiters
        BY <1>1, <3>2
      <4>2. finalizers' = [finalizers EXCEPT ![1] = Append(Waiters, c)]
        BY <1>3, <3>2, <4>1 DEF Await
      <4>3. Append(Waiters, c) \in Seq(Callers) /\ 1 \in 1..Len(finalizers)
        BY <1>1, <4>1, AppendProperties
      <4> DEFINE longer == Append(Waiters, c)
      <4> HIDE DEF longer
      <4>4. Len(finalizers') = 1 /\ finalizers'[1] = longer
        <5>1. finalizers' = [finalizers EXCEPT ![1] = longer]
          BY <4>2 DEF longer
        <5>2. longer \in Seq(Callers) /\ 1 \in 1..Len(finalizers)
          BY <4>3 DEF longer
        <5> QED
          BY <1>1, <4>1, <5>1, <5>2, ExceptSeq
      <4>5. finalizers' # <<>>
        BY <4>4
      <4> QED
        BY <4>4, <4>5 DEF Waiters, longer
    <3> QED
      BY <3>1, <3>2
  <2>3. Parked(Waiters') = Parked(Waiters) \cup {c} /\ Distinct(Waiters')
    BY <1>1, <2>2, ParkedAppend
  <2>4. \A d \in Callers : Waiting(d)' <=> d \in Parked(Waiters') \cup Parked(woken')
    BY <2>1, <2>3 DEF Waiting
  <2> QED
    BY <2>3, <2>4 DEF ParkedIn
<1> QED
  BY <1>2, <1>3 DEF Allocate

LEMMA InitParked == Init => ParkedOnce
<1> SUFFICES ASSUME Init PROVE ParkedOnce
  OBVIOUS
<1>1. finalizers = <<>> /\ woken = <<>> /\ \A c \in Callers : ~Waiting(c)
  BY DEF Init, Waiting
<1>2. Len(finalizers) = 0 /\ Len(woken) = 0
  BY <1>1
<1>3. OnCompleter = {} /\ Parked(woken) = {}
  BY <1>2 DEF OnCompleter, Parked
<1> QED
  BY <1>1, <1>2, <1>3 DEF ParkedOnce

LEMMA NextParked ==
  ASSUME PoolInv, PoolInv', ParkedOnce, [Next]_vars
  PROVE  ParkedOnce'
<1>1. /\ ParkedIn(woken) /\ Waiters \in Seq(Callers) /\ woken \in Seq(Callers)
      /\ finalizers # <<>> => Len(finalizers) = 1 /\ finalizers[1] = Waiters
  BY OnlyWaiters, WaitersType DEF PoolInv, TypeOK
<1>2. ASSUME NEW c \in Callers, Request(c) PROVE ParkedOnce'
  <2>1. PICK n \in Sizes[c] : Allocate(c, n)
    BY <1>2 DEF Request
  <2>2. n \in Nat /\ woken' = woken /\ ~Waiting(c)
    BY <1>2, BuffersAssumption DEF Request, Waiting
  <2>3. c \notin Parked(Waiters) \cup Parked(woken)
    BY <1>1, <2>2 DEF ParkedIn
  <2> QED
    BY <1>1, <2>1, <2>2, <2>3, AllocateParks DEF ParkedIn
<1>3. ASSUME Resume PROVE ParkedOnce'
  <2> DEFINE c == Head(woken)
  <2>1. woken # <<>> /\ woken' = Tail(woken) /\ Allocate(c, need[c])
    BY <1>3 DEF Resume
  <2>2. c \in Callers /\ need[c] \in Nat
    <3>1. c \in Callers
      BY <1>1, <2>1
    <3>2. need \in [Callers -> Nat]
      BY DEF PoolInv, TypeOK
    <3> QED
      BY <3>1, <3>2
  <2>3. /\ Parked(woken') = Parked(woken) \ {c} /\ c \in Parked(woken)
        /\ Distinct(woken')
    BY <1>1, <2>1, ParkedTail DEF ParkedIn
  <2> HIDE DEF c
  <2>4. c \notin Parked(Waiters) \cup Parked(woken')
    BY <1>1, <2>3 DEF ParkedIn
  <2>5. \A d \in Callers \ {c} : Waiting(d) <=> d \in Parked(Waiters) \cup Parked(woken')
    BY <1>1, <2>3 DEF ParkedIn
  <2>6. Parked(Waiters) \cap Parked(woken') = {} /\ Distinct(Waiters)
    BY <1>1, <2>3 DEF ParkedIn
  <2> QED
    BY <2>1, <2>2, <2>3, <2>4, <2>5, <2>6, AllocateParks
<1>4. ASSUME NEW c \in Callers, Release(c) PROVE ParkedOnce'
  <2>1. \A d \in Callers : Waiting(d)' <=> Waiting(d)
    BY <1>4 DEF Release, Waiting
  <2>2. Waiters' = <<>> /\ woken' = woken \o Waiters
    <3>1. CASE finalizers = <<>>
      <4>1. finalizers' = <<>> /\ woken' = woken /\ Waiters = <<>>
        BY <1>4, <3>1 DEF Release, CompleteLast, Waiters
      <4> QED
        BY <1>1, <4>1, ConcatEmptySeq DEF Waiters
    <3>2. CASE finalizers # <<>>
      <4>1. finalizers' = SubSeq(finalizers, 1, 0) /\ woken' = woken \o Waiters
        <5>1. Len(finalizers) = 1 /\ finalizers[1] = Waiters
          BY <1>1, <3>2
        <5>2. /\ finalizers' = SubSeq(finalizers, 1, Len(finalizers) - 1)
              /\ woken' = woken \o finalizers[Len(finalizers)]
          BY <1>4, <3>2 DEF Release, CompleteLast
        <5> QED
          BY <5>1, <5>2
      <4>2. finalizers' = <<>>
        BY <4>1, SubSeqEmpty
      <4> QED
        BY <4>1, <4>2 DEF Waiters
    <3> QED
      BY <3>1, <3>2
  <2>3. /\ Parked(woken') = Parked(woken) \cup Parked(Waiters)
        /\ Distinct(woken')
    BY <1>1, <2>2, ParkedConcat DEF ParkedIn
  <2>4. Len(Waiters') = 0
    BY <2>2
  <2>5. Parked(Waiters') = {} /\ Distinct(Waiters')
    BY <2>4 DEF Parked, Distinct
  <2>6. ParkedIn(woken)'
    BY <1>1, <2>1, <2>3, <2>5 DEF ParkedIn
  <2>7. (ParkedOnce <=> ParkedIn(woken))'
    <3>1. (TypeOK /\ NoLostWakeup)'
      BY DEF PoolInv
    <3> QED
      BY <3>1, OnlyWaiters, PTL
  <2> QED
    BY <2>6, <2>7
<1>5. CASE UNCHANGED vars
  <2>1. finalizers' = finalizers /\ woken' = woken /\ need' = need
    BY <1>5 DEF vars
  <2> QED
    BY <2>1 DEF ParkedOnce, OnCompleter, Waiting
<1> QED
  BY <1>2, <1>3, <1>4, <1>5 DEF Next

\* Every call that waits sits in exactly one place, once: on the completer,
\* where the next release() finds it, or in the microtask queue.
THEOREM EveryWaiterIsParkedOnce == Spec => []ParkedOnce
<1>1. Init => ParkedOnce
  BY InitParked
<1>2. PoolInv /\ PoolInv' /\ ParkedOnce /\ [Next]_vars => ParkedOnce'
  BY NextParked
<1> QED
  BY <1>1, <1>2, PoolInvariant, PTL DEF Spec

-----------------------------------------------------------------------------
(* The pool implements BufferOwnership.                                    *)

(* What a pop of k buffers takes: k of the free ones.                      *)
Top(k) == {ids[i] : i \in (count - k)..(count - 1)}

LEMMA PopTakes ==
  ASSUME TypeOK, PoolIntegrity, NEW k \in 0..count
  PROVE  /\ Top(k) \subseteq Free /\ Top(k) \subseteq Ids
         /\ IsFiniteSet(Top(k)) /\ Cardinality(Top(k)) = k
<1> DEFINE Stack == (count - k)..(count - 1)
<1> DEFINE f == [i \in Stack |-> ids[i]]
<1>1. /\ count \in Nat /\ k \in Nat /\ count \in 0..BuffersCount /\ BuffersCount \in Nat
      /\ ids \in [Ids -> Ids]
  BY BuffersAssumption DEF TypeOK
<1>2. Stack \subseteq 0..(count - 1) /\ Stack \subseteq Ids
  BY <1>1 DEF Ids
<1>3. Top(k) \subseteq Free /\ Top(k) \subseteq Ids
  BY <1>1, <1>2 DEF Top, Free
<1>4. f \in Bijection(Stack, Top(k))
  <2>1. \A i \in Stack : ids[i] \in Top(k)
    BY DEF Top
  <2>2. \A b \in Top(k) : \E i \in Stack : ids[i] = b
    BY DEF Top
  <2>3. \A i, j \in Stack : ids[i] = ids[j] => i = j
    BY <1>2 DEF PoolIntegrity, StackHasNoDuplicate
  <2> QED
    BY <2>1, <2>2, <2>3 DEF Bijection, Injection, IsInjective, Surjection
<1>5. IsFiniteSet(Stack) /\ Cardinality(Stack) = k
  <2>1. count - k \in Int /\ count - 1 \in Int
    BY <1>1
  <2>2. /\ IsFiniteSet(Stack)
        /\ Cardinality(Stack) = IF count - k > count - 1 THEN 0
                                ELSE count - 1 - (count - k) + 1
    BY <2>1, FS_Interval
  <2> QED
    BY <1>1, <2>2
<1>6. IsFiniteSet(Top(k)) /\ Cardinality(Top(k)) = Cardinality(Stack)
  <2>1. ExistsBijection(Stack, Top(k))
    BY <1>4 DEF ExistsBijection
  <2> HIDE DEF Stack
  <2> QED
    BY <1>5, <2>1, FS_Bijection
<1> QED
  BY <1>3, <1>5, <1>6

(* The instance counts as this module does.                                *)
LEMMA SameCardinality == \A S : Ownership!Cardinality(S) = Cardinality(S)
  BY DEF Ownership!Cardinality, Cardinality

(* A synchronous run of allocate is one step of the abstract allocator.    *)
LEMMA AllocateIsTake ==
  ASSUME PoolInv, NEW c \in Callers, NEW n \in Nat, Allocate(c, n)
  PROVE  Ownership!Take(c, n)
<1>1. TypeOK /\ PoolIntegrity /\ count \in Nat /\ BuffersCount \in Nat
      /\ ids \in [Ids -> Ids] /\ count <= BuffersCount
  BY BuffersAssumption DEF PoolInv, TypeOK
<1>2. ASSUME NEW k \in 0..count, Pop(c, k)
      PROVE  /\ Free' = Free \ Top(k)
             /\ held' = [held EXCEPT ![c] = @ \cup Top(k)]
  <2>1. ids' = ids /\ count' = count - k
        /\ held' = [held EXCEPT ![c] = @ \cup Top(k)]
    BY <1>2 DEF Pop, Top
  <2>2. 0..(count - 1) = 0..(count' - 1) \cup ((count - k)..(count - 1))
    BY <1>1, <2>1
  <2>3. Free = Free' \cup Top(k)
    BY <2>1, <2>2 DEF Free, Top
  <2>4. Free' \cap Top(k) = {}
    <3>1. \A i \in 0..(count' - 1), j \in (count - k)..(count - 1) :
            i \in 0..(count - 1) /\ j \in 0..(count - 1) /\ i # j
      BY <1>1, <2>1
    <3> QED
      BY <1>1, <2>1, <3>1 DEF Free, Top, PoolIntegrity, StackHasNoDuplicate
  <2> QED
    BY <2>1, <2>3, <2>4
<1>3. CASE n <= count /\ Pop(c, n) /\ need' = [need EXCEPT ![c] = 0]
  <2>1. n \in 0..count
    BY <1>1, <1>3
  <2>2. Top(n) \in SUBSET Free /\ Cardinality(Top(n)) = n
    BY <1>1, <2>1, PopTakes
  <2>3. n - Cardinality(Top(n)) = 0
    BY <2>2
  <2> QED
    BY <1>2, <1>3, <2>1, <2>2, <2>3, SameCardinality DEF Ownership!Take
<1>4. CASE n > count /\ Pop(c, count) /\ need' = [need EXCEPT ![c] = n - count]
  <2>1. count \in 0..count
    BY <1>1
  <2>2. Cardinality(Top(count)) = count
    BY <1>1, <2>1, PopTakes
  <2>3. Top(count) = Free
    BY <1>1 DEF Top, Free
  <2>4. Cardinality(Free) < n
    BY <1>1, <1>4, <2>2, <2>3
  <2> QED
    BY <1>2, <1>4, <2>1, <2>2, <2>3, <2>4, SameCardinality DEF Ownership!Take
<1> QED
  BY <1>3, <1>4 DEF Allocate

LEMMA ReleaseIsReturn ==
  ASSUME PoolInv, NEW c \in Callers, Release(c)
  PROVE  Ownership!Return(c)
<1>1. PICK b \in held[c] : Push(b) /\ held' = [held EXCEPT ![c] = @ \ {b}]
  BY DEF Release
<1>2. need[c] = 0 /\ need' = need
  BY DEF Release
<1>3. count < BuffersCount
  BY RoomForHeld DEF PoolInv
<1>4. /\ count \in Nat /\ BuffersCount \in Nat /\ ids \in [Ids -> Ids]
  BY BuffersAssumption DEF PoolInv, TypeOK
<1>5. ids'[count] = b /\ \A i \in 0..(count - 1) : ids'[i] = ids[i]
  BY <1>1, <1>3, <1>4 DEF Push, Ids
<1>6. 0..(count' - 1) = 0..(count - 1) \cup {count}
  BY <1>1, <1>4 DEF Push
<1>7. Free' = Free \cup {b}
  BY <1>5, <1>6 DEF Free
<1> QED
  BY <1>1, <1>2, <1>7 DEF Ownership!Return

LEMMA StepIsOwnershipStep ==
  ASSUME PoolInv, ParkedOnce, [Next]_vars
  PROVE  [Ownership!OwnershipNext]_(Ownership!ownershipVars)
<1>1. ASSUME NEW c \in Callers, Request(c) PROVE Ownership!Ask(c)
  <2>1. need[c] = 0 /\ held[c] = {}
    BY <1>1 DEF Request
  <2>2. PICK n \in Sizes[c] : Allocate(c, n)
    BY <1>1 DEF Request
  <2>3. n \in Nat
    BY BuffersAssumption
  <2>4. Ownership!Take(c, n)
    BY <2>2, <2>3, AllocateIsTake
  <2> QED
    BY <2>1, <2>4 DEF Ownership!Ask
<1>2. ASSUME Resume PROVE \E c \in Callers : Ownership!Continue(c)
  <2> DEFINE c == Head(woken)
  <2>1. woken \in Seq(Callers) /\ woken # <<>> /\ Allocate(c, need[c])
    BY <1>2 DEF Resume, PoolInv, TypeOK
  <2>2. c \in Callers /\ c = woken[1] /\ 1 \in 1..Len(woken)
    BY <2>1, HeadTailProperties, EmptySeq
  <2>3. c \in Parked(woken)
    BY <2>2 DEF Parked
  <2>4. need[c] > 0 /\ need[c] \in Nat
    BY <2>2, <2>3 DEF ParkedOnce, Waiting, PoolInv, TypeOK
  <2>5. Ownership!Take(c, need[c])
    BY <2>1, <2>2, <2>4, AllocateIsTake
  <2> QED
    BY <2>2, <2>4, <2>5 DEF Ownership!Continue
<1>3. ASSUME NEW c \in Callers, Release(c) PROVE Ownership!Return(c)
  BY <1>3, ReleaseIsReturn
<1>4. CASE UNCHANGED vars
  BY <1>4 DEF vars, Ownership!ownershipVars, Free
<1> QED
  BY <1>1, <1>2, <1>3, <1>4 DEF Next, Ownership!OwnershipNext

\* The pool implements the abstract allocator: the stack, the completers and
\* the microtasks change which buffer is taken and when, never who owns what.
THEOREM PoolImplementsOwnership == Spec => OwnershipSpec
<1>1. Init => Ownership!OwnershipInit
  <2> SUFFICES ASSUME Init PROVE Ownership!OwnershipInit
    OBVIOUS
  <2>1. /\ ids = [i \in Ids |-> i] /\ count = BuffersCount
        /\ need = [c \in Callers |-> 0] /\ held = [c \in Callers |-> {}]
    BY DEF Init
  <2>2. Free = 0..(BuffersCount - 1)
    BY <2>1 DEF Free, Ids
  <2> QED
    BY <2>1, <2>2 DEF Ownership!OwnershipInit, Ownership!Ids
<1>2. PoolInv /\ ParkedOnce /\ [Next]_vars
        => [Ownership!OwnershipNext]_(Ownership!ownershipVars)
  BY StepIsOwnershipStep
<1> QED
  BY <1>1, <1>2, PoolInvariant, EveryWaiterIsParkedOnce, PTL
  DEF Spec, OwnershipSpec, Ownership!OwnershipSpec
=============================================================================
