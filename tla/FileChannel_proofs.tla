-------------------------- MODULE FileChannel_proofs --------------------------
(***************************************************************************)
(* Proofs about a file and load() (module FileChannel), for every size of  *)
(* the file, of the buffers, of the pool and of the rounds.                *)
(*                                                                         *)
(* FileInv is inductive: where the buffers are, and what may follow what   *)
(* on the way from the kernel through the completion queue to the listener *)
(* (only full reads precede a payload).  ContentInv adds the offsets, as   *)
(* long as no read begins beyond OffsetLimit.                              *)
(***************************************************************************)
EXTENDS FileChannel, FiniteSetTheorems, SequenceTheorems, TLAPS

Result == [what : Results \cup {"write"}, bytes : Seq(Nat)]
Chain == [at : Nat, left : 1..PoolSize, broken : BOOLEAN]

IsRead(r) == r.what # "write"
IsData(r) == r.what = "data"
Full(r) == IsData(r) /\ Len(r.bytes) = BufferSize

\* The completions of reads among the first n of s.
Reads(s, n) == Cardinality({j \in 1..n : IsRead(s[j])})
AllReads == Reads(cq, Len(cq))

Reading == load.state = "reading"

-----------------------------------------------------------------------------
FileTypes ==
  /\ TypeOK
  /\ cq \in Seq(Result) /\ events \in Seq(Result)
  /\ \A i \in 1..Len(cq) : Len(cq[i].bytes) <= BufferSize
  /\ \A i \in 1..Len(events) : Len(events[i].bytes) <= BufferSize
  /\ chains \subseteq Chain
  /\ load.single => load.blocks = 1
  /\ ch.phase = "open" => ch.active
  /\ ch.forced => ~ch.active

\* Between two rounds the kernel has no read.
RestInv ==
  /\ load.state \in {"idle", "stat", "waiting"} =>
       chains = {} /\ (\A i \in 1..Len(cq) : ~IsRead(cq[i])) /\ load.counter = 0
  /\ load.state \in {"idle", "stat"} => Seen(load) = 0
  /\ ~Reading => events = <<>>

\* Within a round the parts of its blocks: delivered, in the stream, completed,
\* under way.
RoundInv ==
  Reading =>
    /\ load.counter + Len(events) + AllReads <= load.blocks
    /\ \A c \in chains : load.counter + Len(events) + AllReads + c.left <= load.blocks

\* A payload comes only after full ones.
OrderInv ==
  Reading =>
    /\ \A i \in 1..Len(events) : IsData(events[i]) =>
         \A j \in 1..(i - 1) : Full(events[j])
    /\ \A i \in 1..Len(cq) : IsData(cq[i]) =>
         /\ \A j \in 1..(i - 1) : IsRead(cq[j]) => Full(cq[j])
         /\ \A j \in 1..Len(events) : Full(events[j])
    /\ \A c \in chains : ~c.broken =>
         /\ \A j \in 1..Len(cq) : IsRead(cq[j]) => Full(cq[j])
         /\ \A j \in 1..Len(events) : Full(events[j])

MoreData ==
  \/ \E i \in 1..Len(events) : IsData(events[i])
  \/ \E i \in 1..Len(cq) : IsData(cq[i])
  \/ \E c \in chains : ~c.broken

\* Only the first round asks for more than is left of the file.
Fits(l) ==
  \/ Seen(l) = l.counter * BufferSize
  \/ l.blocks = 1
  \/ Seen(l) + (l.blocks - l.counter) * BufferSize <= l.stat

FitsInv ==
  /\ load.state = "waiting" => Fits(load)
  /\ Reading /\ MoreData => Fits(load)

\* The exceptions of BuffersComeBack.
Kept ==
  \/ \E w \in Writes : write[w] = "refused"
  \/ load.state = "failed" /\ Closing
  \/ ReadsPastTheEnd

\* When the load has ended no payload comes any more.
EndedInv ==
  load.state \in {"done", "failed"} /\ ch.active /\ ~Kept =>
    /\ \A i \in 1..Len(cq) : ~IsData(cq[i])
    /\ \A c \in chains : c.broken

\* The stream holds d payloads, followed by errors; with those of the requests
\* under way and those in the pool they are all buffers.
Holds(d) ==
  /\ \A i \in 1..Len(events) : IsData(events[i]) <=> i <= d
  /\ free + ch.pending + d <= PoolSize
  /\ ~Kept => free + ch.pending + d = PoolSize

HeldInv == \E d \in 0..Len(events) : Holds(d)

FileInv == /\ FileTypes /\ RestInv /\ RoundInv /\ OrderInv /\ FitsInv
           /\ EndedInv /\ HeldInv

-----------------------------------------------------------------------------
(* Offsets.                                                                *)

\* No read begins beyond what transport_worker_read can say.
WithinLimit == \A c \in chains : c.at < OffsetLimit

\* Where the next payload of the listener begins, and the n-th after it.
Position(n) == load.offset + Seen(load) + n * BufferSize

\* A result that continues at a position: its bytes, and if it is short the
\* file had ended.
Continues(r, from) ==
  /\ \A k \in 1..Len(r.bytes) : r.bytes[k] = from + k
  /\ Len(r.bytes) < BufferSize => from + Len(r.bytes) >= load.stat

\* A result after which nothing but cancellations may come.
Ending(r) == r.what = "error" \/ (IsData(r) /\ ~Full(r))

Reached == load.offset + Seen(load) >= load.stat

StreamInv ==
  Reading =>
    \A i \in 1..Len(events) :
      /\ IsData(events[i]) => Continues(events[i], Position(i - 1))
      /\ events[i].what = "canceled" =>
           Reached \/ \E j \in 1..(i - 1) : Ending(events[j])

QueueInv ==
  Reading /\ ch.active =>
    /\ \A i \in 1..Len(cq) :
         /\ IsData(cq[i]) => Continues(cq[i], Position(Len(events) + Reads(cq, i - 1)))
         /\ cq[i].what = "canceled" =>
              \/ Reached \/ \E j \in 1..Len(events) : Ending(events[j])
              \/ \E j \in 1..(i - 1) : Ending(cq[j])
    /\ \A c \in chains :
         IF c.broken
         THEN \/ Reached \/ \E j \in 1..Len(events) : Ending(events[j])
              \/ \E j \in 1..Len(cq) : Ending(cq[j])
         ELSE c.at = Position(Len(events) + AllReads)

ContentInv ==
  /\ LoadReturnsFile
  /\ load.state # "idle" => load.stat <= size
  /\ StreamInv /\ QueueInv

-----------------------------------------------------------------------------
(* How many completions of reads there are.                                *)

LEMMA ReadsType ==
  ASSUME NEW s, NEW n \in Nat
  PROVE  /\ IsFiniteSet({j \in 1..n : IsRead(s[j])})
         /\ Reads(s, n) \in Nat
<1>1. IsFiniteSet(1..n)
  BY FS_Interval
<1>2. IsFiniteSet({j \in 1..n : IsRead(s[j])})
  BY <1>1, FS_Subset
<1> QED
  BY <1>2, FS_CardinalityType DEF Reads

\* Without reads the count is zero, and the converse.
LEMMA NoReads ==
  ASSUME NEW s, NEW n \in Nat
  PROVE  Reads(s, n) = 0 <=> \A j \in 1..n : ~IsRead(s[j])
<1> DEFINE R == {j \in 1..n : IsRead(s[j])}
<1>1. IsFiniteSet(R) /\ Reads(s, n) = Cardinality(R)
  BY ReadsType DEF Reads
<1>2. R = {} <=> \A j \in 1..n : ~IsRead(s[j])
  OBVIOUS
<1> QED
  BY <1>1, <1>2, FS_EmptySet

LEMMA OneMoreRead ==
  ASSUME NEW s, NEW n \in Nat
  PROVE  Reads(s, n + 1) = Reads(s, n) + IF IsRead(s[n + 1]) THEN 1 ELSE 0
<1> DEFINE R == {j \in 1..n : IsRead(s[j])}
           T == {j \in 1..(n + 1) : IsRead(s[j])}
<1>1. IsFiniteSet(R) /\ Reads(s, n) = Cardinality(R) /\ Reads(s, n + 1) = Cardinality(T)
  BY ReadsType DEF Reads
<1>2. n + 1 \notin R /\ Cardinality(R) \in Nat
  BY <1>1, ReadsType
<1>3. 1..(n + 1) = 1..n \cup {n + 1}
  OBVIOUS
<1>4. CASE IsRead(s[n + 1])
  <2>1. T = R \cup {n + 1}
    BY <1>3, <1>4
  <2> QED
    BY <1>1, <1>2, <1>4, <2>1, FS_AddElement
<1>5. CASE ~IsRead(s[n + 1])
  <2>1. T = R
    BY <1>3, <1>5
  <2> HIDE DEF R, T
  <2> QED
    BY <1>1, <1>2, <1>5, <2>1
<1> QED
  BY <1>4, <1>5

\* Sequences that agree have as many.
LEMMA SameReads ==
  ASSUME NEW s, NEW t, NEW n \in Nat, \A j \in 1..n : s[j] = t[j]
  PROVE  Reads(s, n) = Reads(t, n)
<1>1. {j \in 1..n : IsRead(s[j])} = {j \in 1..n : IsRead(t[j])}
  OBVIOUS
<1> QED
  BY <1>1 DEF Reads

LEMMA ReadsTail ==
  ASSUME NEW S, NEW s \in Seq(S), s # <<>>, NEW n \in Nat, n + 1 <= Len(s)
  PROVE  Reads(Tail(s), n) = Reads(s, n + 1) - IF IsRead(s[1]) THEN 1 ELSE 0
<1> DEFINE R == {j \in 1..n : IsRead(Tail(s)[j])}
           T == {j \in 1..(n + 1) : IsRead(s[j])}
           f == [j \in R |-> j + 1]
<1>1. \A j \in 1..n : Tail(s)[j] = s[j + 1]
  BY HeadTailProperties, LenProperties
<1>2. /\ IsFiniteSet(R) /\ Reads(Tail(s), n) = Cardinality(R)
      /\ IsFiniteSet(T) /\ Reads(s, n + 1) = Cardinality(T)
  <2>1. n + 1 \in Nat
    OBVIOUS
  <2>2. IsFiniteSet(R) /\ IsFiniteSet(T)
    BY <2>1, ReadsType
  <2> QED
    BY <2>2 DEF Reads
<1>3. f \in Injection(R, T \ {1})
  <2>1. \A j \in R : j + 1 \in T \ {1}
    BY <1>1
  <2> QED
    BY <2>1 DEF Injection, IsInjective
<1>4. f \in Surjection(R, T \ {1})
  <2>1. \A i \in T \ {1} : i - 1 \in R /\ f[i - 1] = i
    BY <1>1
  <2> QED
    BY <1>3, <2>1 DEF Surjection, Injection
<1>5. IsFiniteSet(T \ {1}) /\ Cardinality(T \ {1}) = IF 1 \in T THEN Cardinality(T) - 1 ELSE Cardinality(T)
  BY <1>2, FS_RemoveElement
<1>6. Cardinality(R) = Cardinality(T \ {1})
  <2> HIDE DEF f, R, T
  <2> QED
    BY <1>2, <1>3, <1>4, FS_Surjection
<1>7. 1 \in T <=> IsRead(s[1])
  OBVIOUS
<1>8. Cardinality(T) \in Nat
  BY <1>2, ReadsType
<1> HIDE DEF f, R, T
<1> QED
  BY <1>2, <1>5, <1>6, <1>7, <1>8

-----------------------------------------------------------------------------
(* The first state, and the steps that move nothing.                       *)

LEMMA FileInitial == Init => FileInv
<1> SUFFICES ASSUME Init PROVE FileInv
  OBVIOUS
<1>1. Len(cq) = 0 /\ Len(events) = 0 /\ Seen(load) = 0 /\ ~Reading /\ load.state = "idle"
  BY DEF Init, Seen, Reading
<1>2. cq = <<>> /\ events = <<>> /\ cq \in Seq(Result) /\ events \in Seq(Result)
  BY DEF Init
<1>3. FileTypes
  <2>1. /\ size \in Nat /\ free \in 0..PoolSize /\ writing \in Nat /\ batch \in 0..Len(cq)
        /\ write \in [Writes -> {"idle", "waiting", "issued", "refused"}]
    BY <1>1, FileAssumption DEF Init
  <2>2. /\ load.single => load.blocks = 1
        /\ load \in [state : {"idle", "stat", "waiting", "reading", "done", "failed"},
               stat : Nat, offset : Nat, single : BOOLEAN, blocks : 1..PoolSize,
               counter : 0..PoolSize, bytes : Seq(Nat)]
    <3>1. 1 \in 1..PoolSize /\ 0 \in 0..PoolSize /\ 0 \in Nat /\ <<>> \in Seq(Nat)
      BY FileAssumption
    <3> QED
      BY <3>1 DEF Init
  <2>3. ch \in [pending : Nat, active : BOOLEAN, closer : BOOLEAN, forced : BOOLEAN,
               phase : {"open", "grace", "awaitCloser", "draining", "closed"}]
    BY DEF Init
  <2>4. chains = {} /\ ch.pending = writing + Len(cq) /\ ch.active /\ ~ch.forced
    BY <1>1 DEF Init
  <2>5. TypeOK
    BY <1>1, <2>1, <2>2, <2>3, <2>4 DEF TypeOK
  <2> QED
    BY <1>1, <1>2, <2>2, <2>4, <2>5 DEF FileTypes
<1>4. chains = {} /\ load.counter = 0
  BY DEF Init
<1>5. HeldInv
  <2>1. free = PoolSize /\ ch.pending = 0
    BY DEF Init
  <2>2. Holds(0)
    BY <1>1, <2>1, FileAssumption DEF Holds
  <2> QED
    BY <1>1, <2>2 DEF HeldInv
<1> QED
  BY <1>1, <1>2, <1>3, <1>4, <1>5
  DEF FileInv, RestInv, RoundInv, OrderInv, FitsInv, EndedInv, Reading

\* What a step that only opens and closes does not disturb.
LEMMA Untouched ==
  ASSUME FileInv, TypeOK', UNCHANGED <<load, chains, cq, events, free>>,
         ch'.pending = ch.pending, ch'.active => ch.active,
         ch'.phase = "open" => ch.phase = "open" /\ ch'.active,
         ch'.forced => ~ch'.active,
         \A w \in Writes : write[w] = "refused" => write'[w] = "refused"
  PROVE  FileInv'
<1>1. Kept => Kept'
  BY DEF Kept, Closing, ReadsPastTheEnd
<1>2. FileTypes'
  BY DEF FileInv, FileTypes
<1>3. Seen(load)' = Seen(load) /\ Reading' = Reading /\ AllReads' = AllReads
      /\ Fits(load)' = Fits(load) /\ MoreData' = MoreData
  BY DEF Seen, Reading, AllReads, Reads, Fits, MoreData
<1>4. RestInv' /\ RoundInv' /\ OrderInv' /\ FitsInv'
  BY <1>3 DEF FileInv, RestInv, RoundInv, OrderInv, FitsInv
<1>5. EndedInv'
  BY <1>1 DEF FileInv, EndedInv
<1>6. ASSUME NEW d, Holds(d) PROVE Holds(d)'
  BY <1>1, <1>6 DEF Holds
<1>7. HeldInv'
  BY <1>6 DEF FileInv, HeldInv
<1> QED
  BY <1>2, <1>4, <1>5, <1>7 DEF FileInv

LEMMA QuietSteps ==
  ASSUME FileInv,
         \/ \E w \in Writes : CallWrite(w)
         \/ Peek \/ GraceTimeout \/ CloserCompleted \/ InboundDrained
         \/ \E gently \in BOOLEAN : CallClose(gently)
  PROVE  FileInv'
<1>1. TypeOK /\ (ch.forced => ~ch.active) /\ (ch.phase = "open" => ch.active)
  BY DEF FileInv, FileTypes
<1>2. CASE \E w \in Writes : CallWrite(w)
  <2>1. PICK w \in Writes : CallWrite(w)
    BY <1>2
  <2>2. TypeOK'
    BY <1>1, <2>1 DEF CallWrite, TypeOK
  <2> QED
    BY <1>1, <2>1, <2>2, Untouched DEF CallWrite, TypeOK
<1>3. CASE Peek
  <2>1. TypeOK'
    BY <1>1, <1>3, LenProperties DEF Peek, TypeOK
  <2> QED
    BY <1>1, <1>3, <2>1, Untouched DEF Peek
<1>4. ASSUME UNCHANGED <<size, free, write, load, chains, writing, cq, batch, events>>,
             ch' \in {Finishing(ch), Cancelling(ch), [ch EXCEPT !.phase = "closed"]}
                \/ ch' = [ch EXCEPT !.phase = "grace"]
      PROVE  FileInv'
  <2>1. ch \in [pending : Nat, active : BOOLEAN, closer : BOOLEAN, forced : BOOLEAN,
               phase : {"open", "grace", "awaitCloser", "draining", "closed"}]
    BY <1>1 DEF TypeOK
  <2>2. /\ ch' \in [pending : Nat, active : BOOLEAN, closer : BOOLEAN, forced : BOOLEAN,
               phase : {"open", "grace", "awaitCloser", "draining", "closed"}]
        /\ ch'.pending = ch.pending /\ ch'.phase # "open"
        /\ ch'.active => ch.active
        /\ ch'.forced => ~ch'.active
    BY <1>1, <1>4, <2>1 DEF Finishing, Cancelling
  <2>3. TypeOK'
    BY <1>1, <1>4, <2>2 DEF TypeOK
  <2> QED
    BY <1>4, <2>2, <2>3, Untouched
<1>5. CASE GraceTimeout \/ CloserCompleted \/ InboundDrained
           \/ \E gently \in BOOLEAN : CallClose(gently)
  BY <1>4, <1>5 DEF GraceTimeout, CloserCompleted, InboundDrained, CallClose
<1> QED
  BY <1>2, <1>3, <1>5

\* The types, one by one.
LEMMA FileFacts ==
  ASSUME FileInv
  PROVE  /\ TypeOK /\ RestInv /\ RoundInv /\ OrderInv /\ FitsInv /\ EndedInv /\ HeldInv
         /\ size \in Nat /\ free \in Nat /\ free <= PoolSize /\ writing \in Nat
         /\ load.state \in {"idle", "stat", "waiting", "reading", "done", "failed"}
         /\ load.stat \in Nat /\ load.offset \in Nat /\ load.single \in BOOLEAN
         /\ load.blocks \in Nat /\ load.blocks >= 1 /\ load.blocks <= PoolSize
         /\ load.counter \in Nat /\ load.bytes \in Seq(Nat) /\ Seen(load) \in Nat
         /\ load.single => load.blocks = 1
         /\ cq \in Seq(Result) /\ events \in Seq(Result)
         /\ Len(cq) \in Nat /\ Len(events) \in Nat
         /\ ch.pending \in Nat
         /\ \A a, b \in chains : a = b
         /\ \A c \in chains : /\ c.at \in Nat /\ c.left \in Nat /\ c.left >= 1
                              /\ ch.pending = c.left + writing + Len(cq)
         /\ chains = {} => ch.pending = writing + Len(cq)
         /\ AllReads \in Nat
         /\ PoolSize \in Nat /\ BufferSize \in Nat /\ BufferSize > 0
<1>1. FileTypes /\ TypeOK
  BY DEF FileInv, FileTypes
<1>2. PoolSize \in Nat /\ BufferSize \in Nat /\ BufferSize > 0
  BY FileAssumption
<1>3. cq \in Seq(Result) /\ events \in Seq(Result) /\ Len(cq) \in Nat /\ Len(events) \in Nat
  BY <1>1, LenProperties DEF FileTypes
<1>4. /\ load.state \in {"idle", "stat", "waiting", "reading", "done", "failed"}
      /\ load.stat \in Nat /\ load.offset \in Nat /\ load.single \in BOOLEAN
      /\ load.blocks \in 1..PoolSize
      /\ load.counter \in 0..PoolSize /\ load.bytes \in Seq(Nat)
  BY <1>1 DEF TypeOK
<1>5. Seen(load) \in Nat
  BY <1>4, LenProperties DEF Seen
<1>6. AllReads \in Nat
  BY <1>3, ReadsType DEF AllReads
<1>7. \A c \in chains : c.at \in Nat /\ c.left \in 1..PoolSize
  BY <1>1 DEF FileTypes, Chain
<1>8. /\ \A a, b \in chains : a = b
      /\ \A c \in chains : ch.pending = c.left + writing + Len(cq)
      /\ chains = {} => ch.pending = writing + Len(cq)
      /\ ch.pending \in Nat /\ size \in Nat /\ free \in 0..PoolSize /\ writing \in Nat
  BY <1>1 DEF TypeOK
<1>9. load.single => load.blocks = 1
  BY <1>1 DEF FileTypes
<1> QED
  BY <1>1, <1>2, <1>3, <1>4, <1>5, <1>6, <1>7, <1>8, <1>9 DEF FileInv

\* A write that goes on takes a buffer, for a request or for ever.
LEMMA WriteContinuesKeeps ==
  ASSUME FileInv, NEW w \in Writes, WriteContinues(w)
  PROVE  FileInv'
<1>1. /\ TypeOK /\ free \in Nat /\ free > 0 /\ writing \in Nat /\ ch.pending \in Nat
      /\ Len(cq) \in Nat /\ PoolSize \in Nat /\ free <= PoolSize
      /\ \A c \in chains : c.left \in Nat
      /\ UNCHANGED <<size, load, chains, cq, batch, events>> /\ free' = free - 1
  BY FileFacts DEF WriteContinues
<1>2. /\ ch \in [pending : Nat, active : BOOLEAN, closer : BOOLEAN, forced : BOOLEAN,
               phase : {"open", "grace", "awaitCloser", "draining", "closed"}]
      /\ write \in [Writes -> {"idle", "waiting", "issued", "refused"}]
      /\ write[w] = "waiting"
  BY <1>1 DEF TypeOK, WriteContinues
<1>3. Seen(load)' = Seen(load) /\ Reading' = Reading /\ AllReads' = AllReads
      /\ Fits(load)' = Fits(load) /\ MoreData' = MoreData
  BY <1>1 DEF Seen, Reading, AllReads, Reads, Fits, MoreData
<1>4. RestInv' /\ RoundInv' /\ OrderInv' /\ FitsInv'
  BY <1>1, <1>3 DEF FileInv, RestInv, RoundInv, OrderInv, FitsInv
<1>5. PICK d \in 0..Len(events) : Holds(d)
  BY DEF FileInv, HeldInv
<1>6. CASE Closing
  <2>1. /\ write' = [write EXCEPT ![w] = "refused"] /\ writing' = writing /\ ch' = ch
        /\ write'[w] = "refused"
    BY <1>2, <1>6 DEF WriteContinues
  <2>2. Kept'
    BY <2>1 DEF Kept
  <2>3. TypeOK'
    <3>1. write' \in [Writes -> {"idle", "waiting", "issued", "refused"}]
      BY <1>2, <2>1
    <3>2. free' \in 0..PoolSize
      BY <1>1
    <3>3. TypeOK /\ UNCHANGED <<size, load, chains, writing, cq, batch, events, ch>>
      BY <1>1, <2>1
    <3> QED
      BY <3>1, <3>2, <3>3 DEF TypeOK
  <2>4. FileTypes'
    BY <1>1, <2>1, <2>3 DEF FileInv, FileTypes
  <2>5. Holds(d)'
    BY <1>1, <1>5, <2>1, <2>2 DEF Holds
  <2> QED
    BY <1>1, <1>4, <2>2, <2>4, <2>5 DEF FileInv, HeldInv, EndedInv
<1>7. CASE ~Closing
  <2>1. /\ write' = [write EXCEPT ![w] = "issued"] /\ writing' = writing + 1
        /\ ch' = [ch EXCEPT !.pending = ch.pending + 1]
    BY <1>7 DEF WriteContinues
  <2>2. /\ ch'.pending = ch.pending + 1 /\ ch'.active = ch.active /\ ch'.phase = ch.phase
        /\ ch'.forced = ch.forced
        /\ ch' \in [pending : Nat, active : BOOLEAN, closer : BOOLEAN, forced : BOOLEAN,
               phase : {"open", "grace", "awaitCloser", "draining", "closed"}]
    <3>1. ch.pending + 1 \in Nat
      BY <1>1
    <3>2. ch' = [ch EXCEPT !.pending = ch.pending + 1]
      BY <2>1
    <3> QED
      BY <1>2, <3>1, <3>2
  <2>3. Kept => Kept'
    BY <1>1, <1>2, <2>1, <2>2 DEF Kept, Closing, ReadsPastTheEnd
  <2>4. TypeOK'
    <3>1. \A c \in chains : ch'.pending = c.left + writing' + Len(cq)
      <4>1. /\ ch.pending \in Nat /\ writing \in Nat /\ Len(cq) \in Nat
            /\ \A c \in chains : c.left \in Nat /\ ch.pending = c.left + writing + Len(cq)
        BY FileFacts
      <4>2. ch'.pending = ch.pending + 1 /\ writing' = writing + 1
        BY <2>1, <2>2
      <4>3. ASSUME NEW c \in chains PROVE ch'.pending = c.left + writing' + Len(cq)
        <5>1. c.left \in Nat /\ ch.pending = c.left + writing + Len(cq)
          BY <4>1
        <5> DEFINE n == c.left
        <5>2. c.left + (writing + 1) + Len(cq) = (c.left + writing + Len(cq)) + 1
          <6>1. n \in Nat /\ writing \in Nat /\ Len(cq) \in Nat
            BY <4>1, <5>1
          <6> HIDE DEF n
          <6>2. n + (writing + 1) + Len(cq) = (n + writing + Len(cq)) + 1
            BY <6>1
          <6> QED
            BY <6>2 DEF n
        <5>3. c.left + writing' + Len(cq) = c.left + (writing + 1) + Len(cq)
          BY <4>2
        <5>4. ch'.pending = (c.left + writing + Len(cq)) + 1
          BY <4>2, <5>1
        <5> QED
          BY <5>2, <5>3, <5>4
      <4> QED
        BY <4>3
    <3>2. chains = {} => ch'.pending = writing' + Len(cq)
      <4>1. chains = {} => ch.pending = writing + Len(cq)
        BY FileFacts
      <4> QED
        BY <1>1, <2>1, <2>2, <4>1
    <3>3. /\ write' \in [Writes -> {"idle", "waiting", "issued", "refused"}]
          /\ free' \in 0..PoolSize /\ writing' \in Nat
      BY <1>1, <1>2, <2>1
    <3> HIDE DEF Results
    <3> QED
      BY <1>1, <2>2, <3>1, <3>2, <3>3 DEF TypeOK
  <2>5. FileTypes'
    BY <1>1, <2>2, <2>4 DEF FileInv, FileTypes
  <2>6. Holds(d)'
    BY <1>1, <1>5, <2>2, <2>3 DEF Holds
  <2>7. EndedInv'
    BY <1>1, <2>2, <2>3 DEF FileInv, EndedInv
  <2> QED
    BY <1>1, <1>4, <2>5, <2>6, <2>7 DEF FileInv, HeldInv
<1> QED
  BY <1>6, <1>7

\* load() takes its arguments, then listens.
LEMMA LoadBeginsKeeps ==
  ASSUME FileInv,
         \/ \E blocks \in Blocks, offset \in Offsets : CallLoad(blocks, offset)
         \/ LoadFile
  PROVE  FileInv'
<1>1. /\ TypeOK /\ RestInv
      /\ UNCHANGED <<size, free, write, chains, writing, cq, batch, events, ch>>
      /\ load.state \in {"idle", "stat"} /\ load.counter = 0 /\ Seen(load) = 0
      /\ chains = {} /\ events = <<>> /\ Len(events) = 0
      /\ BufferSize \in Nat /\ size \in Nat
  BY FileFacts DEF RestInv, CallLoad, LoadFile, Reading
<1>2. /\ load'.state \in {"stat", "waiting"} /\ load'.bytes = load.bytes
      /\ load'.counter = 0
      /\ load'.single => load'.blocks = 1
      /\ load' \in [state : {"idle", "stat", "waiting", "reading", "done", "failed"},
               stat : Nat, offset : Nat, single : BOOLEAN, blocks : 1..PoolSize,
               counter : 0..PoolSize, bytes : Seq(Nat)]
  <2>1. load \in [state : {"idle", "stat", "waiting", "reading", "done", "failed"},
               stat : Nat, offset : Nat, single : BOOLEAN, blocks : 1..PoolSize,
               counter : 0..PoolSize, bytes : Seq(Nat)]
        /\ (load.single => load.blocks = 1)
    BY DEF FileInv, FileTypes, TypeOK
  <2>2. CASE \E blocks \in Blocks, offset \in Offsets : CallLoad(blocks, offset)
    <3>1. PICK blocks \in Blocks, offset \in Offsets : CallLoad(blocks, offset)
      BY <2>2
    <3>2. blocks \in 1..PoolSize /\ offset \in Nat /\ (blocks = 1) \in BOOLEAN
      BY FileAssumption
    <3> QED
      BY <1>1, <2>1, <3>1, <3>2 DEF CallLoad
  <2>3. CASE LoadFile
    BY <1>1, <2>1, <2>3 DEF LoadFile
  <2> QED
    BY <2>2, <2>3
<1>3. FileTypes'
  BY <1>1, <1>2 DEF FileInv, FileTypes, TypeOK
<1>4. RestInv' /\ RoundInv' /\ OrderInv' /\ EndedInv'
  BY <1>1, <1>2 DEF RestInv, RoundInv, OrderInv, EndedInv, Reading, Seen
<1>5. FitsInv'
  <2>1. Seen(load') = 0 /\ load'.counter * BufferSize = 0
    BY <1>1, <1>2 DEF Seen
  <2> QED
    BY <1>1, <1>2, <2>1 DEF FitsInv, Fits, Reading
<1>6. HeldInv'
  <2>1. PICK d \in 0..Len(events) : Holds(d)
    BY DEF FileInv, HeldInv
  <2>2. Kept => Kept'
    BY <1>1, <1>2 DEF Kept, Closing, ReadsPastTheEnd
  <2>3. Holds(d)'
    BY <1>1, <2>1, <2>2 DEF Holds
  <2> QED
    BY <1>1, <2>1, <2>3 DEF HeldInv
<1> QED
  BY <1>3, <1>4, <1>5, <1>6 DEF FileInv

\* The fields of the call and of the channel keep their types.
LoadFields ==
  [state : {"idle", "stat", "waiting", "reading", "done", "failed"},
   stat : Nat, offset : Nat, single : BOOLEAN, blocks : 1..PoolSize,
   counter : 0..PoolSize, bytes : Seq(Nat)]

ChannelFields ==
  [pending : Nat, active : BOOLEAN, closer : BOOLEAN, forced : BOOLEAN,
   phase : {"open", "grace", "awaitCloser", "draining", "closed"}]

LEMMA FieldTypes ==
  ASSUME FileInv
  PROVE  /\ load \in LoadFields /\ ch \in ChannelFields
         /\ chains \subseteq Chain
         /\ \A i \in 1..Len(cq) : cq[i] \in Result /\ Len(cq[i].bytes) <= BufferSize
         /\ \A i \in 1..Len(events) :
              events[i] \in Result /\ Len(events[i].bytes) <= BufferSize
         /\ \A i \in 1..Len(events) : events[i].what \in Results
         /\ batch \in 0..Len(cq)
         /\ ch.phase = "open" => ch.active
         /\ ch.forced => ~ch.active
<1>1. FileTypes /\ TypeOK
  BY DEF FileInv, FileTypes
<1>2. /\ \A i \in 1..Len(cq) : cq[i] \in Result
      /\ \A i \in 1..Len(events) : events[i] \in Result
  BY <1>1, ElementOfSeq DEF FileTypes
<1> QED
  BY <1>1, <1>2 DEF FileTypes, TypeOK, LoadFields, ChannelFields

\* What has to be shown of the types after a step.
LEMMA TypesFrom ==
  ASSUME FileInv,
         size' \in Nat, free' \in Nat, free' <= PoolSize, writing' \in Nat,
         write' \in [Writes -> {"idle", "waiting", "issued", "refused"}],
         load' \in LoadFields, load'.single => load'.blocks = 1,
         ch' \in ChannelFields,
         ch'.phase = "open" => ch'.active, ch'.forced => ~ch'.active,
         cq' \in Seq(Result), events' \in Seq(Result),
         \A i \in 1..Len(cq') : Len(cq'[i].bytes) <= BufferSize,
         \A i \in 1..Len(events') : /\ Len(events'[i].bytes) <= BufferSize
                                    /\ events'[i].what \in Results,
         batch' \in 0..Len(cq'),
         chains' \subseteq Chain,
         \A a, b \in chains' : a = b,
         \A c \in chains' : ch'.pending = c.left + writing' + Len(cq'),
         chains' = {} => ch'.pending = writing' + Len(cq')
  PROVE  FileTypes'
<1>1. \A i \in 1..Len(cq') : cq'[i] \in Result
  BY ElementOfSeq
<1>2. \A i \in 1..Len(cq') : cq'[i].what \in Results \cup {"write"}
  BY <1>1 DEF Result
<1>3. free' \in 0..PoolSize
  BY FileAssumption
<1>4. TypeOK'
  <2> HIDE DEF Results
  <2>1. load' \in [state : {"idle", "stat", "waiting", "reading", "done", "failed"},
                  stat : Nat, offset : Nat, single : BOOLEAN, blocks : 1..PoolSize,
                  counter : 0..PoolSize, bytes : Seq(Nat)]
    BY DEF LoadFields
  <2>2. ch' \in [pending : Nat, active : BOOLEAN, closer : BOOLEAN, forced : BOOLEAN,
                phase : {"open", "grace", "awaitCloser", "draining", "closed"}]
    BY DEF ChannelFields
  <2>3. \A i \in 1..Len(events') : events'[i].what \in Results
    OBVIOUS
  <2> QED
    BY <1>2, <1>3, <2>1, <2>2, <2>3 DEF TypeOK
<1> QED
  BY <1>4 DEF FileTypes

\* A round takes its buffers and goes to the kernel, or the close keeps them.
LEMMA LoadContinuesKeeps ==
  ASSUME FileInv, LoadContinues
  PROVE  FileInv'
<1>1. /\ load.state = "waiting" /\ free >= load.blocks /\ free' = free - load.blocks
      /\ UNCHANGED <<size, write, writing, cq, batch>>
      /\ size \in Nat /\ writing \in Nat /\ free \in Nat /\ free <= PoolSize
      /\ load.blocks \in Nat /\ load.blocks >= 1 /\ load.blocks <= PoolSize
      /\ ch.pending \in Nat /\ Len(cq) \in Nat /\ PoolSize \in Nat
      /\ cq \in Seq(Result) /\ events \in Seq(Result)
      /\ load.single => load.blocks = 1
      /\ RestInv /\ FitsInv /\ EndedInv
  BY FileFacts DEF LoadContinues
<1>2. /\ chains = {} /\ events = <<>> /\ Len(events) = 0 /\ load.counter = 0
      /\ \A i \in 1..Len(cq) : ~IsRead(cq[i])
      /\ Fits(load)
  BY <1>1 DEF RestInv, FitsInv, Reading
<1>3. ch.pending = writing + Len(cq)
  BY <1>2, FileFacts
<1>4. PICK d \in 0..Len(events) : Holds(d)
  BY DEF FileInv, HeldInv
<1>5. d = 0 /\ free + ch.pending <= PoolSize /\ (~Kept => free + ch.pending = PoolSize)
  BY <1>1, <1>2, <1>4 DEF Holds
<1>6. /\ write \in [Writes -> {"idle", "waiting", "issued", "refused"}]
      /\ free' \in Nat /\ free' <= PoolSize
  <2>1. write \in [Writes -> {"idle", "waiting", "issued", "refused"}]
    BY FileFacts DEF TypeOK
  <2> DEFINE n == load.blocks
  <2>2. free' = free - n /\ free >= n /\ n \in Nat /\ free \in Nat /\ free <= PoolSize
        /\ PoolSize \in Nat
    BY <1>1
  <2> HIDE DEF n
  <2>3. free' \in Nat /\ free' <= PoolSize
    BY <2>2
  <2> QED
    BY <2>1, <2>3
<1>7. CASE Closing
  <2>1. /\ load' = [load EXCEPT !.state = "failed"] /\ events' = <<>>
        /\ UNCHANGED <<chains, ch>>
    BY <1>7 DEF LoadContinues
  <2>2. /\ load' \in LoadFields /\ load'.state = "failed" /\ load'.single = load.single
        /\ load'.blocks = load.blocks
    BY <2>1, FieldTypes DEF LoadFields
  <2>3. FileTypes'
    BY <1>1, <1>2, <1>3, <1>6, <2>1, <2>2, FieldTypes, TypesFrom
  <2>4. Kept'
    BY <1>7, <2>1, <2>2 DEF Kept, Closing
  <2>5. HeldInv'
    <3>1. Len(events') = 0
      BY <2>1
    <3>2. Holds(0)'
      BY <1>1, <1>5, <2>1, <2>4, <3>1 DEF Holds
    <3> QED
      BY <3>1, <3>2 DEF HeldInv
  <2> QED
    BY <2>1, <2>2, <2>3, <2>4, <2>5
    DEF FileInv, RestInv, RoundInv, OrderInv, FitsInv, EndedInv, Reading
<1>8. CASE ~Closing
  <2> DEFINE c == [at |-> NextOffset(load), left |-> load.blocks, broken |-> FALSE]
  <2>1. /\ load' = [load EXCEPT !.state = "reading"] /\ events' = events
        /\ chains' = {c} /\ ch' = [ch EXCEPT !.pending = ch.pending + load.blocks]
    <3>1. /\ load' = [load EXCEPT !.state = "reading"] /\ events' = events
          /\ IssueReads
      BY <1>8 DEF LoadContinues
    <3>2. chains' = chains \cup {c} /\ ch' = [ch EXCEPT !.pending = ch.pending + load.blocks]
      BY <3>1 DEF IssueReads
    <3> HIDE DEF c
    <3>3. chains' = {c}
      BY <1>2, <3>2
    <3> QED
      BY <3>1, <3>2, <3>3
  <2>2. c \in Chain /\ c.left = load.blocks
    <3>1. NextOffset(load) \in Nat
      <4> DEFINE o == load.offset
                 n == Seen(load)
      <4>1. o \in Nat /\ n \in Nat
        BY FileFacts
      <4> HIDE DEF o, n
      <4>2. o + n \in Nat
        BY <4>1
      <4> QED
        BY <4>2 DEF NextOffset, o, n
    <3> QED
      BY <1>1, <3>1 DEF Chain
  <2> HIDE DEF c
  <2>3. /\ load' \in LoadFields /\ load'.state = "reading" /\ load'.counter = load.counter
        /\ load'.blocks = load.blocks /\ load'.single = load.single
        /\ load'.bytes = load.bytes /\ load'.stat = load.stat
    BY <2>1, FieldTypes DEF LoadFields
  <2>4. /\ ch' \in ChannelFields /\ ch'.pending = ch.pending + load.blocks
        /\ ch'.active = ch.active /\ ch'.phase = ch.phase /\ ch'.forced = ch.forced
    <3>1. ch.pending + load.blocks \in Nat
      BY <1>1
    <3> QED
      BY <2>1, <3>1, FieldTypes DEF ChannelFields
  <2>5. ch'.pending = c.left + writing' + Len(cq')
    BY <1>1, <1>3, <2>2, <2>4
  <2>6. FileTypes'
    BY <1>1, <1>2, <1>6, <2>1, <2>2, <2>3, <2>4, <2>5, FieldTypes, TypesFrom
  <2>7. AllReads' = 0
    BY <1>1, <1>2, NoReads DEF AllReads, Reads
  <2>8. RoundInv' /\ OrderInv' /\ RestInv'
    BY <1>1, <1>2, <2>1, <2>2, <2>3, <2>7
    DEF RoundInv, OrderInv, RestInv, Reading, IsData, IsRead
  <2>9. FitsInv'
    BY <1>2, <2>3 DEF FitsInv, Fits, Seen, Reading
  <2>10. EndedInv'
    BY <2>3 DEF EndedInv
  <2>11. Kept => Kept'
    BY <1>1, <2>3, <2>4 DEF Kept, Closing, ReadsPastTheEnd
  <2>12. Holds(0)'
    BY <1>1, <1>2, <1>5, <2>1, <2>4, <2>11 DEF Holds
  <2> QED
    BY <1>2, <2>1, <2>6, <2>8, <2>9, <2>10, <2>12 DEF FileInv, HeldInv
<1> QED
  BY <1>7, <1>8

-----------------------------------------------------------------------------
(* The kernel.                                                             *)

\* A completion at the end of the queue.
LEMMA PostAdds ==
  ASSUME FileInv, NEW r \in Result, Post(r)
  PROVE  /\ cq' \in Seq(Result) /\ Len(cq') = Len(cq) + 1
         /\ \A i \in 1..Len(cq) : cq'[i] = cq[i]
         /\ cq'[Len(cq) + 1] = r
         /\ \A n \in 0..Len(cq) : Reads(cq, n)' = Reads(cq, n)
         /\ AllReads' = AllReads + IF IsRead(r) THEN 1 ELSE 0
<1>1. cq \in Seq(Result) /\ Len(cq) \in Nat /\ cq' = Append(cq, r)
  BY FileFacts DEF Post
<1>2. /\ cq' \in Seq(Result) /\ Len(cq') = Len(cq) + 1
      /\ \A i \in 1..Len(cq) : cq'[i] = cq[i]
      /\ cq'[Len(cq) + 1] = r
  BY <1>1, AppendProperties
<1>3. ASSUME NEW n \in 0..Len(cq) PROVE Reads(cq', n) = Reads(cq, n)
  <2>1. n \in Nat /\ \A j \in 1..n : cq'[j] = cq[j]
    BY <1>1, <1>2
  <2> QED
    BY <2>1, SameReads
<1>4. Reads(cq', Len(cq) + 1) = Reads(cq', Len(cq)) + IF IsRead(r) THEN 1 ELSE 0
  BY <1>1, <1>2, OneMoreRead
<1>5. Reads(cq', Len(cq)) = Reads(cq, Len(cq))
  BY <1>1, <1>3
<1>6. \A n \in 0..Len(cq) : Reads(cq, n)' = Reads(cq', n)
  BY DEF Reads
<1>7. AllReads' = Reads(cq', Len(cq'))
  BY DEF AllReads, Reads
<1> QED
  BY <1>2, <1>3, <1>4, <1>5, <1>6, <1>7 DEF AllReads

\* What such a step needs to show, where the other variables stay.
LEMMA PostKeeps ==
  ASSUME FileInv, NEW r \in Result, Post(r), Len(r.bytes) <= BufferSize,
         UNCHANGED <<free, write, load, batch, events, ch>>,
         size' \in Nat, writing' \in Nat, chains' \subseteq Chain,
         \A a, b \in chains' : a = b,
         \A c \in chains' : ch.pending = c.left + writing' + (Len(cq) + 1),
         chains' = {} => ch.pending = writing' + (Len(cq) + 1),
         RestInv', RoundInv', OrderInv', FitsInv', EndedInv'
  PROVE  FileInv'
<1>1. /\ cq' \in Seq(Result) /\ Len(cq') = Len(cq) + 1 /\ Len(cq) \in Nat
      /\ \A i \in 1..Len(cq) : cq'[i] = cq[i]
      /\ cq'[Len(cq) + 1] = r
  BY PostAdds, FileFacts
<1>2. /\ free \in Nat /\ free <= PoolSize
      /\ write \in [Writes -> {"idle", "waiting", "issued", "refused"}]
      /\ load.single => load.blocks = 1
      /\ events \in Seq(Result)
  BY FileFacts DEF TypeOK
<1>3. \A i \in 1..Len(cq') : Len(cq'[i].bytes) <= BufferSize
  <2>1. \A i \in 1..Len(cq) : Len(cq[i].bytes) <= BufferSize
    BY FieldTypes
  <2>2. \A i \in 1..Len(cq') : i \in 1..Len(cq) \/ i = Len(cq) + 1
    BY <1>1
  <2> QED
    BY <1>1, <2>1, <2>2
<1>4. batch' \in 0..Len(cq')
  BY <1>1, FieldTypes
<1>5. FileTypes'
  BY <1>1, <1>2, <1>3, <1>4, FieldTypes, TypesFrom
<1>6. PICK d \in 0..Len(events) : Holds(d)
  BY DEF FileInv, HeldInv
<1>7. Kept => Kept'
  BY DEF Kept, Closing, ReadsPastTheEnd
<1>8. Holds(d)'
  BY <1>6, <1>7 DEF Holds
<1> QED
  BY <1>5, <1>6, <1>8 DEF FileInv, HeldInv

LEMMA KernelWritesKeeps ==
  ASSUME FileInv, KernelWrites
  PROVE  FileInv'
<1> DEFINE r == Without("write")
<1>1. /\ r \in Result /\ ~IsRead(r) /\ ~IsData(r) /\ Len(r.bytes) <= BufferSize
  <2>1. <<>> \in Seq(Nat) /\ Len(<<>>) = 0
    OBVIOUS
  <2> QED
    BY <2>1, FileAssumption DEF Without, Result, IsRead, IsData
<1> HIDE DEF r
<1>2. /\ writing > 0 /\ writing' = writing - 1 /\ Post(r)
      /\ UNCHANGED <<free, write, load, chains, batch, events, ch>>
      /\ writing \in Nat /\ size \in Nat /\ ch.pending \in Nat /\ Len(cq) \in Nat
      /\ RestInv /\ RoundInv /\ OrderInv /\ FitsInv /\ EndedInv
      /\ \A a, b \in chains : a = b
  BY FileFacts DEF KernelWrites, r
<1>3. size' \in Nat /\ writing' \in Nat
  <2>1. PICK n \in 0..BufferSize : size' = size + n
    BY DEF KernelWrites
  <2> QED
    BY <1>2, <2>1, FileAssumption
<1>4. \A c \in chains : ch.pending = c.left + writing' + (Len(cq) + 1)
  <2>1. ASSUME NEW c \in chains PROVE ch.pending = c.left + writing' + (Len(cq) + 1)
    <3>1. c.left \in Nat /\ ch.pending = c.left + writing + Len(cq)
      BY FileFacts
    <3>2. c.left + (writing - 1) + (Len(cq) + 1) = c.left + writing + Len(cq)
      BY <1>2, <3>1
    <3> QED
      BY <1>2, <3>1, <3>2
  <2> QED
    BY <2>1
<1>5. chains = {} => ch.pending = writing' + (Len(cq) + 1)
  <2>1. chains = {} => ch.pending = writing + Len(cq)
    BY FileFacts
  <2> QED
    BY <1>2, <2>1
<1>6. /\ Len(cq') = Len(cq) + 1 /\ \A i \in 1..Len(cq) : cq'[i] = cq[i]
      /\ cq'[Len(cq) + 1] = r /\ AllReads' = AllReads + 0
      /\ 1..Len(cq') = 1..Len(cq) \cup {Len(cq) + 1}
  BY <1>1, <1>2, PostAdds
<1>7. AllReads' = AllReads
  BY <1>6, FileFacts
<1>8. RestInv' /\ RoundInv' /\ EndedInv'
  <2>1. Kept => Kept'
    BY <1>2 DEF Kept, Closing, ReadsPastTheEnd
  <2>2. \A i \in 1..Len(cq') : (i \in 1..Len(cq) /\ cq'[i] = cq[i]) \/ cq'[i] = r
    BY <1>6
  <2> QED
    BY <1>1, <1>2, <1>7, <2>1, <2>2 DEF RestInv, RoundInv, EndedInv, Reading, Seen
<1>9. OrderInv'
  <2>1. \A i \in 1..Len(cq') : \A j \in 1..(i - 1) : j \in 1..Len(cq) /\ cq'[j] = cq[j]
    BY <1>2, <1>6
  <2> QED
    BY <1>1, <1>2, <1>6, <2>1 DEF OrderInv, Reading
<1>10. FitsInv'
  <2>1. MoreData' => MoreData
    BY <1>1, <1>2, <1>6 DEF MoreData
  <2> QED
    BY <1>2, <2>1 DEF FitsInv, Fits, Seen, Reading
<1>11. chains' \subseteq Chain
  BY <1>2, FieldTypes
<1> QED
  BY <1>1, <1>2, <1>3, <1>4, <1>5, <1>8, <1>9, <1>10, <1>11, PostKeeps

\* What a read finds: at most a buffer, from its offset on, and less only if
\* the file ends there.
LEMMA ContentIs ==
  ASSUME FileInv, NEW at \in Nat
  PROVE  /\ Content(at) \in Result /\ IsData(Content(at))
         /\ Len(Content(at).bytes) <= BufferSize
         /\ at < OffsetLimit =>
              /\ \A k \in 1..Len(Content(at).bytes) : Content(at).bytes[k] = at + k
              /\ Len(Content(at).bytes) < BufferSize =>
                   at + Len(Content(at).bytes) >= size
<1> DEFINE from == at % OffsetLimit
           to == Greatest(from, Least(from + BufferSize, size))
<1>1. /\ from \in Nat /\ size \in Nat /\ BufferSize \in Nat
      /\ at < OffsetLimit => from = at
  <2>1. OffsetLimit \in Nat /\ OffsetLimit > 0
    BY FileAssumption
  <2>2. at % OffsetLimit \in Nat /\ (at < OffsetLimit => at % OffsetLimit = at)
    BY <2>1
  <2> QED
    BY <2>2, FileFacts
<1>2. /\ to \in Nat /\ to >= from /\ to - from <= BufferSize
      /\ to - from < BufferSize => to >= size
  <2> HIDE DEF from
  <2> QED
    BY <1>1 DEF Greatest, Least
<1> HIDE DEF from, to
<1> DEFINE s == [i \in 1..(to - from) |-> from + i]
<1>3. s \in Seq(Nat) /\ Len(s) = to - from /\ \A k \in 1..(to - from) : s[k] = from + k
  <2>1. to - from \in Nat
    BY <1>1, <1>2
  <2> QED
    BY <1>1, <2>1
<1>4. Content(at) = [what |-> "data", bytes |-> s]
  BY DEF Content, Data, from, to
<1> HIDE DEF s
<1>5. Content(at) \in Result /\ IsData(Content(at)) /\ Content(at).bytes = s
  BY <1>3, <1>4 DEF Result, Results, IsData
<1>6. /\ Len(s) <= BufferSize
      /\ at < OffsetLimit =>
           /\ \A k \in 1..Len(s) : s[k] = at + k
           /\ Len(s) < BufferSize => at + Len(s) >= size
  BY <1>1, <1>2, <1>3
<1> QED
  BY <1>5, <1>6

\* The chain after its first read has ended.
Rest(chain, broken) ==
  IF chain.left = 1 THEN {}
  ELSE {[at |-> chain.at + BufferSize, left |-> chain.left - 1, broken |-> broken]}

\* The three ways a read ends.
LEMMA ReadEnds ==
  ASSUME FileInv, NEW chain \in chains, KernelReads(chain)
  PROVE  \E r \in Result, broken \in BOOLEAN :
           /\ Post(r) /\ IsRead(r) /\ Len(r.bytes) <= BufferSize
           /\ chains' = (chains \ {chain}) \cup Rest(chain, broken)
           /\ \/ chain.broken /\ broken /\ r.what = "canceled"
              \/ /\ ~chain.broken /\ r = Content(chain.at) /\ IsData(r)
                 /\ broken = (Len(r.bytes) < BufferSize)
              \/ ~chain.broken /\ broken /\ r.what = "error"
              \/ ~chain.broken /\ broken /\ r.what = "canceled" /\ ch.forced
<1> DEFINE found == Content(chain.at)
<1>1. /\ found \in Result /\ IsData(found) /\ IsRead(found) /\ Len(found.bytes) <= BufferSize
  BY ContentIs, FileFacts DEF IsData, IsRead
<1>2. (Len(found.bytes) < BufferSize) \in BOOLEAN
  OBVIOUS
<1>3. ASSUME NEW what \in {"canceled", "error"}
      PROVE  /\ Without(what) \in Result /\ IsRead(Without(what))
             /\ Len(Without(what).bytes) <= BufferSize /\ Without(what).what = what
  <2>1. <<>> \in Seq(Nat) /\ Len(<<>>) = 0
    OBVIOUS
  <2> QED
    BY <2>1, FileAssumption DEF Without, Result, Results, IsRead
<1> HIDE DEF found
<1>4. CASE /\ chain.broken /\ Post(Without("canceled"))
           /\ chains' = (chains \ {chain}) \cup Rest(chain, TRUE)
  BY <1>3, <1>4
<1>5. CASE /\ ~chain.broken /\ Post(found)
           /\ chains' = (chains \ {chain}) \cup Rest(chain, Len(found.bytes) < BufferSize)
  BY <1>1, <1>2, <1>5 DEF found
<1>6. CASE /\ ~chain.broken /\ Post(Without("error"))
           /\ chains' = (chains \ {chain}) \cup Rest(chain, TRUE)
  BY <1>3, <1>6
<1>7. CASE /\ ~chain.broken /\ ch.forced /\ Post(Without("canceled"))
           /\ chains' = (chains \ {chain}) \cup Rest(chain, TRUE)
  BY <1>3, <1>7
<1> QED
  BY <1>4, <1>5, <1>6, <1>7 DEF KernelReads, Rest, found

LEMMA KernelReadsKeeps ==
  ASSUME FileInv, NEW chain \in chains, KernelReads(chain)
  PROVE  FileInv'
<1>1. PICK r \in Result, broken \in BOOLEAN :
        /\ Post(r) /\ IsRead(r) /\ Len(r.bytes) <= BufferSize
        /\ chains' = (chains \ {chain}) \cup Rest(chain, broken)
        /\ \/ chain.broken /\ broken /\ r.what = "canceled"
           \/ /\ ~chain.broken /\ r = Content(chain.at) /\ IsData(r)
              /\ broken = (Len(r.bytes) < BufferSize)
           \/ ~chain.broken /\ broken /\ r.what = "error"
           \/ ~chain.broken /\ broken /\ r.what = "canceled" /\ ch.forced
  BY ReadEnds
<1>2. /\ UNCHANGED <<size, free, write, load, writing, batch, events, ch>>
      /\ writing \in Nat /\ size \in Nat /\ ch.pending \in Nat /\ Len(cq) \in Nat
      /\ RestInv /\ RoundInv /\ OrderInv /\ FitsInv /\ EndedInv
      /\ \A a, b \in chains : a = b
      /\ chain.at \in Nat /\ chain.left \in Nat /\ chain.left >= 1
      /\ chain.left <= PoolSize /\ PoolSize \in Nat /\ BufferSize \in Nat
      /\ ch.pending = chain.left + writing + Len(cq)
      /\ load.counter \in Nat /\ Len(events) \in Nat /\ AllReads \in Nat /\ load.blocks \in Nat
  <2>1. chain \in Chain
    BY FieldTypes
  <2>2. chain.left <= PoolSize
    BY <2>1, FileAssumption DEF Chain
  <2> QED
    BY <2>2, FileFacts DEF KernelReads
<1> DEFINE n == chain.left
<1>20. /\ n \in Nat /\ n >= 1 /\ n <= PoolSize /\ PoolSize \in Nat
       /\ chain.at + BufferSize \in Nat
  BY <1>2
<1>21. writing \in Nat /\ Len(cq) \in Nat /\ ch.pending = n + writing + Len(cq)
  BY <1>2
<1>22. /\ load.counter \in Nat /\ Len(events) \in Nat /\ AllReads \in Nat
       /\ load.blocks \in Nat
  BY <1>2
<1>23. n - 1 \in Int /\ (n # 1 => n - 1 \in 1..PoolSize)
  BY <1>20
<1>3. /\ ~broken => ~chain.broken /\ Full(r)
      /\ IsData(r) => ~chain.broken
      /\ IsRead(r)
  <2>1. Len(r.bytes) \in Nat
    BY LenProperties DEF Result
  <2> QED
    BY <1>1, <1>2, <2>1 DEF IsData, Full
<1> DEFINE next == [at |-> chain.at + BufferSize, left |-> n - 1, broken |-> broken]
<1>4. chains' = IF n = 1 THEN {} ELSE {next}
  BY <1>1, <1>2 DEF Rest
<1>5. (n # 1 => next \in Chain) /\ next.left = n - 1
  <2> HIDE DEF n
  <2> QED
    BY <1>20, <1>23 DEF Chain
<1>6. next.broken = broken
  OBVIOUS
<1> HIDE DEF next, n
<1>7. /\ chains' \subseteq Chain /\ \A a, b \in chains' : a = b
      /\ \A c \in chains' : c = next /\ c.left = n - 1 /\ c.broken = broken
  BY <1>4, <1>5, <1>6
<1>8. \A c \in chains' : ch.pending = c.left + writing' + (Len(cq) + 1)
  <2>1. ASSUME NEW c \in chains' PROVE ch.pending = c.left + writing' + (Len(cq) + 1)
    <3>1. c.left = n - 1 /\ writing' = writing
      BY <1>2, <1>7
    <3>2. (n - 1) + writing + (Len(cq) + 1) = n + writing + Len(cq)
      BY <1>20, <1>21
    <3> QED
      BY <1>21, <3>1, <3>2
  <2> QED
    BY <2>1
<1>9. chains' = {} => ch.pending = writing' + (Len(cq) + 1)
  <2>1. chains' = {} => n = 1 /\ writing' = writing
    BY <1>2, <1>4
  <2>2. 1 + writing + Len(cq) = writing + (Len(cq) + 1)
    BY <1>21
  <2> QED
    BY <1>21, <2>1, <2>2
<1>10. /\ Len(cq') = Len(cq) + 1 /\ \A i \in 1..Len(cq) : cq'[i] = cq[i]
       /\ cq'[Len(cq) + 1] = r /\ AllReads' = AllReads + 1
       /\ 1..Len(cq') = 1..Len(cq) \cup {Len(cq) + 1}
  <2>1. /\ Len(cq') = Len(cq) + 1 /\ \A i \in 1..Len(cq) : cq'[i] = cq[i]
        /\ cq'[Len(cq) + 1] = r /\ AllReads' = AllReads + 1
    BY <1>1, PostAdds
  <2>2. 1..(Len(cq) + 1) = 1..Len(cq) \cup {Len(cq) + 1}
    BY <1>21
  <2> QED
    BY <2>1, <2>2
<1>11. load.state \notin {"idle", "stat", "waiting"}
  BY DEF FileInv, RestInv
<1>12. RestInv'
  BY <1>2, <1>11 DEF RestInv, Reading
<1>13. RoundInv'
  <2>1. Reading => load.counter + Len(events) + AllReads + n <= load.blocks
    BY <1>2 DEF RoundInv, n
  <2>2. Reading => load.counter + Len(events) + (AllReads + 1) <= load.blocks
    BY <1>20, <1>22, <2>1
  <2>4. Reading => load.counter + Len(events) + (AllReads + 1) + (n - 1) <= load.blocks
    BY <1>20, <1>22, <2>1
  <2>3. ASSUME Reading, NEW c \in chains'
        PROVE  load.counter + Len(events) + AllReads' + c.left <= load.blocks
    <3>1. c.left = n - 1 /\ AllReads' = AllReads + 1
      BY <1>7, <1>10
    <3> QED
      BY <2>3, <2>4, <3>1
  <2> QED
    BY <1>2, <1>10, <2>2, <2>3 DEF RoundInv, Reading
<1>14. \A i \in 1..Len(cq') : \A j \in 1..(i - 1) : j \in 1..Len(cq) /\ cq'[j] = cq[j]
  <2> DEFINE m == Len(cq)
  <2>1. m \in Nat /\ Len(cq') = m + 1
    BY <1>10, <1>21
  <2> HIDE DEF m
  <2>2. \A i \in 1..(m + 1) : \A j \in 1..(i - 1) : j \in 1..m
    BY <2>1
  <2>3. \A i \in 1..Len(cq') : \A j \in 1..(i - 1) : j \in 1..Len(cq)
    BY <2>1, <2>2 DEF m
  <2> QED
    BY <1>10, <2>3
<1>15. OrderInv'
  <2>1. SUFFICES ASSUME Reading PROVE OrderInv'
    BY <1>2 DEF OrderInv, Reading
  <2>2. ~chain.broken =>
          /\ \A j \in 1..Len(cq) : IsRead(cq[j]) => Full(cq[j])
          /\ \A j \in 1..Len(events) : Full(events[j])
    BY <1>2, <2>1 DEF OrderInv
  <2>3. ASSUME NEW i \in 1..Len(cq'), IsData(cq'[i])
        PROVE  /\ \A j \in 1..(i - 1) : IsRead(cq'[j]) => Full(cq'[j])
               /\ \A j \in 1..Len(events) : Full(events[j])
    <3>1. CASE i \in 1..Len(cq)
      BY <1>2, <1>10, <1>14, <2>1, <2>3, <3>1 DEF OrderInv
    <3>2. CASE i = Len(cq) + 1
      BY <1>3, <1>10, <1>14, <2>2, <2>3, <3>2
    <3> QED
      BY <1>10, <3>1, <3>2
  <2>4. ASSUME NEW c \in chains', ~c.broken
        PROVE  /\ \A j \in 1..Len(cq') : IsRead(cq'[j]) => Full(cq'[j])
               /\ \A j \in 1..Len(events) : Full(events[j])
    BY <1>3, <1>7, <1>10, <2>2, <2>4
  <2> QED
    BY <1>2, <2>1, <2>3, <2>4 DEF OrderInv, Reading
<1>16. FitsInv'
  <2>1. MoreData' => MoreData
    BY <1>2, <1>3, <1>7, <1>10 DEF MoreData
  <2> QED
    BY <1>2, <2>1 DEF FitsInv, Fits, Seen, Reading
<1>17. EndedInv'
  <2>1. Kept => Kept'
    BY <1>2 DEF Kept, Closing, ReadsPastTheEnd
  <2> QED
    BY <1>2, <1>3, <1>7, <1>10, <2>1 DEF EndedInv
<1> QED
  BY <1>1, <1>2, <1>7, <1>8, <1>9, <1>12, <1>13, <1>15, <1>16, <1>17, PostKeeps

-----------------------------------------------------------------------------
(* Completions.                                                            *)

\* The first entry leaves the queue.
LEMMA TakeOff ==
  ASSUME FileInv, cq # <<>>, cq' = Tail(cq)
  PROVE  /\ cq' \in Seq(Result) /\ Len(cq) >= 1 /\ Len(cq') = Len(cq) - 1
         /\ Head(cq) = cq[1] /\ cq[1] \in Result
         /\ \A i \in 1..Len(cq') : i + 1 \in 1..Len(cq) /\ cq'[i] = cq[i + 1]
         /\ \A n \in 0..(Len(cq) - 1) :
              Reads(cq', n) = Reads(cq, n + 1) - IF IsRead(cq[1]) THEN 1 ELSE 0
         /\ AllReads' = AllReads - IF IsRead(cq[1]) THEN 1 ELSE 0
<1>1. cq \in Seq(Result) /\ Len(cq) \in Nat
  BY FileFacts
<1>2. Len(cq) # 0
  BY <1>1, EmptySeq
<1>3. /\ cq' \in Seq(Result) /\ Len(cq') = Len(cq) - 1
      /\ \A i \in 1..Len(cq') : cq'[i] = cq[i + 1]
  BY <1>1, HeadTailProperties
<1>4. Head(cq) = cq[1] /\ cq[1] \in Result
  BY <1>1, <1>2, ElementOfSeq
<1>5. ASSUME NEW n \in 0..(Len(cq) - 1)
      PROVE  Reads(cq', n) = Reads(cq, n + 1) - IF IsRead(cq[1]) THEN 1 ELSE 0
  <2>1. n \in Nat /\ n + 1 <= Len(cq)
    BY <1>1
  <2> QED
    BY <1>1, <2>1, ReadsTail
<1>6. AllReads' = AllReads - IF IsRead(cq[1]) THEN 1 ELSE 0
  <2>1. Len(cq) - 1 \in 0..(Len(cq) - 1) /\ (Len(cq) - 1) + 1 = Len(cq)
    BY <1>1, <1>2
  <2>2. Reads(cq', Len(cq) - 1) = Reads(cq, Len(cq)) - IF IsRead(cq[1]) THEN 1 ELSE 0
    BY <1>5, <2>1
  <2>3. AllReads' = Reads(cq', Len(cq'))
    BY DEF AllReads, Reads
  <2> QED
    BY <1>3, <2>2, <2>3 DEF AllReads
<1> QED
  BY <1>1, <1>2, <1>3, <1>4, <1>5, <1>6

\* The facts of notify that all parts of the invariant need.
LEMMA NotifyStep ==
  ASSUME FileInv, Notify
  PROVE  /\ cq # <<>> /\ cq' = Tail(cq) /\ ch.pending >= 1
         /\ ch' \in ChannelFields /\ ch'.pending = ch.pending - 1
         /\ ch'.phase = ch.phase /\ ch'.forced = ch.forced
         /\ ch'.active => ch.active
         /\ ch'.phase = "open" => ch'.active
         /\ batch' \in 0..(Len(cq) - 1)
         /\ UNCHANGED <<size, write, load, chains, writing>>
         /\ free' = IF Released(ch.active, cq[1].what) THEN free + 1 ELSE free
         /\ events' = IF ch.active /\ IsRead(cq[1]) /\ Reading
                      THEN Append(events, cq[1]) ELSE events
<1>1. /\ batch > 0 /\ batch' = batch - 1 /\ cq' = Tail(cq)
      /\ UNCHANGED <<size, write, load, chains, writing>>
      /\ batch \in 0..Len(cq) /\ cq \in Seq(Result) /\ Len(cq) \in Nat
  BY FileFacts, FieldTypes DEF Notify
<1>2. Len(cq) >= 1 /\ batch' \in 0..(Len(cq) - 1)
  BY <1>1
<1>3. cq # <<>>
  BY <1>1, <1>2, EmptySeq
<1>4. Head(cq) = cq[1]
  BY <1>1, <1>3, TakeOff
<1>5. ch.pending >= 1
  <2>1. ch.pending \in Nat /\ writing \in Nat
    BY FileFacts
  <2>2. CASE chains = {}
    <3>1. ch.pending = writing + Len(cq)
      BY <2>2, FileFacts
    <3> QED
      BY <1>1, <1>2, <2>1, <3>1
  <2>3. CASE chains # {}
    <3>1. PICK c \in chains : c.left \in Nat /\ ch.pending = c.left + writing + Len(cq)
      BY <2>3, FileFacts
    <3> DEFINE n == c.left
    <3>2. n \in Nat /\ ch.pending = n + writing + Len(cq)
      BY <3>1
    <3> HIDE DEF n
    <3> QED
      BY <1>1, <1>2, <2>1, <3>2
  <2> QED
    BY <2>2, <2>3
<1> DEFINE last == ch.pending = 1 /\ Closing
<1>6. ch' = [ch EXCEPT !.pending = ch.pending - 1, !.closer = @ \/ last,
                       !.active = @ /\ ~last]
  BY DEF Notify
<1>7. ch \in ChannelFields /\ (ch.phase = "open" => ch.active)
  BY FieldTypes
<1>8. ch.pending - 1 \in Nat /\ last \in BOOLEAN
  <2>1. ch.pending \in Nat
    BY FileFacts
  <2>2. ch.pending - 1 \in Nat
    BY <1>5, <2>1
  <2>3. last \in BOOLEAN
    OBVIOUS
  <2> QED
    BY <2>2, <2>3
<1>9. ch.phase = "open" => ~last
  BY DEF Closing
<1> HIDE DEF last
<1>10. /\ ch' \in ChannelFields /\ ch'.pending = ch.pending - 1
       /\ ch'.phase = ch.phase /\ ch'.forced = ch.forced
       /\ ch'.active = (ch.active /\ ~last)
  <2>1. ch.active \in BOOLEAN /\ ch.closer \in BOOLEAN
    BY <1>7 DEF ChannelFields
  <2>2. (ch.active /\ ~last) \in BOOLEAN /\ (ch.closer \/ last) \in BOOLEAN
    BY <1>8, <2>1
  <2> QED
    BY <1>6, <1>7, <1>8, <2>2 DEF ChannelFields
<1>11. cq[1].what # "write" /\ Listening <=> IsRead(cq[1]) /\ Reading
  <2>1. load.state = "waiting" => ~IsRead(cq[1])
    BY <1>1, <1>2 DEF FileInv, RestInv
  <2> QED
    BY <2>1 DEF IsRead, Listening, Reading
<1>12. /\ free' = IF Released(ch.active, cq[1].what) THEN free + 1 ELSE free
       /\ events' = IF ch.active /\ cq[1].what # "write" /\ Listening
                      THEN Append(events, cq[1]) ELSE events
  BY <1>4 DEF Notify
<1> QED
  BY <1>1, <1>2, <1>3, <1>5, <1>7, <1>9, <1>10, <1>11, <1>12

\* The count after the completion: the buffer is in the pool, in the stream,
\* or it is one of those that are kept.
LEMMA NotifyHeld ==
  ASSUME FileInv, Notify
  PROVE  HeldInv' /\ free' \in Nat /\ free' <= PoolSize
<1> DEFINE h == cq[1]
<1>1. /\ cq # <<>> /\ cq' = Tail(cq) /\ ch.pending >= 1
      /\ ch'.pending = ch.pending - 1 /\ ch'.phase = ch.phase
      /\ UNCHANGED <<size, write, load, chains, writing>>
      /\ free' = IF Released(ch.active, h.what) THEN free + 1 ELSE free
      /\ events' = IF ch.active /\ IsRead(h) /\ Reading
                   THEN Append(events, h) ELSE events
  BY NotifyStep
<1>2. /\ free \in Nat /\ ch.pending \in Nat /\ PoolSize \in Nat /\ Len(events) \in Nat
      /\ events \in Seq(Result) /\ Len(cq) >= 1 /\ h \in Result /\ Len(cq) \in Nat
      /\ RestInv /\ OrderInv /\ EndedInv /\ HeldInv
      /\ load.state \in {"idle", "stat", "waiting", "reading", "done", "failed"}
  BY <1>1, FileFacts, TakeOff
<1>3. PICK d \in 0..Len(events) : Holds(d)
  BY <1>2 DEF HeldInv
<1>4. /\ d \in Nat /\ d <= Len(events)
      /\ \A i \in 1..Len(events) : IsData(events[i]) <=> i <= d
      /\ free + ch.pending + d <= PoolSize
      /\ ~Kept => free + ch.pending + d = PoolSize
  BY <1>2, <1>3 DEF Holds
<1>5. Kept => Kept'
  BY <1>1 DEF Kept, Closing, ReadsPastTheEnd
<1>6. Released(ch.active, h.what) <=> ~ch.active \/ ~IsData(h)
  BY DEF Released, IsData
<1> HIDE DEF h
<1> DEFINE p == ch.pending
<1>9. /\ free \in Nat /\ p \in Nat /\ p >= 1 /\ d \in Nat /\ PoolSize \in Nat
      /\ free + p + d <= PoolSize
  BY <1>1, <1>2, <1>4
<1> HIDE DEF p
<1>10. /\ (free + 1) + (p - 1) + d = free + p + d
       /\ free + (p - 1) + (d + 1) = free + p + d
       /\ free + (p - 1) + d <= PoolSize /\ free + 1 <= PoolSize
  BY <1>9
<1>7. CASE ch.active /\ IsRead(h) /\ Reading
  <2>1. /\ events' \in Seq(Result) /\ Len(events') = Len(events) + 1
        /\ \A i \in 1..Len(events) : events'[i] = events[i]
        /\ events'[Len(events) + 1] = h
    BY <1>1, <1>2, <1>7, AppendProperties
  <2>2. 1..Len(events') = 1..Len(events) \cup {Len(events) + 1}
    BY <1>2, <2>1
  <2>3. CASE IsData(h)
    <3>1. \A j \in 1..Len(events) : IsData(events[j])
      BY <1>2, <1>7, <2>3 DEF OrderInv, Full, h
    <3>2. d = Len(events)
      BY <1>2, <1>4, <3>1
    <3>3. free' = free
      BY <1>1, <1>6, <1>7, <2>3
    <3>4. Holds(d + 1)'
      <4>1. free' + ch'.pending + (d + 1) = free + ch.pending + d
        BY <1>1, <1>10, <3>3 DEF p
      <4>2. \A i \in 1..Len(events') : IsData(events'[i]) <=> i <= d + 1
        BY <1>2, <1>4, <2>1, <2>2, <2>3, <3>2
      <4> QED
        BY <1>4, <1>5, <4>1, <4>2 DEF Holds
    <3>5. d + 1 \in 0..Len(events')
      BY <1>2, <2>1, <3>2
    <3> QED
      BY <1>2, <3>3, <3>4, <3>5, FileFacts DEF HeldInv
  <2>4. CASE ~IsData(h)
    <3>1. free' = free + 1
      BY <1>1, <1>6, <2>4
    <3>2. Holds(d)'
      <4>1. free' + ch'.pending + d = free + ch.pending + d
        BY <1>1, <1>10, <3>1 DEF p
      <4>2. \A i \in 1..Len(events') : IsData(events'[i]) <=> i <= d
        BY <1>2, <1>4, <2>1, <2>2, <2>4
      <4> QED
        BY <1>4, <1>5, <4>1, <4>2 DEF Holds
    <3>3. d \in 0..Len(events') /\ free' <= PoolSize
      BY <1>2, <1>4, <1>10, <2>1, <3>1
    <3> QED
      BY <1>2, <3>1, <3>2, <3>3 DEF HeldInv
  <2> QED
    BY <2>3, <2>4
<1>8. CASE ~(ch.active /\ IsRead(h) /\ Reading)
  <2>1. events' = events
    BY <1>1, <1>8
  <2>2. CASE Released(ch.active, h.what)
    <3>1. free' = free + 1
      BY <1>1, <2>2
    <3>2. free' + ch'.pending + d = free + ch.pending + d
      BY <1>1, <1>10, <3>1 DEF p
    <3>3. Holds(d)' /\ free' <= PoolSize
      BY <1>4, <1>5, <1>10, <2>1, <3>1, <3>2 DEF Holds
    <3> QED
      BY <1>2, <1>4, <2>1, <3>1, <3>3 DEF HeldInv
  <2>3. CASE ~Released(ch.active, h.what)
    <3>1. ch.active /\ IsData(h) /\ IsRead(h) /\ ~Reading
      BY <1>6, <1>8, <2>3 DEF IsData, IsRead
    <3>2. load.state \in {"done", "failed"}
      BY <1>2, <3>1 DEF RestInv, Reading, h
    <3>3. Kept
      BY <1>2, <3>1, <3>2 DEF EndedInv, h
    <3>4. free' = free
      BY <1>1, <2>3
    <3>5. free' + ch'.pending + d <= PoolSize
      BY <1>1, <1>10, <3>4 DEF p
    <3>6. Holds(d)'
      BY <1>4, <1>5, <2>1, <3>3, <3>5 DEF Holds
    <3> QED
      BY <1>2, <1>4, <2>1, <3>4, <3>6, FileFacts DEF HeldInv
  <2> QED
    BY <2>2, <2>3
<1> QED
  BY <1>7, <1>8

LEMMA NotifyTypes ==
  ASSUME FileInv, Notify
  PROVE  FileTypes'
<1>1. /\ cq # <<>> /\ cq' = Tail(cq) /\ ch.pending >= 1
      /\ ch' \in ChannelFields /\ ch'.pending = ch.pending - 1
      /\ ch'.phase = ch.phase /\ ch'.forced = ch.forced /\ (ch'.active => ch.active)
      /\ ch'.phase = "open" => ch'.active
      /\ batch' \in 0..(Len(cq) - 1)
      /\ UNCHANGED <<size, write, load, chains, writing>>
      /\ events' = IF ch.active /\ IsRead(cq[1]) /\ Reading
                   THEN Append(events, cq[1]) ELSE events
  BY NotifyStep
<1>2. /\ cq' \in Seq(Result) /\ Len(cq) >= 1 /\ Len(cq') = Len(cq) - 1
      /\ cq[1] \in Result
      /\ \A i \in 1..Len(cq') : i + 1 \in 1..Len(cq) /\ cq'[i] = cq[i + 1]
  BY <1>1, TakeOff
<1>3. \A i \in 1..Len(cq') : Len(cq'[i].bytes) <= BufferSize
  BY <1>2, FieldTypes
<1>4. /\ events' \in Seq(Result)
      /\ \A i \in 1..Len(events') : /\ Len(events'[i].bytes) <= BufferSize
                                    /\ events'[i].what \in Results
  <2>1. /\ events \in Seq(Result) /\ Len(events) \in Nat
        /\ \A i \in 1..Len(events) : /\ Len(events[i].bytes) <= BufferSize
                                     /\ events[i].what \in Results
    BY FileFacts, FieldTypes
  <2>2. CASE ch.active /\ IsRead(cq[1]) /\ Reading
    <3>1. /\ events' \in Seq(Result) /\ Len(events') = Len(events) + 1
          /\ \A i \in 1..Len(events) : events'[i] = events[i]
          /\ events'[Len(events) + 1] = cq[1]
      BY <1>1, <1>2, <2>1, <2>2, AppendProperties
    <3>2. cq[1].what \in Results /\ Len(cq[1].bytes) <= BufferSize
      <4>1. 1 \in 1..Len(cq)
        BY <1>2, FileFacts
      <4>2. cq[1].what \in Results
        BY <1>2, <2>2 DEF Result, IsRead
      <4> QED
        BY <4>1, <4>2, FieldTypes
    <3>3. \A i \in 1..Len(events') : i \in 1..Len(events) \/ i = Len(events) + 1
      BY <2>1, <3>1
    <3> HIDE DEF Results
    <3> QED
      BY <2>1, <3>1, <3>2, <3>3
  <2>3. CASE ~(ch.active /\ IsRead(cq[1]) /\ Reading)
    BY <1>1, <2>1, <2>3
  <2> QED
    BY <2>2, <2>3
<1>5. /\ \A c \in chains' : ch'.pending = c.left + writing' + Len(cq')
      /\ chains' = {} => ch'.pending = writing' + Len(cq')
  <2>1. /\ writing \in Nat /\ Len(cq) \in Nat /\ writing' = writing /\ chains' = chains
        /\ Len(cq') = Len(cq) - 1 /\ ch'.pending = ch.pending - 1
        /\ chains = {} => ch.pending = writing + Len(cq)
    BY <1>1, <1>2, FileFacts
  <2>2. ASSUME NEW c \in chains PROVE ch'.pending = c.left + writing' + Len(cq')
    <3> DEFINE n == c.left
    <3>1. n \in Nat /\ ch.pending = n + writing + Len(cq)
      BY FileFacts
    <3> HIDE DEF n
    <3>2. (n + writing + Len(cq)) - 1 = n + writing + (Len(cq) - 1)
      BY <2>1, <3>1
    <3> QED
      BY <2>1, <3>1, <3>2 DEF n
  <2> QED
    BY <2>1, <2>2
<1>6. /\ size' \in Nat /\ writing' \in Nat
      /\ write' \in [Writes -> {"idle", "waiting", "issued", "refused"}]
      /\ load' \in LoadFields /\ (load'.single => load'.blocks = 1)
      /\ \A a, b \in chains' : a = b
      /\ chains' \subseteq Chain
      /\ ch'.forced => ~ch'.active
  BY <1>1, FileFacts, FieldTypes DEF TypeOK
<1>7. batch' \in 0..Len(cq')
  BY <1>1, <1>2
<1> HIDE DEF Results
<1> QED
  BY <1>1, <1>2, <1>3, <1>4, <1>5, <1>6, <1>7, NotifyHeld, TypesFrom

\* The queue gets shorter and the stream, if at all, longer.
LEMMA NotifyKeeps ==
  ASSUME FileInv, Notify
  PROVE  FileInv'
<1> DEFINE h == cq[1]
           added == ch.active /\ IsRead(h) /\ Reading
<1>1. /\ cq # <<>> /\ cq' = Tail(cq) /\ (ch'.active => ch.active) /\ ch'.phase = ch.phase
      /\ UNCHANGED <<size, write, load, chains, writing>>
      /\ events' = IF added THEN Append(events, h) ELSE events
  BY NotifyStep
<1>2. /\ Len(cq) >= 1 /\ Len(cq') = Len(cq) - 1 /\ h \in Result
      /\ \A i \in 1..Len(cq') : i + 1 \in 1..Len(cq) /\ cq'[i] = cq[i + 1]
      /\ AllReads' = AllReads - IF IsRead(h) THEN 1 ELSE 0
  BY <1>1, TakeOff
<1>3. /\ Len(events) \in Nat /\ events \in Seq(Result) /\ Len(cq) \in Nat
      /\ load.counter \in Nat /\ load.blocks \in Nat /\ AllReads \in Nat
      /\ RestInv /\ RoundInv /\ OrderInv /\ FitsInv /\ EndedInv
      /\ \A c \in chains : c.left \in Nat
  BY FileFacts
<1>4. /\ added => /\ Len(events') = Len(events) + 1
                  /\ \A i \in 1..Len(events) : events'[i] = events[i]
                  /\ events'[Len(events) + 1] = h
      /\ ~added => events' = events
  BY <1>1, <1>2, <1>3, AppendProperties
<1>5. \A i \in 1..Len(events') :
        \/ i \in 1..Len(events) /\ events'[i] = events[i]
        \/ added /\ i = Len(events) + 1 /\ events'[i] = h
  BY <1>3, <1>4
<1>6. 1 \in 1..Len(cq)
  BY <1>2, <1>3
<1>7. added => IsRead(h) /\ Reading
  OBVIOUS
<1>8. Reading' = Reading
  BY <1>1 DEF Reading
<1> HIDE DEF added
<1>9. RestInv'
  <2>1. ~Reading => events' = events
    BY <1>4, <1>7
  <2> QED
    BY <1>1, <1>2, <1>3, <1>8, <2>1 DEF RestInv, Seen, Reading
<1>10. RoundInv'
  <2> DEFINE all == Len(events) + AllReads
             all2 == Len(events') + AllReads'
  <2>1. all \in Nat /\ all2 \in Int /\ all2 <= all
    BY <1>2, <1>3, <1>4, <1>7
  <2>2. ASSUME Reading
        PROVE  /\ load.counter + Len(events') + AllReads' <= load.blocks
               /\ \A c \in chains :
                    load.counter + Len(events') + AllReads' + c.left <= load.blocks
    <3>1. Len(events') \in Int /\ AllReads' \in Int
      BY <1>2, <1>3, <1>4
    <3>2. load.counter + all <= load.blocks
      BY <1>3, <2>2 DEF RoundInv
    <3>3. ASSUME NEW c \in chains
          PROVE  load.counter + Len(events') + AllReads' + c.left <= load.blocks
      <4> DEFINE n == c.left
      <4>1. n \in Nat /\ load.counter + Len(events) + AllReads + n <= load.blocks
        BY <1>3, <2>2 DEF RoundInv
      <4> HIDE DEF n
      <4>2. load.counter + all + n <= load.blocks
        BY <1>3, <4>1
      <4>3. load.counter + Len(events') + AllReads' + n = load.counter + all2 + n
        BY <1>3, <3>1, <4>1
      <4> DEFINE k == load.counter
                 b == load.blocks
      <4>5. k \in Nat /\ b \in Nat /\ k + all + n <= b
        BY <1>3, <4>2
      <4> HIDE DEF all, all2, k, b
      <4>4. k + all2 + n <= b
        BY <2>1, <4>1, <4>5
      <4> QED
        BY <4>3, <4>4 DEF n, k, b
    <3> QED
      BY <1>3, <2>1, <3>1, <3>2, <3>3
  <2> QED
    BY <1>1, <1>8, <2>2 DEF RoundInv
<1>11. OrderInv'
  <2>1. SUFFICES ASSUME Reading PROVE OrderInv'
    BY <1>8 DEF OrderInv
  <2>2. IsData(h) => \A j \in 1..Len(events) : Full(events[j])
    BY <1>3, <1>6, <2>1 DEF OrderInv
  <2>3. ASSUME NEW i \in 1..Len(events'), IsData(events'[i]), NEW j \in 1..(i - 1)
        PROVE  Full(events'[j])
    <3>1. j \in 1..Len(events) /\ events'[j] = events[j]
      BY <1>3, <1>4, <1>5
    <3>2. CASE i \in 1..Len(events) /\ events'[i] = events[i]
      BY <1>3, <2>1, <2>3, <3>1, <3>2 DEF OrderInv
    <3>3. CASE added /\ i = Len(events) + 1 /\ events'[i] = h
      BY <2>2, <2>3, <3>1, <3>3
    <3> QED
      BY <1>5, <3>2, <3>3
  <2>4. ASSUME (IsRead(h) => Full(h)), \A j \in 1..Len(events) : Full(events[j])
        PROVE  \A j \in 1..Len(events') : Full(events'[j])
    BY <1>5, <1>7, <2>4
  <2>5. ASSUME NEW i \in 1..Len(cq'), IsData(cq'[i])
        PROVE  /\ \A j \in 1..(i - 1) : IsRead(cq'[j]) => Full(cq'[j])
               /\ \A j \in 1..Len(events') : Full(events'[j])
    <3>1. /\ i + 1 \in 1..Len(cq) /\ IsData(cq[i + 1])
          /\ \A j \in 1..(i - 1) : j + 1 \in 1..((i + 1) - 1) /\ cq'[j] = cq[j + 1]
          /\ 1 \in 1..((i + 1) - 1)
      BY <1>2, <1>3, <2>5
    <3>2. /\ \A j \in 1..((i + 1) - 1) : IsRead(cq[j]) => Full(cq[j])
          /\ \A j \in 1..Len(events) : Full(events[j])
      BY <1>3, <2>1, <3>1 DEF OrderInv
    <3> QED
      BY <2>4, <3>1, <3>2
  <2>6. ASSUME NEW c \in chains, ~c.broken
        PROVE  /\ \A j \in 1..Len(cq') : IsRead(cq'[j]) => Full(cq'[j])
               /\ \A j \in 1..Len(events') : Full(events'[j])
    <3>1. /\ \A j \in 1..Len(cq) : IsRead(cq[j]) => Full(cq[j])
          /\ \A j \in 1..Len(events) : Full(events[j])
      BY <1>3, <2>1, <2>6 DEF OrderInv
    <3> QED
      BY <1>2, <1>6, <2>4, <3>1
  <2> HIDE DEF h
  <2> QED
    BY <1>1, <1>8, <2>3, <2>5, <2>6 DEF OrderInv
<1>12. FitsInv'
  <2>1. MoreData' => MoreData
    <3>1. ASSUME NEW i \in 1..Len(events'), IsData(events'[i]) PROVE MoreData
      BY <1>5, <1>6, <3>1 DEF MoreData
    <3>2. ASSUME NEW i \in 1..Len(cq'), IsData(cq'[i]) PROVE MoreData
      BY <1>2, <3>2 DEF MoreData
    <3> QED
      BY <1>1, <3>1, <3>2 DEF MoreData
  <2> QED
    BY <1>1, <1>3, <1>8, <2>1 DEF FitsInv, Fits, Seen
<1>13. EndedInv'
  <2>1. Kept => Kept'
    BY <1>1 DEF Kept, Closing, ReadsPastTheEnd
  <2> QED
    BY <1>1, <1>2, <1>3, <2>1 DEF EndedInv
<1> QED
  BY <1>9, <1>10, <1>11, <1>12, <1>13, NotifyTypes, NotifyHeld DEF FileInv

-----------------------------------------------------------------------------
(* The listener.                                                           *)

\* Multiples of the size of a buffer.
LEMMA OneMore ==
  ASSUME NEW n \in Int, NEW b \in Int
  PROVE  (n + 1) * b = n * b + b /\ (n - 1) * b + b = n * b
OBVIOUS

LEMMA ProductType == ASSUME NEW m \in Nat, NEW n \in Nat PROVE m * n \in Nat
OBVIOUS

LEMMA Multiples ==
  ASSUME NEW m \in Nat, NEW n \in Nat, NEW b \in Nat, b > 0
  PROVE  /\ m <= n => m * b <= n * b
         /\ m * b <= n * b => m <= n
         /\ m > 0 => m * b > 0
<1>1. ASSUME m <= n PROVE m * b <= n * b
  BY <1>1
<1>2. ASSUME n < m PROVE n * b < m * b
  <2>1. m * b = n * b + (m - n) * b
    OBVIOUS
  <2>2. (m - n) * b >= 1 * b
    BY <1>2
  <2> QED
    BY <2>1, <2>2
<1> QED
  BY <1>1, <1>2

LEMMA MultipleIsWhole ==
  ASSUME NEW n \in Nat, NEW b \in Nat, b > 0
  PROVE  (n * b) % b = 0
<1> DEFINE q == (n * b) \div b
           r == (n * b) % b
<1>1. n * b \in Nat
  OBVIOUS
<1>2. /\ q \in Int /\ r \in 0..(b - 1)
      /\ n * b = b * q + r
  BY <1>1
<1> HIDE DEF q, r
<1>3. CASE n - q >= 1
  <2>1. (n - q) * b = r
    BY <1>2
  <2>2. (n - q) * b >= b
    BY <1>2, <1>3
  <2> QED
    BY <1>2, <2>1, <2>2
<1>4. CASE n - q <= -1
  <2>1. (q - n) * b >= b
    BY <1>2, <1>4
  <2>2. (q - n) * b = -r
    BY <1>2
  <2> QED
    BY <1>2, <2>1, <2>2
<1>5. CASE n - q = 0
  BY <1>2, <1>5
<1>6. n - q >= 1 \/ n - q <= -1 \/ n - q = 0
  BY <1>2
<1>7. r = 0
  BY <1>2, <1>3, <1>4, <1>5, <1>6
<1> QED
  BY <1>7 DEF r

LEMMA QuotientFits ==
  ASSUME NEW x \in Int, NEW b \in Nat, b > 0
  PROVE  x \div b \in Int /\ (x \div b) * b <= x
<1> DEFINE q == x \div b
           r == x % b
<1>1. q \in Int /\ r \in 0..(b - 1) /\ x = b * q + r
  OBVIOUS
<1> HIDE DEF q, r
<1>2. q * b <= x
  BY <1>1
<1> QED
  BY <1>1, <1>2 DEF q

\* A next round has at least one block, no more than before, and no more than
\* are left of the file unless it has only one.
LEMMA NextRoundFits ==
  ASSUME FileInv, NEW l \in LoadFields, l.single => l.blocks = 1
  PROVE  /\ NextRound(l) \in LoadFields /\ NextRound(l).state = "waiting"
         /\ NextRound(l).counter = 0 /\ NextRound(l).bytes = l.bytes
         /\ NextRound(l).stat = l.stat /\ NextRound(l).offset = l.offset
         /\ NextRound(l).single => NextRound(l).blocks = 1
         /\ Fits(NextRound(l))
<1> DEFINE q == (l.stat - Seen(l)) \div BufferSize
           most == Greatest(q, 1)
           n == Least(l.blocks, most)
<1>1. /\ l.stat \in Nat /\ Seen(l) \in Nat /\ BufferSize \in Nat /\ BufferSize > 0
      /\ l.blocks \in 1..PoolSize /\ PoolSize \in Nat /\ l.bytes \in Seq(Nat)
      /\ l.single \in BOOLEAN
  BY FileFacts, LenProperties DEF LoadFields, Seen
<1>2. l.stat - Seen(l) \in Int
  BY <1>1
<1>3. q \in Int /\ q * BufferSize <= l.stat - Seen(l)
  BY <1>1, <1>2, QuotientFits
<1> HIDE DEF q
<1>4. most \in Nat /\ most >= 1 /\ (most = 1 \/ most = q)
  BY <1>3 DEF Greatest
<1> HIDE DEF most
<1>5. n \in 1..PoolSize /\ n <= most /\ n <= l.blocks
  BY <1>1, <1>4 DEF Least
<1>6. NextRound(l) = [l EXCEPT !.state = "waiting", !.counter = 0, !.blocks = n]
  BY DEF NextRound, n, most, q
<1> HIDE DEF n
<1>7. /\ NextRound(l) \in LoadFields /\ NextRound(l).state = "waiting"
      /\ NextRound(l).counter = 0 /\ NextRound(l).bytes = l.bytes
      /\ NextRound(l).stat = l.stat /\ NextRound(l).offset = l.offset
      /\ NextRound(l).single = l.single /\ NextRound(l).blocks = n
  <2> DEFINE m == [l EXCEPT !.state = "waiting", !.counter = 0, !.blocks = n]
  <2>1. 0 \in 0..PoolSize
    BY <1>1
  <2>2. m \in LoadFields
    BY <1>5, <2>1 DEF LoadFields
  <2>3. /\ m.state = "waiting" /\ m.counter = 0 /\ m.bytes = l.bytes
        /\ m.stat = l.stat /\ m.offset = l.offset
        /\ m.single = l.single /\ m.blocks = n
    BY DEF LoadFields
  <2> QED
    BY <1>6, <2>2, <2>3
<1>8. l.single => n = 1
  BY <1>1, <1>5
<1>9. n = 1 \/ Seen(l) + (n - 0) * BufferSize <= l.stat
  <2>1. CASE most = 1
    BY <1>1, <1>5, <2>1
  <2>2. CASE most = q
    <3>1. n \in Nat /\ q \in Nat /\ n <= q
      BY <1>1, <1>4, <1>5, <2>2
    <3>2. n * BufferSize <= q * BufferSize
      BY <1>1, <3>1, Multiples
    <3>3. n * BufferSize \in Nat /\ q * BufferSize \in Nat /\ n - 0 = n
      BY <1>1, <3>1
    <3> DEFINE nb == n * BufferSize
               qb == q * BufferSize
    <3>4. nb <= qb /\ qb <= l.stat - Seen(l) /\ nb \in Nat /\ qb \in Nat
      BY <1>3, <3>2, <3>3
    <3> HIDE DEF nb, qb
    <3>5. Seen(l) + nb <= l.stat
      BY <1>1, <3>4
    <3> QED
      BY <3>3, <3>5 DEF nb
  <2> QED
    BY <1>4, <2>1, <2>2
<1>10. Fits(NextRound(l))
  <2>1. Seen(NextRound(l)) = Seen(l)
    BY <1>7 DEF Seen
  <2> QED
    BY <1>7, <1>9, <2>1 DEF Fits
<1> QED
  BY <1>7, <1>8, <1>10

\* The first event leaves the stream.
LEMMA DeliverStep ==
  ASSUME FileInv, Deliver
  PROVE  /\ Reading /\ events # <<>> /\ Len(events) >= 1 /\ Head(events) = events[1]
         /\ events[1] \in Result /\ events[1].what \in Results
         /\ Len(events[1].bytes) <= BufferSize /\ events[1].bytes \in Seq(Nat)
         /\ Tail(events) \in Seq(Result) /\ Len(Tail(events)) = Len(events) - 1
         /\ \A i \in 1..Len(Tail(events)) :
              i + 1 \in 1..Len(events) /\ Tail(events)[i] = events[i + 1]
         /\ UNCHANGED <<size, write, chains, writing, cq, batch, ch>>
         /\ IF IsData(events[1])
            THEN OnPayload(events[1].bytes) /\ free' = free + 1
            ELSE OnError(events[1].what) /\ free' = free
<1>1. /\ Listening /\ events # <<>>
      /\ UNCHANGED <<size, write, chains, writing, cq, batch, ch>>
      /\ events \in Seq(Result) /\ Len(events) \in Nat /\ RestInv
  BY FileFacts DEF Deliver
<1>2. Reading
  BY <1>1 DEF RestInv
<1>3. Len(events) >= 1
  BY <1>1, EmptySeq
<1>4. /\ Head(events) = events[1] /\ events[1] \in Result
      /\ Tail(events) \in Seq(Result) /\ Len(Tail(events)) = Len(events) - 1
      /\ \A i \in 1..Len(Tail(events)) : Tail(events)[i] = events[i + 1]
  BY <1>1, <1>3, HeadTailProperties, ElementOfSeq
<1>5. \A i \in 1..Len(Tail(events)) : i + 1 \in 1..Len(events)
  BY <1>1, <1>4
<1>6. 1 \in 1..Len(events)
  BY <1>1, <1>3
<1>7. /\ events[1].what \in Results /\ Len(events[1].bytes) <= BufferSize
      /\ events[1].bytes \in Seq(Nat)
  BY <1>4, <1>6, FieldTypes DEF Result
<1>8. IF IsData(events[1])
      THEN OnPayload(events[1].bytes) /\ free' = free + 1
      ELSE OnError(events[1].what) /\ free' = free
  BY <1>4 DEF Deliver, IsData
<1> QED
  BY <1>1, <1>2, <1>3, <1>4, <1>5, <1>7, <1>8

\* What has to be shown after a delivery.
LEMMA DeliverTypes ==
  ASSUME FileInv, Deliver, load' \in LoadFields, load'.single => load'.blocks = 1,
         events' \in {<<>>, Tail(events)}, free' \in Nat, free' <= PoolSize
  PROVE  FileTypes'
<1>1. /\ Tail(events) \in Seq(Result) /\ Len(Tail(events)) = Len(events) - 1
      /\ \A i \in 1..Len(Tail(events)) :
           i + 1 \in 1..Len(events) /\ Tail(events)[i] = events[i + 1]
      /\ UNCHANGED <<size, write, chains, writing, cq, batch, ch>>
  BY DeliverStep
<1>2. /\ events' \in Seq(Result)
      /\ \A i \in 1..Len(events') : /\ Len(events'[i].bytes) <= BufferSize
                                    /\ events'[i].what \in Results
  <2>1. CASE events' = <<>>
    BY <2>1
  <2>2. CASE events' = Tail(events)
    BY <1>1, <2>2, FieldTypes
  <2> QED
    BY <2>1, <2>2
<1>3. /\ write \in [Writes -> {"idle", "waiting", "issued", "refused"}]
      /\ size \in Nat /\ writing \in Nat /\ cq \in Seq(Result)
      /\ \A a, b \in chains : a = b
      /\ \A c \in chains : ch.pending = c.left + writing + Len(cq)
      /\ chains = {} => ch.pending = writing + Len(cq)
  BY FileFacts DEF TypeOK
<1> HIDE DEF Results
<1> QED
  BY <1>1, <1>2, <1>3, FieldTypes, TypesFrom

\* A load that ends leaves no payload behind, unless it is one of those kept.
LEMMA EndsKeeps ==
  ASSUME FileInv, Deliver, load' \in LoadFields, load'.single => load'.blocks = 1,
         load'.state \in {"done", "failed"}, events' = <<>>,
         free' \in Nat, free' + ch.pending <= PoolSize,
         ~Kept' => /\ free' + ch.pending = PoolSize
                   /\ \A i \in 1..Len(cq) : ~IsData(cq[i])
                   /\ \A c \in chains : c.broken
  PROVE  FileInv'
<1>1. /\ UNCHANGED <<size, write, chains, writing, cq, batch, ch>>
      /\ ch.pending \in Nat /\ PoolSize \in Nat
  BY DeliverStep, FileFacts
<1>2. free' <= PoolSize /\ Len(events') = 0
  BY <1>1
<1>3. FileTypes'
  BY <1>2, DeliverTypes
<1>4. ~Reading'
  BY DEF Reading
<1>5. RestInv' /\ RoundInv' /\ OrderInv' /\ FitsInv'
  BY <1>4 DEF RestInv, RoundInv, OrderInv, FitsInv
<1>6. EndedInv'
  BY <1>1 DEF EndedInv
<1>7. Holds(0)'
  <2>1. free' + ch'.pending + 0 = free' + ch.pending
    BY <1>1
  <2> QED
    BY <1>1, <1>2, <2>1 DEF Holds
<1>8. 0 \in 0..Len(events')
  BY <1>2
<1> QED
  BY <1>3, <1>5, <1>6, <1>7, <1>8 DEF FileInv, HeldInv

\* A result that is not a full payload is the last payload of its round.
LEMMA NothingAfter ==
  ASSUME FileInv, Deliver, ~Full(events[1])
  PROVE  /\ \A i \in 1..Len(events) : IsData(events[i]) => i = 1
         /\ \A i \in 1..Len(cq) : ~IsData(cq[i])
         /\ \A c \in chains : c.broken
<1>1. Reading /\ Len(events) >= 1 /\ Len(events) \in Nat /\ OrderInv
  BY DeliverStep, FileFacts
<1>2. 1 \in 1..Len(events)
  BY <1>1
<1>3. ASSUME NEW i \in 1..Len(events), IsData(events[i]) PROVE i = 1
  <2>1. CASE i > 1
    <3>1. 1 \in 1..(i - 1)
      BY <1>1, <2>1
    <3> QED
      BY <1>1, <1>3, <3>1 DEF OrderInv
  <2> QED
    BY <2>1
<1>4. \A c \in chains : c.broken \in BOOLEAN
  BY FieldTypes DEF Chain
<1> QED
  BY <1>1, <1>2, <1>3, <1>4 DEF OrderInv

\* How many payloads the stream holds before the delivery.
LEMMA PayloadsBefore ==
  ASSUME FileInv, Deliver
  PROVE  \E d \in Nat :
           /\ d <= Len(events) /\ \A i \in 1..Len(events) : IsData(events[i]) <=> i <= d
           /\ free + ch.pending + d <= PoolSize
           /\ ~Kept => free + ch.pending + d = PoolSize
           /\ IsData(events[1]) <=> d >= 1
<1>1. PICK d \in 0..Len(events) : Holds(d)
  BY FileFacts DEF HeldInv
<1>2. 1 \in 1..Len(events) /\ Len(events) \in Nat
  BY DeliverStep, FileFacts
<1> QED
  BY <1>1, <1>2 DEF Holds

LEMMA DeliverErrorKeeps ==
  ASSUME FileInv, Deliver, ~IsData(events[1])
  PROVE  FileInv'
<1>1. /\ free' = free /\ events' = <<>> /\ Reading
      /\ UNCHANGED <<size, write, chains, writing, cq, batch, ch>>
      /\ \E state \in {"done", "failed"} : load' = [load EXCEPT !.state = state]
  BY DeliverStep DEF OnError, Ends
<1>2. load' \in LoadFields /\ (load'.single => load'.blocks = 1)
      /\ load'.state \in {"done", "failed"}
  BY <1>1, FieldTypes, FileFacts DEF LoadFields
<1>3. PICK d \in Nat :
        /\ free + ch.pending + d <= PoolSize
        /\ ~Kept => free + ch.pending + d = PoolSize
        /\ IsData(events[1]) <=> d >= 1
  BY PayloadsBefore
<1>4. d = 0 /\ free \in Nat /\ ch.pending \in Nat /\ PoolSize \in Nat
  BY <1>3, FileFacts
<1>5. Kept => Kept'
  BY <1>1 DEF Kept, ReadsPastTheEnd, Reading, Closing
<1>6. free' + ch.pending <= PoolSize /\ (~Kept' => free' + ch.pending = PoolSize)
  BY <1>1, <1>3, <1>4, <1>5
<1>7. ~Full(events[1])
  BY DEF Full
<1> QED
  BY <1>1, <1>2, <1>4, <1>6, <1>7, NothingAfter, EndsKeeps

\* The call after a payload, before the round is looked at.
Taken == [load EXCEPT !.bytes = @ \o events[1].bytes, !.counter = @ + 1]

LEMMA TakenIs ==
  ASSUME FileInv, Deliver, IsData(events[1])
  PROVE  /\ Taken \in LoadFields /\ Taken.counter = load.counter + 1
         /\ Taken.bytes = load.bytes \o events[1].bytes
         /\ Seen(Taken) = Seen(load) + Len(events[1].bytes)
         /\ Taken.stat = load.stat /\ Taken.offset = load.offset
         /\ Taken.state = "reading" /\ Taken.blocks = load.blocks
         /\ Taken.single = load.single
         /\ load.counter + 1 <= load.blocks
         /\ free' = free + 1
         /\ \/ /\ events[1].bytes = <<>> \/ Seen(Taken) = load.stat
               /\ load' = [Taken EXCEPT !.state = "done"] /\ events' = <<>>
            \/ /\ events[1].bytes # <<>> /\ Seen(Taken) # load.stat
               /\ load.single \/ load.counter + 1 = load.blocks
               /\ load' = NextRound(Taken) /\ events' = Tail(events)
            \/ /\ events[1].bytes # <<>> /\ Seen(Taken) # load.stat
               /\ ~load.single /\ load.counter + 1 # load.blocks
               /\ load' = Taken /\ events' = Tail(events)
<1>1. /\ Reading /\ Len(events) >= 1 /\ Len(events) \in Nat /\ events[1].bytes \in Seq(Nat)
      /\ OnPayload(events[1].bytes) /\ free' = free + 1
      /\ load \in LoadFields /\ load.counter \in Nat /\ load.blocks \in Nat
      /\ load.blocks <= PoolSize /\ PoolSize \in Nat /\ AllReads \in Nat
      /\ load.bytes \in Seq(Nat) /\ RoundInv
  BY DeliverStep, FileFacts, FieldTypes
<1> DEFINE k == load.counter
<1>2. k \in Nat /\ k + Len(events) + AllReads <= load.blocks
  BY <1>1 DEF RoundInv
<1> HIDE DEF k
<1>3. k + 1 <= load.blocks /\ k + 1 \in 0..PoolSize
  BY <1>1, <1>2
<1> DEFINE s == load.bytes \o events[1].bytes
<1>4. s \in Seq(Nat) /\ Len(s) = Len(load.bytes) + Len(events[1].bytes)
  BY <1>1, ConcatProperties
<1>5. Taken = [load EXCEPT !.bytes = s, !.counter = k + 1]
  BY DEF Taken, k
<1> HIDE DEF s
<1>6. /\ Taken \in LoadFields /\ Taken.counter = k + 1 /\ Taken.bytes = s
      /\ Taken.stat = load.stat /\ Taken.offset = load.offset
      /\ Taken.state = load.state /\ Taken.blocks = load.blocks
      /\ Taken.single = load.single
  BY <1>1, <1>3, <1>4, <1>5 DEF LoadFields
<1>7. /\ Taken.state = "reading" /\ Seen(Taken) = Seen(load) + Len(events[1].bytes)
  BY <1>1, <1>4, <1>6 DEF Seen, Reading
<1>8. IF events[1].bytes = <<>> \/ Seen(Taken) = Taken.stat THEN Ends(Taken, "done")
      ELSE IF Taken.single \/ Taken.counter = Taken.blocks THEN GoesOn(NextRound(Taken))
      ELSE GoesOn(Taken)
  BY <1>1 DEF OnPayload, Taken
<1>9. Head(events) = events[1]
  BY DeliverStep
<1>10. \/ /\ events[1].bytes = <<>> \/ Seen(Taken) = load.stat
          /\ load' = [Taken EXCEPT !.state = "done"] /\ events' = <<>>
       \/ /\ events[1].bytes # <<>> /\ Seen(Taken) # load.stat
          /\ load.single \/ k + 1 = load.blocks
          /\ load' = NextRound(Taken) /\ events' = Tail(events)
       \/ /\ events[1].bytes # <<>> /\ Seen(Taken) # load.stat
          /\ ~load.single /\ k + 1 # load.blocks
          /\ load' = Taken /\ events' = Tail(events)
  BY <1>6, <1>8 DEF Ends, GoesOn
<1> QED
  BY <1>1, <1>3, <1>6, <1>7, <1>10 DEF k, s

\* Nothing is left of a round that has all its blocks.
LEMMA LastOfRound ==
  ASSUME FileInv, Deliver, load.counter + 1 = load.blocks
  PROVE  /\ Len(events) = 1 /\ Tail(events) = <<>> /\ chains = {}
         /\ \A i \in 1..Len(cq) : ~IsRead(cq[i])
<1> DEFINE k == load.counter
<1>1. /\ Reading /\ Len(events) >= 1 /\ Len(events) \in Nat /\ k \in Nat
      /\ AllReads \in Nat /\ RoundInv /\ Len(cq) \in Nat
      /\ Tail(events) \in Seq(Result) /\ Len(Tail(events)) = Len(events) - 1
  BY DeliverStep, FileFacts
<1>2. k + Len(events) + AllReads <= k + 1
  BY <1>1 DEF RoundInv
<1>3. ASSUME NEW c \in chains PROVE FALSE
  <2> DEFINE n == c.left
  <2>1. n \in Nat /\ n >= 1 /\ k + Len(events) + AllReads + n <= k + 1
    BY <1>1, FileFacts DEF RoundInv
  <2> HIDE DEF n, k
  <2> QED
    BY <1>1, <2>1
<1> HIDE DEF k
<1>4. Len(events) = 1 /\ AllReads = 0
  BY <1>1, <1>2
<1>5. \A i \in 1..Len(cq) : ~IsRead(cq[i])
  BY <1>1, <1>4, NoReads DEF AllReads
<1>6. Tail(events) = <<>>
  <2>1. Len(Tail(events)) = 0
    BY <1>1, <1>4
  <2> DEFINE t == Tail(events)
  <2>2. t \in Seq(Result) /\ Len(t) = 0
    BY <1>1, <2>1
  <2> HIDE DEF t
  <2>3. t = <<>>
    BY <2>2, EmptySeq
  <2> QED
    BY <2>3 DEF t
<1> QED
  BY <1>3, <1>4, <1>5, <1>6

\* A full payload that completes the size the file had is the last of its
\* round, or the round went beyond the end of the file.
LEMMA FullAtTheEnd ==
  ASSUME FileInv, Deliver, Full(events[1]), Seen(Taken) = load.stat
  PROVE  \/ load.counter + 1 = load.blocks
         \/ /\ load.stat > 0 /\ load.stat % BufferSize = 0
            /\ load.blocks * BufferSize > load.stat
<1> DEFINE k == load.counter
           n == load.blocks
           all == load.stat
           seen == Seen(load)
<1>1. /\ k \in Nat /\ n \in Nat /\ n >= 1 /\ all \in Nat /\ seen \in Nat
      /\ BufferSize \in Nat /\ BufferSize > 0 /\ k + 1 <= n
      /\ all = seen + BufferSize
  BY FileFacts, TakenIs DEF Full
<1>2. /\ \/ seen = k * BufferSize
         \/ n = 1
         \/ seen + (n - k) * BufferSize <= all
  <2>1. 1 \in 1..Len(events) /\ IsData(events[1]) /\ Reading
    BY DeliverStep, FileFacts DEF Full
  <2>2. Fits(load)
    BY <2>1, FileFacts DEF FitsInv, MoreData
  <2> QED
    BY <2>2 DEF Fits
<1> HIDE DEF k, n, all, seen
<1>3. CASE seen = k * BufferSize
  <2>1. k + 1 \in Nat /\ all = (k + 1) * BufferSize
    BY <1>1, <1>3, OneMore
  <2>2. all % BufferSize = 0 /\ all > 0
    <3>1. ((k + 1) * BufferSize) % BufferSize = 0
      BY <1>1, <2>1, MultipleIsWhole
    <3>2. all % BufferSize = 0
      BY <2>1, <3>1
    <3>3. all > 0
      BY <1>1
    <3> QED
      BY <3>2, <3>3
  <2>3. n * BufferSize \in Nat
    BY <1>1
  <2>4. n * BufferSize <= all => n <= k + 1
    BY <1>1, <2>1, Multiples
  <2>5. n * BufferSize <= all => n = k + 1
    BY <1>1, <2>4
  <2> DEFINE nb == n * BufferSize
  <2>6. nb \in Nat /\ (nb <= all => n = k + 1)
    BY <2>3, <2>5
  <2> HIDE DEF nb
  <2>7. n = k + 1 \/ nb > all
    BY <1>1, <2>6
  <2> QED
    BY <2>2, <2>7 DEF nb, k, n, all
<1>4. CASE n = 1
  BY <1>1, <1>4 DEF k, n
<1>5. CASE seen + (n - k) * BufferSize <= all
  <2>1. n - k \in Nat /\ (n - k) * BufferSize \in Nat
    BY <1>1
  <2> DEFINE nb == (n - k) * BufferSize
  <2>2. nb \in Nat /\ seen + nb <= seen + BufferSize
    BY <1>1, <1>5, <2>1
  <2> HIDE DEF nb
  <2>3. nb <= BufferSize
    BY <1>1, <2>2
  <2>4. (n - k) * BufferSize <= 1 * BufferSize
    BY <1>1, <2>3 DEF nb
  <2>5. n - k <= 1
    BY <1>1, <2>1, <2>4, Multiples
  <2>6. k + 1 = n
    BY <1>1, <2>5
  <2> QED
    BY <2>6 DEF k, n
<1> QED
  BY <1>2, <1>3, <1>4, <1>5

LEMMA DeliverLastKeeps ==
  ASSUME FileInv, Deliver, IsData(events[1]),
         load' = [Taken EXCEPT !.state = "done"], events' = <<>>,
         events[1].bytes = <<>> \/ Seen(Taken) = load.stat
  PROVE  FileInv'
<1>1. /\ Taken \in LoadFields /\ Taken.stat = load.stat /\ Taken.blocks = load.blocks
      /\ Taken.single = load.single /\ free' = free + 1
      /\ Reading /\ UNCHANGED <<size, write, chains, writing, cq, batch, ch>>
      /\ load.single => load.blocks = 1
      /\ free \in Nat /\ ch.pending \in Nat /\ PoolSize \in Nat /\ Len(events) \in Nat
      /\ BufferSize \in Nat /\ BufferSize > 0 /\ Len(events) >= 1
  BY TakenIs, DeliverStep, FileFacts
<1>2. /\ load' \in LoadFields /\ load'.state = "done" /\ load'.stat = load.stat
      /\ load'.blocks = load.blocks /\ load'.single = load.single
  BY <1>1 DEF LoadFields
<1>3. Kept => Kept'
  BY <1>1 DEF Kept, ReadsPastTheEnd, Reading
<1>4. PICK d \in Nat :
        /\ d <= Len(events) /\ \A i \in 1..Len(events) : IsData(events[i]) <=> i <= d
        /\ free + ch.pending + d <= PoolSize
        /\ ~Kept => free + ch.pending + d = PoolSize
        /\ IsData(events[1]) <=> d >= 1
  BY PayloadsBefore
<1>5. \/ Kept'
      \/ /\ d = 1 /\ \A i \in 1..Len(cq) : ~IsData(cq[i])
         /\ \A c \in chains : c.broken
  <2>1. CASE ~Full(events[1])
    <3>1. ASSUME d >= 2 PROVE FALSE
      <4>1. 2 \in 1..Len(events) /\ IsData(events[2])
        BY <1>1, <1>4, <3>1
      <4> QED
        BY <2>1, <4>1, NothingAfter
    <3>2. d = 1
      BY <1>4, <3>1
    <3> QED
      BY <2>1, <3>2, NothingAfter
  <2>2. CASE Full(events[1])
    <3>1. events[1].bytes # <<>>
      BY <1>1, <2>2 DEF Full
    <3>2. Seen(Taken) = load.stat
      BY <3>1
    <3>3. CASE load.counter + 1 = load.blocks
      <4>1. /\ Len(events) = 1 /\ chains = {}
            /\ \A i \in 1..Len(cq) : ~IsRead(cq[i])
        BY <3>3, LastOfRound
      <4>2. d = 1
        BY <1>4, <4>1
      <4> QED
        BY <4>1, <4>2 DEF IsRead, IsData
    <3>4. CASE load.counter + 1 # load.blocks
      <4>1. /\ load.stat > 0 /\ load.stat % BufferSize = 0
            /\ load.blocks * BufferSize > load.stat
        BY <2>2, <3>2, <3>4, FullAtTheEnd
      <4>2. ReadsPastTheEnd'
        BY <1>2, <4>1 DEF ReadsPastTheEnd
      <4> QED
        BY <4>2 DEF Kept
    <3> QED
      BY <3>3, <3>4
  <2> QED
    BY <2>1, <2>2
<1> DEFINE p == ch.pending
<1>6. p \in Nat /\ d >= 1 /\ free + p + d <= PoolSize
  BY <1>1, <1>4
<1>7. ~Kept' => d = 1 /\ free + p + d = PoolSize
  BY <1>3, <1>4, <1>5
<1> HIDE DEF p
<1>8. /\ free' \in Nat /\ free' + p <= PoolSize
      /\ ~Kept' => free' + p = PoolSize
  <2>1. free' = free + 1 /\ free \in Nat /\ PoolSize \in Nat
    BY <1>1
  <2>2. free' + p = free + p + 1 /\ free' \in Nat
    BY <1>6, <2>1
  <2>3. free' + p <= PoolSize
    BY <1>6, <2>1, <2>2
  <2>4. ~Kept' => free' + p = PoolSize
    BY <1>7, <2>2
  <2> QED
    BY <2>2, <2>3, <2>4
<1> QED
  BY <1>1, <1>2, <1>5, <1>8, EndsKeeps DEF p

\* The next round waits for its buffers.
LEMMA DeliverRoundKeeps ==
  ASSUME FileInv, Deliver, IsData(events[1]),
         load' = NextRound(Taken), events' = Tail(events),
         load.counter + 1 = load.blocks
  PROVE  FileInv'
<1>1. /\ Taken \in LoadFields /\ Taken.blocks = load.blocks
      /\ Taken.single = load.single /\ free' = free + 1
      /\ Reading /\ UNCHANGED <<size, write, chains, writing, cq, batch, ch>>
      /\ load.single => load.blocks = 1
      /\ free \in Nat /\ ch.pending \in Nat /\ PoolSize \in Nat
      /\ Len(events) = 1 /\ events' = <<>> /\ chains = {}
      /\ \A i \in 1..Len(cq) : ~IsRead(cq[i])
  BY TakenIs, DeliverStep, FileFacts, LastOfRound
<1>2. /\ load' \in LoadFields /\ load'.state = "waiting" /\ load'.counter = 0
      /\ load'.single => load'.blocks = 1
      /\ Fits(load')
  BY <1>1, NextRoundFits
<1>3. PICK d \in Nat :
        /\ d <= Len(events)
        /\ free + ch.pending + d <= PoolSize
        /\ ~Kept => free + ch.pending + d = PoolSize
        /\ IsData(events[1]) <=> d >= 1
  BY PayloadsBefore
<1>4. d = 1
  BY <1>1, <1>3
<1>5. Kept => Kept'
  BY <1>1 DEF Kept, ReadsPastTheEnd, Reading
<1> DEFINE p == ch.pending
<1>6. p \in Nat /\ free + p + 1 <= PoolSize /\ (~Kept => free + p + 1 = PoolSize)
  BY <1>1, <1>3, <1>4
<1> HIDE DEF p
<1>7. /\ free' \in Nat /\ free' <= PoolSize /\ free' + p + 0 <= PoolSize
      /\ ~Kept => free' + p + 0 = PoolSize
  BY <1>1, <1>6
<1>8. HeldInv'
  <2>1. Len(events') = 0
    BY <1>1
  <2>2. \A i \in 1..Len(events') : IsData(events'[i]) <=> i <= 0
    <3> DEFINE n == Len(events')
    <3>1. n = 0
      BY <2>1
    <3> HIDE DEF n
    <3>2. 1..n = {}
      BY <3>1
    <3>3. \A i \in 1..n : IsData(events'[i]) <=> i <= 0
      BY <3>2
    <3> QED
      BY <3>3 DEF n
  <2>3. /\ free' + ch'.pending + 0 <= PoolSize
        /\ ~Kept' => free' + ch'.pending + 0 = PoolSize
    <3>1. ch' = ch
      BY <1>1
    <3>2. free' + ch'.pending + 0 = free' + p + 0
      BY <3>1 DEF p
    <3> QED
      BY <1>5, <1>7, <3>2
  <2>4. Holds(0)'
    BY <2>2, <2>3 DEF Holds
  <2> QED
    BY <2>1, <2>4 DEF HeldInv
<1>9. FileTypes'
  BY <1>1, <1>2, <1>7, DeliverTypes
<1>10. RestInv' /\ RoundInv' /\ OrderInv' /\ FitsInv' /\ EndedInv'
  BY <1>1, <1>2 DEF RestInv, RoundInv, OrderInv, FitsInv, EndedInv, Reading, Fits, Seen
<1> QED
  BY <1>8, <1>9, <1>10 DEF FileInv

\* The round goes on with its next block.
LEMMA DeliverMoreKeeps ==
  ASSUME FileInv, Deliver, IsData(events[1]),
         load' = Taken, events' = Tail(events)
  PROVE  FileInv'
<1> DEFINE k == load.counter
           all == Len(events) + AllReads
<1>1. /\ Taken \in LoadFields /\ Taken.counter = k + 1 /\ Taken.state = "reading"
      /\ Taken.blocks = load.blocks /\ Taken.stat = load.stat
      /\ Taken.single = load.single /\ free' = free + 1
      /\ Seen(Taken) = Seen(load) + Len(events[1].bytes)
  BY TakenIs
<1>2. /\ Reading /\ Len(events) >= 1 /\ Len(events) \in Nat
      /\ Len(events') = Len(events) - 1
      /\ \A i \in 1..Len(events') : i + 1 \in 1..Len(events) /\ events'[i] = events[i + 1]
      /\ 1 \in 1..Len(events)
      /\ UNCHANGED <<size, write, chains, writing, cq, batch, ch>>
  BY DeliverStep, FileFacts
<1>3. /\ load.single => load.blocks = 1
      /\ k \in Nat /\ load.blocks \in Nat /\ load.stat \in Nat /\ AllReads \in Nat
      /\ Seen(load) \in Nat /\ BufferSize \in Nat
      /\ free \in Nat /\ ch.pending \in Nat /\ PoolSize \in Nat
      /\ RoundInv /\ OrderInv /\ FitsInv /\ \A c \in chains : c.left \in Nat
  BY FileFacts
<1>4. Reading' /\ AllReads' = AllReads
  BY <1>1, <1>2 DEF Reading, AllReads, Reads
<1>5. RestInv' /\ EndedInv'
  BY <1>1, <1>4 DEF RestInv, EndedInv, Reading
<1>6. RoundInv'
  <2>1. k + all <= load.blocks /\ all \in Nat
    BY <1>2, <1>3 DEF RoundInv
  <2>2. load'.counter + Len(events') + AllReads' = k + all
    BY <1>1, <1>2, <1>3, <1>4
  <2>3. ASSUME NEW c \in chains
        PROVE  load'.counter + Len(events') + AllReads' + c.left <= load.blocks
    <3> DEFINE n == c.left
    <3>1. n \in Nat /\ k + Len(events) + AllReads + n <= load.blocks
      BY <1>2, <1>3 DEF RoundInv
    <3> HIDE DEF n
    <3>2. k + all + n <= load.blocks
      BY <1>2, <1>3, <3>1
    <3> QED
      BY <2>2, <3>2 DEF n
  <2> HIDE DEF all, k
  <2>4. load'.blocks = load.blocks /\ chains' = chains
    BY <1>1, <1>2
  <2> QED
    BY <2>1, <2>2, <2>3, <2>4 DEF RoundInv
<1>7. OrderInv'
  <2>1. ASSUME NEW i \in 1..Len(events'), IsData(events'[i]), NEW j \in 1..(i - 1)
        PROVE  Full(events'[j])
    <3>1. /\ i + 1 \in 1..Len(events) /\ IsData(events[i + 1])
          /\ j + 1 \in 1..((i + 1) - 1) /\ events'[j] = events[j + 1]
      BY <1>2, <2>1
    <3> QED
      BY <1>2, <1>3, <3>1 DEF OrderInv
  <2>2. (\A j \in 1..Len(events) : Full(events[j])) =>
          \A j \in 1..Len(events') : Full(events'[j])
    BY <1>2
  <2>3. /\ \A i \in 1..Len(cq) : IsData(cq[i]) =>
             /\ \A j \in 1..(i - 1) : IsRead(cq[j]) => Full(cq[j])
             /\ \A j \in 1..Len(events') : Full(events'[j])
        /\ \A c \in chains : ~c.broken =>
             /\ \A j \in 1..Len(cq) : IsRead(cq[j]) => Full(cq[j])
             /\ \A j \in 1..Len(events') : Full(events'[j])
    BY <1>2, <1>3, <2>2 DEF OrderInv
  <2>4. cq' = cq /\ chains' = chains
    BY <1>2
  <2> QED
    BY <2>1, <2>3, <2>4 DEF OrderInv
<1>8. FitsInv'
  <2>1. SUFFICES ASSUME MoreData' PROVE Fits(Taken)
    BY <1>1, <1>4 DEF FitsInv, Reading
  <2>2. Full(events[1])
    <3>1. SUFFICES ASSUME ~Full(events[1]) PROVE FALSE
      OBVIOUS
    <3>2. /\ \A i \in 1..Len(events) : IsData(events[i]) => i = 1
          /\ \A i \in 1..Len(cq) : ~IsData(cq[i])
          /\ \A c \in chains : c.broken
      BY <3>1, NothingAfter
    <3>3. ASSUME NEW i \in 1..Len(events'), IsData(events'[i]) PROVE FALSE
      <4>1. i + 1 = 1
        BY <1>2, <3>2, <3>3
      <4> QED
        BY <4>1
    <3> QED
      BY <1>2, <2>1, <3>2, <3>3 DEF MoreData
  <2>3. Fits(load)
    <3>1. MoreData
      BY <1>2 DEF MoreData
    <3> QED
      BY <1>2, <1>3, <3>1 DEF FitsInv
  <2>4. Seen(Taken) = Seen(load) + BufferSize
    BY <1>1, <2>2 DEF Full
  <2> DEFINE s == Seen(load)
             n == load.blocks
             st == load.stat
             t == Seen(Taken)
  <2>5. /\ \/ s = k * BufferSize \/ n = 1 \/ s + (n - k) * BufferSize <= st
        /\ s \in Nat /\ n \in Nat /\ st \in Nat /\ t = s + BufferSize
    BY <1>3, <2>3, <2>4 DEF Fits
  <2> HIDE DEF s, n, st, t, k
  <2>6. (k + 1) * BufferSize = k * BufferSize + BufferSize
    BY <1>3, OneMore
  <2>7. (n - (k + 1)) * BufferSize + BufferSize = (n - k) * BufferSize
    <3>1. (n - k) \in Int /\ n - (k + 1) = (n - k) - 1
      BY <1>3, <2>5
    <3> QED
      BY <1>3, <3>1, OneMore
  <2>8. /\ (n - (k + 1)) * BufferSize \in Int /\ (n - k) * BufferSize \in Int
        /\ k * BufferSize \in Int
    BY <1>3, <2>5
  <2> DEFINE a == (n - (k + 1)) * BufferSize
             b == (n - k) * BufferSize
  <2>9. a \in Int /\ b \in Int /\ a + BufferSize = b
    BY <2>7, <2>8
  <2>10. s + b <= st => t + a <= st
    <3> HIDE DEF a, b
    <3> QED
      BY <1>3, <2>5, <2>9
  <2>11. t = (k + 1) * BufferSize \/ n = 1 \/ t + a <= st
    BY <2>5, <2>6, <2>10
  <2> QED
    BY <1>1, <2>11 DEF Fits, s, n, st, t, k
<1>9. Kept => Kept'
  BY <1>1, <1>2 DEF Kept, ReadsPastTheEnd, Reading
<1>10. PICK d \in Nat :
        /\ d <= Len(events) /\ \A i \in 1..Len(events) : IsData(events[i]) <=> i <= d
        /\ free + ch.pending + d <= PoolSize
        /\ ~Kept => free + ch.pending + d = PoolSize
        /\ IsData(events[1]) <=> d >= 1
  BY PayloadsBefore
<1> DEFINE p == ch.pending
<1>11. d >= 1 /\ p \in Nat /\ free + p + d <= PoolSize /\ (~Kept => free + p + d = PoolSize)
  BY <1>3, <1>10
<1>12. ch'.pending = p
  BY <1>2
<1> HIDE DEF p
<1>13. /\ free' \in Nat /\ free' <= PoolSize /\ d - 1 \in 0..Len(events')
       /\ free' + p + (d - 1) = free + p + d
  BY <1>1, <1>2, <1>3, <1>10, <1>11
<1>14. HeldInv'
  <2>1. \A i \in 1..Len(events') : IsData(events'[i]) <=> i <= d - 1
    BY <1>2, <1>10
  <2>2. /\ free' + ch'.pending + (d - 1) <= PoolSize
        /\ ~Kept' => free' + ch'.pending + (d - 1) = PoolSize
    BY <1>9, <1>11, <1>12, <1>13
  <2> DEFINE e == d - 1
  <2>3. e \in 0..Len(events')
    BY <1>13
  <2>4. Holds(e)'
    BY <2>1, <2>2 DEF Holds
  <2> HIDE DEF e
  <2> QED
    BY <2>3, <2>4 DEF HeldInv
<1>15. FileTypes'
  BY <1>1, <1>3, <1>13, DeliverTypes
<1> QED
  BY <1>5, <1>6, <1>7, <1>8, <1>14, <1>15 DEF FileInv

LEMMA DeliverKeeps ==
  ASSUME FileInv, Deliver
  PROVE  FileInv'
<1>1. CASE ~IsData(events[1])
  BY <1>1, DeliverErrorKeeps
<1>2. CASE IsData(events[1])
  <2>1. /\ load.counter \in Nat /\ load.blocks \in Nat
        /\ load.single => load.blocks = 1
        /\ load.counter + 1 <= load.blocks
    BY <1>2, FileFacts, TakenIs
  <2>2. load.single => load.counter + 1 = load.blocks
    BY <2>1
  <2> QED
    BY <1>2, <2>2, TakenIs, DeliverLastKeeps, DeliverRoundKeeps, DeliverMoreKeeps
<1> QED
  BY <1>1, <1>2

-----------------------------------------------------------------------------
(* The theorems.                                                           *)

\* The inductive invariant: in every state of a channel, for all values of the
\* constants, a payload follows only full ones, a round keeps to its blocks,
\* and the requests, the stream and the pool account for all buffers.
THEOREM FileInvariant == Spec => []FileInv
<1>1. Init => FileInv
  BY FileInitial
<1>2. FileInv /\ [Next]_vars => FileInv'
  <2> SUFFICES ASSUME FileInv, [Next]_vars PROVE FileInv'
    OBVIOUS
  <2>1. ASSUME NEW w \in Writes, CallWrite(w) PROVE FileInv'
    BY <2>1, QuietSteps
  <2>2. ASSUME NEW w \in Writes, WriteContinues(w) PROVE FileInv'
    BY <2>2, WriteContinuesKeeps
  <2>3. ASSUME NEW blocks \in Blocks, NEW offset \in Offsets, CallLoad(blocks, offset)
        PROVE  FileInv'
    BY <2>3, LoadBeginsKeeps
  <2>4. CASE LoadFile
    BY <2>4, LoadBeginsKeeps
  <2>5. CASE LoadContinues
    BY <2>5, LoadContinuesKeeps
  <2>6. CASE Deliver
    BY <2>6, DeliverKeeps
  <2>7. CASE KernelWrites
    BY <2>7, KernelWritesKeeps
  <2>8. ASSUME NEW chain \in chains, KernelReads(chain) PROVE FileInv'
    BY <2>8, KernelReadsKeeps
  <2>9. CASE Peek
    BY <2>9, QuietSteps
  <2>10. CASE Notify
    BY <2>10, NotifyKeeps
  <2>11. ASSUME NEW gently \in BOOLEAN, CallClose(gently) PROVE FileInv'
    BY <2>11, QuietSteps
  <2>12. CASE GraceTimeout \/ CloserCompleted \/ InboundDrained
    BY <2>12, QuietSteps
  <2>13. CASE UNCHANGED vars
    <3>1. TypeOK'
      <4>1. TypeOK
        BY FileFacts
      <4> QED
        BY <2>13, <4>1 DEF vars, TypeOK
    <3>2. (ch.forced => ~ch.active) /\ (ch.phase = "open" => ch.active)
      BY DEF FileInv, FileTypes
    <3> QED
      BY <2>13, <3>1, <3>2, Untouched DEF vars
  <2> QED
    BY <2>1, <2>2, <2>3, <2>4, <2>5, <2>6, <2>7, <2>8, <2>9, <2>10, <2>11, <2>12, <2>13
    DEF Next, Kernel
<1> QED
  BY <1>1, <1>2, PTL DEF Spec

\* Types, with the counter: _pending is what the kernel and the completion
\* queue hold, so the last completion of a closing channel finds its _closer,
\* and the reads of two rounds are never under way together.
THEOREM FileTypeCorrect == Spec => []TypeOK
<1>1. FileInv => TypeOK
  BY DEF FileInv, FileTypes
<1> QED
  BY <1>1, FileInvariant, PTL

\* When nothing is under way every buffer is in the pool, but for those a
\* refused call keeps and the payload of the read past the end of the file.
THEOREM BuffersReturn == Spec => []BuffersComeBack
<1>1. FileInv => BuffersComeBack
  <2> SUFFICES ASSUME FileInv, NothingUnderWay, ~Kept PROVE free = PoolSize
    BY DEF BuffersComeBack, Kept
  <2>1. PICK d \in 0..Len(events) : Holds(d)
    BY FileFacts DEF HeldInv
  <2>2. d = 0
    BY <2>1 DEF NothingUnderWay
  <2>3. ch.pending = 0
    BY FileFacts DEF TypeOK, NothingUnderWay
  <2>4. free \in Nat /\ PoolSize \in Nat
    BY FileFacts
  <2> QED
    BY <2>1, <2>2, <2>3, <2>4 DEF Holds
<1> QED
  BY <1>1, FileInvariant, PTL

-----------------------------------------------------------------------------
(* What the load has read.                                                 *)

\* A result that ended the round is on its way, or the file is read.
Broken ==
  \/ Reached
  \/ \E j \in 1..Len(events) : Ending(events[j])
  \/ \E j \in 1..Len(cq) : Ending(cq[j])

LEMMA Positions ==
  ASSUME FileInv, NEW n \in Nat
  PROVE  /\ Position(n) \in Nat
         /\ Position(0) = load.offset + Seen(load)
         /\ Position(n + 1) = Position(n) + BufferSize
<1> DEFINE base == load.offset + Seen(load)
<1>1. base \in Nat /\ BufferSize \in Nat
  <2>1. load.offset \in Nat /\ Seen(load) \in Nat
    BY FileFacts
  <2>2. base \in Nat
    BY <2>1
  <2> QED
    BY <2>2, FileFacts
<1>2. n * BufferSize \in Nat /\ 0 * BufferSize = 0
  BY <1>1
<1>3. (n + 1) * BufferSize = n * BufferSize + BufferSize
  BY <1>1, OneMore
<1> HIDE DEF base
<1>4. /\ base + n * BufferSize \in Nat /\ base + 0 * BufferSize = base
      /\ base + (n + 1) * BufferSize = (base + n * BufferSize) + BufferSize
  BY <1>1, <1>2, <1>3
<1> QED
  BY <1>4 DEF Position, base

LEMMA ContentInitial == Init => ContentInv
<1> SUFFICES ASSUME Init PROVE ContentInv
  OBVIOUS
<1>1. load.state = "idle" /\ load.bytes = <<>>
  BY DEF Init
<1>2. DOMAIN load.bytes = {}
  BY <1>1
<1> QED
  BY <1>1, <1>2 DEF ContentInv, LoadReturnsFile, StreamInv, QueueInv, Reading

\* The steps that move nothing.
LEMMA ContentUntouched ==
  ASSUME FileInv, ContentInv, UNCHANGED <<load, chains, cq, events>>,
         size' = size, ch'.active => ch.active
  PROVE  ContentInv'
<1>1. LoadReturnsFile' /\ (load'.state # "idle" => load'.stat <= size')
  BY DEF ContentInv, LoadReturnsFile, Seen
<1>2. StreamInv'
  BY DEF ContentInv, StreamInv, Reading, Position, Seen, Continues, Reached
<1>3. QueueInv'
  BY DEF ContentInv, QueueInv, Reading, Position, Seen, Continues, Reached, AllReads
<1> QED
  BY <1>1, <1>2, <1>3 DEF ContentInv

LEMMA ContentQuiet ==
  ASSUME FileInv, ContentInv,
         \/ \E w \in Writes : CallWrite(w) \/ WriteContinues(w)
         \/ Peek \/ GraceTimeout \/ CloserCompleted \/ InboundDrained
         \/ \E gently \in BOOLEAN : CallClose(gently)
         \/ UNCHANGED vars
  PROVE  ContentInv'
<1>1. ch \in ChannelFields
  BY FieldTypes
<1>2. /\ UNCHANGED <<load, chains, cq, events>> /\ size' = size
      /\ ch'.active => ch.active
  BY <1>1 DEF ChannelFields, CallWrite, WriteContinues, Peek, GraceTimeout, CloserCompleted,
              InboundDrained, CallClose, Cancelling, Finishing, vars
<1> QED
  BY <1>2, ContentUntouched

LEMMA CallLoadIs ==
  ASSUME FileInv, NEW blocks \in Blocks, NEW offset \in Offsets, CallLoad(blocks, offset)
  PROVE  /\ load.state = "idle" /\ size' = size /\ load'.state = "stat"
         /\ load'.bytes = load.bytes /\ load'.stat = size
<1>1. load \in LoadFields
  BY FieldTypes
<1> DEFINE one == (blocks = 1)
<1>2. /\ load.state = "idle" /\ size' = size
      /\ load' = [load EXCEPT !.state = "stat", !.stat = size, !.offset = offset,
                              !.single = one, !.blocks = blocks]
  BY DEF CallLoad
<1> HIDE DEF one
<1> QED
  BY <1>1, <1>2 DEF LoadFields

\* The load begins with nothing read, from the size the file has.
LEMMA ContentBegins ==
  ASSUME FileInv, ContentInv,
         \/ \E blocks \in Blocks, offset \in Offsets : CallLoad(blocks, offset)
         \/ LoadFile
  PROVE  ContentInv'
<1>1. /\ load \in LoadFields /\ size \in Nat /\ RestInv
  BY FieldTypes, FileFacts
<1>2. /\ load.state \in {"idle", "stat"} /\ size' = size
      /\ load'.state \in {"stat", "waiting"} /\ load'.bytes = load.bytes
      /\ load.state = "idle" => load'.stat = size
      /\ load.state # "idle" => load'.stat = load.stat
  <2>1. CASE LoadFile
    BY <1>1, <2>1 DEF LoadFields, LoadFile
  <2>2. ASSUME NEW blocks \in Blocks, NEW offset \in Offsets, CallLoad(blocks, offset)
        PROVE  /\ load.state = "idle" /\ size' = size /\ load'.state = "stat"
               /\ load'.bytes = load.bytes /\ load'.stat = size
    BY <2>2, CallLoadIs
  <2> QED
    BY <2>1, <2>2
<1>3. Len(load.bytes) = 0 /\ load.bytes \in Seq(Nat)
  BY <1>1, <1>2 DEF RestInv, Seen, LoadFields
<1>4. DOMAIN load'.bytes = {}
  BY <1>2, <1>3
<1>5. LoadReturnsFile'
  BY <1>2, <1>4 DEF LoadReturnsFile
<1>6. load'.stat <= size'
  BY <1>1, <1>2 DEF ContentInv
<1> QED
  BY <1>2, <1>5, <1>6 DEF ContentInv, StreamInv, QueueInv, Reading

\* A round begins where the listener has got to.
LEMMA ContentRound ==
  ASSUME FileInv, ContentInv, LoadContinues
  PROVE  ContentInv'
<1>1. /\ load.state = "waiting" /\ size' = size /\ cq' = cq /\ load \in LoadFields
      /\ RestInv /\ Len(cq) \in Nat
  BY FieldTypes, FileFacts DEF LoadContinues
<1>2. /\ chains = {} /\ events = <<>> /\ \A i \in 1..Len(cq) : ~IsRead(cq[i])
  BY <1>1 DEF RestInv, Reading
<1>3. CASE Closing
  <2>1. load' = [load EXCEPT !.state = "failed"]
    BY <1>3 DEF LoadContinues
  <2>2. /\ load'.state = "failed" /\ load'.bytes = load.bytes
        /\ load'.offset = load.offset /\ load'.stat = load.stat
    BY <1>1, <2>1 DEF LoadFields
  <2> QED
    BY <1>1, <2>2 DEF ContentInv, LoadReturnsFile, StreamInv, QueueInv, Reading
<1>4. CASE ~Closing
  <2> DEFINE c == [at |-> NextOffset(load), left |-> load.blocks, broken |-> FALSE]
  <2>1. load' = [load EXCEPT !.state = "reading"] /\ events' = events /\ chains' = {c}
    BY <1>2, <1>4 DEF LoadContinues, IssueReads
  <2>2. /\ load'.state = "reading" /\ load'.bytes = load.bytes
        /\ load'.offset = load.offset /\ load'.stat = load.stat
    BY <1>1, <2>1 DEF LoadFields
  <2>3. ~c.broken /\ c.at = load.offset + Seen(load)
    BY DEF NextOffset
  <2> HIDE DEF c
  <2>4. Len(events') = 0 /\ AllReads' = 0
    <3>1. Reads(cq, Len(cq)) = 0
      BY <1>1, <1>2, NoReads
    <3> QED
      BY <1>1, <1>2, <2>1, <3>1 DEF AllReads
  <2>5. c.at = Position(Len(events) + AllReads)'
    <3>1. 0 \in Nat /\ Position(0) = load.offset + Seen(load)
      BY Positions
    <3>2. Position(0)' = Position(0)
      BY <2>2 DEF Position, Seen
    <3>3. (Len(events) + AllReads)' = 0
      BY <2>4
    <3>4. Position(Len(events) + AllReads)' = Position(0)'
      BY <3>3 DEF Position
    <3> QED
      BY <2>3, <3>1, <3>2, <3>4
  <2>6. StreamInv'
    BY <1>2, <2>1 DEF StreamInv
  <2>7. QueueInv'
    <3>1. \A i \in 1..Len(cq') : ~IsData(cq'[i]) /\ cq'[i].what # "canceled"
      BY <1>1, <1>2 DEF IsRead, IsData
    <3> QED
      BY <2>1, <2>3, <2>5, <3>1 DEF QueueInv
  <2>8. LoadReturnsFile' /\ load'.stat <= size'
    BY <1>1, <2>2 DEF ContentInv, LoadReturnsFile
  <2> QED
    BY <2>6, <2>7, <2>8 DEF ContentInv
<1> QED
  BY <1>3, <1>4

\* A completion that continues where the queue ends, or follows one that has
\* ended the round.
LEMMA ContentPost ==
  ASSUME FileInv, ContentInv, NEW r \in Result, Post(r),
         UNCHANGED <<load, events, ch>>, size' \in Nat, size' >= size,
         Reading /\ ch.active =>
           /\ IsData(r) => Continues(r, Position(Len(events) + AllReads))
           /\ r.what = "canceled" => Broken
           /\ \A c \in chains' :
                IF c.broken THEN Broken \/ Ending(r)
                ELSE c.at = Position(Len(events) + AllReads + IF IsRead(r) THEN 1 ELSE 0)
  PROVE  ContentInv'
<1>1. /\ Len(cq') = Len(cq) + 1 /\ \A i \in 1..Len(cq) : cq'[i] = cq[i]
      /\ cq'[Len(cq) + 1] = r /\ Len(cq) \in Nat
      /\ \A n \in 0..Len(cq) : Reads(cq, n)' = Reads(cq, n)
      /\ AllReads' = AllReads + IF IsRead(r) THEN 1 ELSE 0
      /\ Len(events) \in Nat /\ AllReads \in Nat
  BY PostAdds, FileFacts
<1>2. LoadReturnsFile' /\ (load'.state # "idle" => load'.stat <= size')
  <2>1. load.state # "idle" => load.stat <= size
    BY DEF ContentInv
  <2>2. load.stat \in Nat /\ size \in Nat
    BY FileFacts
  <2> QED
    BY <2>1, <2>2 DEF ContentInv, LoadReturnsFile, Seen
<1>3. StreamInv'
  BY DEF ContentInv, StreamInv, Reading, Position, Seen, Continues, Reached
<1>4. QueueInv'
  <2>1. SUFFICES ASSUME Reading, ch.active PROVE QueueInv'
    BY DEF QueueInv, Reading
  <2>2. QueueInv
    BY DEF ContentInv
  <2>3. Reached' = Reached /\ events' = events
    BY DEF Reached, Seen
  <2>4. \A n : Position(n)' = Position(n)
    BY DEF Position, Seen
  <2>5. \A q, n : Continues(q, n)' = Continues(q, n)
    BY DEF Continues
  <2>6. ASSUME Broken \/ Ending(r)
        PROVE  \/ Reached \/ \E j \in 1..Len(events) : Ending(events[j])
               \/ \E j \in 1..Len(cq') : Ending(cq'[j])
    BY <1>1, <2>6 DEF Broken
  <2>7. ASSUME NEW i \in 1..Len(cq')
        PROVE  /\ IsData(cq'[i]) =>
                    Continues(cq'[i], Position(Len(events) + Reads(cq', i - 1)))
               /\ cq'[i].what = "canceled" =>
                    \/ Reached \/ \E j \in 1..Len(events) : Ending(events[j])
                    \/ \E j \in 1..(i - 1) : Ending(cq'[j])
    <3>1. CASE i \in 1..Len(cq)
      <4> DEFINE n == Len(cq)
      <4>1. i - 1 \in 0..Len(cq) /\ \A j \in 1..(i - 1) : cq'[j] = cq[j]
        <5>1. n \in Nat /\ i \in 1..n
          BY <1>1, <3>1
        <5> HIDE DEF n
        <5>2. i - 1 \in 0..n /\ \A j \in 1..(i - 1) : j \in 1..n
          BY <5>1
        <5> QED
          BY <1>1, <5>2 DEF n
      <4>2. Reads(cq', i - 1) = Reads(cq, i - 1) /\ cq'[i] = cq[i]
        BY <1>1, <3>1, <4>1
      <4> QED
        BY <2>1, <2>2, <3>1, <4>1, <4>2 DEF QueueInv
    <3>2. CASE i = Len(cq) + 1
      <4>1. i - 1 = Len(cq) /\ cq'[i] = r /\ Len(cq) \in 0..Len(cq)
        BY <1>1, <3>2
      <4>2. Reads(cq', i - 1) = AllReads
        BY <1>1, <4>1 DEF AllReads
      <4>3. IsData(cq'[i]) => Continues(cq'[i], Position(Len(events) + Reads(cq', i - 1)))
        BY <2>1, <4>1, <4>2
      <4>4. (\E j \in 1..Len(cq) : Ending(cq[j])) =>
              \E j \in 1..(i - 1) : Ending(cq'[j])
        BY <1>1, <4>1
      <4> QED
        BY <2>1, <4>1, <4>3, <4>4 DEF Broken
    <3> QED
      BY <1>1, <3>1, <3>2
  <2>8. ASSUME NEW c \in chains'
        PROVE  IF c.broken
               THEN \/ Reached \/ \E j \in 1..Len(events) : Ending(events[j])
                    \/ \E j \in 1..Len(cq') : Ending(cq'[j])
               ELSE c.at = Position(Len(events) + AllReads')
    <3>1. Len(events) + AllReads' = Len(events) + AllReads + IF IsRead(r) THEN 1 ELSE 0
      BY <1>1
    <3> QED
      BY <2>1, <2>6, <3>1
  <2> QED
    BY <2>3, <2>4, <2>5, <2>7, <2>8 DEF QueueInv
<1> QED
  BY <1>2, <1>3, <1>4 DEF ContentInv

LEMMA ContentWrites ==
  ASSUME FileInv, ContentInv, KernelWrites
  PROVE  ContentInv'
<1> DEFINE r == Without("write")
<1>1. r \in Result /\ ~IsRead(r) /\ ~IsData(r) /\ r.what = "write"
  <2>1. <<>> \in Seq(Nat)
    OBVIOUS
  <2> QED
    BY <2>1 DEF Without, Result, IsRead, IsData
<1>2. Post(r) /\ UNCHANGED <<load, chains, events, ch>> /\ ContentInv
  BY DEF KernelWrites
<1>3. size' \in Nat /\ size' >= size
  <2>1. PICK n \in 0..BufferSize : size' = size + n
    BY DEF KernelWrites
  <2>2. size \in Nat /\ BufferSize \in Nat
    BY FileFacts
  <2>3. n \in Nat
    BY <2>2
  <2> QED
    BY <2>1, <2>2, <2>3
<1>4. Len(events) + AllReads + 0 = Len(events) + AllReads
  BY FileFacts
<1> HIDE DEF r
<1>5. ASSUME Reading, ch.active, NEW c \in chains'
      PROVE  IF c.broken THEN Broken \/ Ending(r)
             ELSE c.at = Position(Len(events) + AllReads + IF IsRead(r) THEN 1 ELSE 0)
  <2>1. c \in chains
    BY <1>2, <1>5
  <2> QED
    BY <1>1, <1>2, <1>4, <1>5, <2>1 DEF ContentInv, QueueInv, Broken
<1> QED
  BY <1>1, <1>2, <1>3, <1>5, ContentPost

\* A read finds what comes after the reads before it, while none of them was
\* short; what follows a short one or an error is cancelled.
LEMMA ContentReads ==
  ASSUME FileInv, ContentInv, WithinLimit, NEW chain \in chains, KernelReads(chain)
  PROVE  ContentInv'
<1>1. PICK r \in Result, broken \in BOOLEAN :
        /\ Post(r) /\ IsRead(r)
        /\ chains' = (chains \ {chain}) \cup Rest(chain, broken)
        /\ \/ chain.broken /\ broken /\ r.what = "canceled"
           \/ /\ ~chain.broken /\ r = Content(chain.at) /\ IsData(r)
              /\ broken = (Len(r.bytes) < BufferSize)
           \/ ~chain.broken /\ broken /\ r.what = "error"
           \/ ~chain.broken /\ broken /\ r.what = "canceled" /\ ch.forced
  BY ReadEnds
<1>2. /\ UNCHANGED <<size, load, events, ch>> /\ size \in Nat /\ load.stat \in Nat
      /\ \A a, b \in chains : a = b
      /\ chain.at \in Nat /\ Len(events) + AllReads \in Nat /\ BufferSize \in Nat
      /\ Len(r.bytes) \in Nat /\ chain.at < OffsetLimit
      /\ ch.forced => ~ch.active
  <2>1. UNCHANGED <<size, load, events, ch>>
    BY DEF KernelReads
  <2>2. Len(r.bytes) \in Nat
    BY LenProperties DEF Result
  <2>3. Len(events) \in Nat /\ AllReads \in Nat
    BY FileFacts
  <2>4. chain.at < OffsetLimit
    BY DEF WithinLimit
  <2>5. Len(events) + AllReads \in Nat
    BY <2>3
  <2> QED
    BY <2>1, <2>2, <2>4, <2>5, FileFacts, FieldTypes
<1>3. ASSUME Reading, ch.active
      PROVE  /\ IsData(r) => Continues(r, Position(Len(events) + AllReads))
             /\ r.what = "canceled" => Broken
             /\ \A c \in chains' :
                  IF c.broken THEN Broken \/ Ending(r)
                  ELSE c.at = Position(Len(events) + AllReads + IF IsRead(r) THEN 1 ELSE 0)
  <2>1. IF chain.broken THEN Broken ELSE chain.at = Position(Len(events) + AllReads)
    BY <1>3 DEF ContentInv, QueueInv, Broken
  <2>2. load.stat <= size
    BY <1>3 DEF ContentInv, Reading
  <2>3. ASSUME IsData(r)
        PROVE  /\ ~chain.broken /\ broken = (Len(r.bytes) < BufferSize)
               /\ Continues(r, chain.at)
    <3>1. ~chain.broken /\ r = Content(chain.at) /\ broken = (Len(r.bytes) < BufferSize)
      BY <1>1, <2>3 DEF IsData
    <3>2. /\ \A k \in 1..Len(r.bytes) : r.bytes[k] = chain.at + k
          /\ Len(r.bytes) < BufferSize => chain.at + Len(r.bytes) >= size
      BY <1>2, <3>1, ContentIs
    <3>3. Len(r.bytes) < BufferSize => chain.at + Len(r.bytes) >= load.stat
      <4> DEFINE n == Len(r.bytes)
                 at == chain.at
      <4>1. n \in Nat /\ at \in Nat /\ (n < BufferSize => at + n >= size)
        BY <1>2, <3>2
      <4> HIDE DEF n, at
      <4>2. n < BufferSize => at + n >= load.stat
        BY <1>2, <2>2, <4>1
      <4> QED
        BY <4>2 DEF n, at
    <3> QED
      BY <3>1, <3>2, <3>3 DEF Continues
  <2>4. r.what = "canceled" => chain.broken
    BY <1>1, <1>2, <1>3 DEF IsData
  <2>5. ASSUME NEW c \in chains'
        PROVE  IF c.broken THEN Broken \/ Ending(r)
               ELSE c.at = Position(Len(events) + AllReads + IF IsRead(r) THEN 1 ELSE 0)
    <3>1. c.broken = broken /\ c.at = chain.at + BufferSize
      <4>1. chains \ {chain} = {}
        BY <1>2
      <4>2. c \in Rest(chain, broken)
        BY <1>1, <2>5, <4>1
      <4>3. c = [at |-> chain.at + BufferSize, left |-> chain.left - 1, broken |-> broken]
        BY <4>2 DEF Rest
      <4> QED
        BY <4>3
    <3>2. CASE broken
      <4>1. chain.broken \/ Ending(r)
        <5>1. Len(r.bytes) < BufferSize => Len(r.bytes) # BufferSize
          BY <1>2
        <5>2. CASE IsData(r)
          BY <2>3, <3>2, <5>1, <5>2 DEF Ending, Full
        <5>3. CASE ~IsData(r) /\ ~chain.broken
          <6>1. r.what = "error"
            BY <1>1, <1>2, <1>3, <5>3
          <6> QED
            BY <6>1 DEF Ending
        <5> QED
          BY <5>2, <5>3
      <4> QED
        BY <2>1, <3>1, <3>2, <4>1
    <3>3. CASE ~broken
      <4>1. IsData(r) /\ ~chain.broken
        BY <1>1, <3>3
      <4>2. chain.at = Position(Len(events) + AllReads)
        BY <2>1, <4>1
      <4>3. Position(Len(events) + AllReads + 1) = Position(Len(events) + AllReads) + BufferSize
        BY <1>2, Positions
      <4> QED
        BY <1>1, <3>1, <3>3, <4>2, <4>3
    <3> QED
      BY <3>2, <3>3
  <2> QED
    BY <2>1, <2>3, <2>4, <2>5
<1>4. size' \in Nat /\ size' >= size
  BY <1>2
<1> QED
  BY <1>1, <1>2, <1>3, <1>4, ContentPost

\* A result goes from the queue to the stream: it keeps its place.
LEMMA ContentNotify ==
  ASSUME FileInv, ContentInv, Notify
  PROVE  ContentInv'
<1> DEFINE h == cq[1]
           added == ch.active /\ IsRead(h) /\ Reading
           one == IF IsRead(h) THEN 1 ELSE 0
<1>1. /\ cq # <<>> /\ cq' = Tail(cq) /\ (ch'.active => ch.active)
      /\ UNCHANGED <<size, load, chains>>
      /\ events' = IF added THEN Append(events, h) ELSE events
  BY NotifyStep
<1>2. /\ Len(cq) >= 1 /\ Len(cq') = Len(cq) - 1
      /\ \A i \in 1..Len(cq') : i + 1 \in 1..Len(cq) /\ cq'[i] = cq[i + 1]
      /\ \A n \in 0..(Len(cq) - 1) : Reads(cq', n) = Reads(cq, n + 1) - one
      /\ AllReads' = AllReads - one
  BY <1>1, TakeOff
<1>3. /\ Len(events) \in Nat /\ events \in Seq(Result) /\ Len(cq) \in Nat
      /\ AllReads \in Nat
  BY FileFacts
<1>4. /\ added => /\ Len(events') = Len(events) + 1
                  /\ \A i \in 1..Len(events) : events'[i] = events[i]
                  /\ events'[Len(events) + 1] = h
      /\ ~added => events' = events
  BY <1>1, <1>2, <1>3, AppendProperties
<1>5. \A i \in 1..Len(events') :
        \/ i \in 1..Len(events) /\ events'[i] = events[i]
        \/ added /\ i = Len(events) + 1 /\ events'[i] = h
  BY <1>3, <1>4
<1>6. 1 \in 1..Len(cq) /\ 0 \in 0..Len(cq) /\ 1 - 1 = 0
  BY <1>2, <1>3
<1>7. Reading' = Reading /\ Reached' = Reached
  BY <1>1 DEF Reading, Reached, Seen
<1>8. \A n : Position(n)' = Position(n)
  BY <1>1 DEF Position, Seen
<1>9. \A q, n : Continues(q, n)' = Continues(q, n)
  BY <1>1 DEF Continues
<1>10. LoadReturnsFile' /\ (load'.state # "idle" => load'.stat <= size')
  BY <1>1 DEF ContentInv, LoadReturnsFile, Seen
<1>11. SUFFICES ASSUME Reading PROVE StreamInv' /\ QueueInv'
  BY <1>7, <1>10 DEF ContentInv, StreamInv, QueueInv
<1>12. StreamInv
  BY DEF ContentInv
<1>13. ch.active =>
         /\ IsData(h) => Continues(h, Position(Len(events)))
         /\ h.what = "canceled" => Reached \/ \E j \in 1..Len(events) : Ending(events[j])
  <2>1. SUFFICES ASSUME ch.active
        PROVE  /\ IsData(h) => Continues(h, Position(Len(events)))
               /\ h.what = "canceled" => Reached \/ \E j \in 1..Len(events) : Ending(events[j])
    OBVIOUS
  <2>2. /\ IsData(h) => Continues(h, Position(Len(events) + Reads(cq, 1 - 1)))
        /\ h.what = "canceled" =>
             \/ Reached \/ \E j \in 1..Len(events) : Ending(events[j])
             \/ \E j \in 1..(1 - 1) : Ending(cq[j])
    BY <1>6, <1>11, <2>1 DEF ContentInv, QueueInv
  <2>3. Reads(cq, 1 - 1) = 0
    BY <1>6, NoReads
  <2>4. Len(events) + Reads(cq, 1 - 1) = Len(events)
    BY <1>3, <2>3
  <2>5. \A j \in 1..(1 - 1) : FALSE
    OBVIOUS
  <2> QED
    BY <2>2, <2>4, <2>5
<1> HIDE DEF h
<1>14. StreamInv'
  <2>1. ASSUME NEW i \in 1..Len(events')
        PROVE  /\ IsData(events'[i]) => Continues(events'[i], Position(i - 1))
               /\ events'[i].what = "canceled" =>
                    Reached \/ \E j \in 1..(i - 1) : Ending(events'[j])
    <3>1. CASE i \in 1..Len(events) /\ events'[i] = events[i]
      <4>1. \A j \in 1..(i - 1) : j \in 1..Len(events) /\ events'[j] = events[j]
        BY <1>3, <1>4, <3>1
      <4> QED
        BY <1>11, <1>12, <3>1, <4>1 DEF StreamInv
    <3>2. CASE added /\ i = Len(events) + 1 /\ events'[i] = h
      <4>1. i - 1 = Len(events) /\ ch.active
        BY <1>3, <3>2
      <4>2. \A j \in 1..Len(events) : events'[j] = events[j]
        BY <1>4, <3>2
      <4> QED
        BY <1>13, <3>2, <4>1, <4>2
    <3> QED
      BY <1>5, <2>1, <3>1, <3>2
  <2> HIDE DEF added
  <2> QED
    BY <1>7, <1>8, <1>9, <2>1 DEF StreamInv
<1>15. QueueInv'
  <2>1. SUFFICES ASSUME ch'.active, ch.active PROVE QueueInv'
    BY <1>1 DEF QueueInv
  <2>2. QueueInv
    BY DEF ContentInv
  <2>3. added <=> IsRead(h)
    BY <1>11, <2>1
  <2> HIDE DEF added
  <2>4. Len(events') = Len(events) + one
    BY <1>3, <1>4, <2>3
  <2>5. Ending(h) => IsRead(h)
    BY DEF Ending, IsRead, IsData
  <2>6. (\E j \in 1..Len(events) : Ending(events[j])) \/ Ending(h) =>
          \E j \in 1..Len(events') : Ending(events'[j])
    <3>1. \A j \in 1..Len(events) : j \in 1..Len(events') /\ events'[j] = events[j]
      BY <1>3, <1>4, <2>4
    <3>2. Ending(h) => /\ Len(events) + 1 \in 1..Len(events')
                       /\ events'[Len(events) + 1] = h
      BY <1>3, <1>4, <2>3, <2>5
    <3> QED
      BY <3>1, <3>2
  <2>7. ASSUME NEW i \in 1..Len(cq')
        PROVE  /\ IsData(cq'[i]) =>
                    Continues(cq'[i], Position(Len(events') + Reads(cq', i - 1)))
               /\ cq'[i].what = "canceled" =>
                    \/ Reached \/ \E j \in 1..Len(events') : Ending(events'[j])
                    \/ \E j \in 1..(i - 1) : Ending(cq'[j])
    <3>1. i + 1 \in 1..Len(cq) /\ cq'[i] = cq[i + 1] /\ i - 1 \in 0..(Len(cq) - 1)
          /\ (i - 1) + 1 = i /\ (i + 1) - 1 = i /\ i \in Nat
      BY <1>2, <1>3, <2>7
    <3>2. Reads(cq', i - 1) = Reads(cq, i) - one
      BY <1>2, <3>1
    <3>3. Reads(cq, i) \in Nat
      BY <3>1, ReadsType
    <3>4. Len(events') + Reads(cq', i - 1) = Len(events) + Reads(cq, i)
      BY <1>3, <2>4, <3>2, <3>3
    <3>5. /\ IsData(cq[i + 1]) => Continues(cq[i + 1], Position(Len(events) + Reads(cq, i)))
          /\ cq[i + 1].what = "canceled" =>
               \/ Reached \/ \E j \in 1..Len(events) : Ending(events[j])
               \/ \E j \in 1..i : Ending(cq[j])
      BY <1>11, <2>1, <2>2, <3>1 DEF QueueInv
    <3>6. ASSUME NEW j \in 1..i, Ending(cq[j])
          PROVE  \/ \E k \in 1..Len(events') : Ending(events'[k])
                 \/ \E k \in 1..(i - 1) : Ending(cq'[k])
      <4>1. CASE j = 1
        BY <2>6, <3>6, <4>1 DEF h
      <4>2. CASE j > 1
        <5>1. j - 1 \in 1..(i - 1) /\ j - 1 \in 1..Len(cq') /\ (j - 1) + 1 = j
          BY <1>2, <1>3, <3>1, <4>2
        <5>2. cq'[j - 1] = cq[j]
          BY <1>2, <5>1
        <5> QED
          BY <3>6, <5>1, <5>2
      <4> QED
        BY <4>1, <4>2
    <3> QED
      BY <2>6, <3>1, <3>4, <3>5, <3>6
  <2>8. ASSUME NEW c \in chains
        PROVE  IF c.broken
               THEN \/ Reached \/ \E j \in 1..Len(events') : Ending(events'[j])
                    \/ \E j \in 1..Len(cq') : Ending(cq'[j])
               ELSE c.at = Position(Len(events') + AllReads')
    <3>1. IF c.broken
          THEN \/ Reached \/ \E j \in 1..Len(events) : Ending(events[j])
               \/ \E j \in 1..Len(cq) : Ending(cq[j])
          ELSE c.at = Position(Len(events) + AllReads)
      BY <1>11, <2>1, <2>2 DEF QueueInv
    <3>2. Len(events') + AllReads' = Len(events) + AllReads
      <4>1. /\ AllReads' = AllReads - one /\ Len(events') = Len(events) + one
            /\ one \in 0..1
        BY <1>2, <2>4
      <4> HIDE DEF one
      <4> QED
        BY <1>3, <4>1
    <3>3. ASSUME NEW j \in 1..Len(cq), Ending(cq[j])
          PROVE  \/ \E k \in 1..Len(events') : Ending(events'[k])
                 \/ \E k \in 1..Len(cq') : Ending(cq'[k])
      <4>1. CASE j = 1
        BY <2>6, <3>3, <4>1 DEF h
      <4>2. CASE j > 1
        <5>1. j - 1 \in 1..Len(cq') /\ (j - 1) + 1 = j
          BY <1>2, <1>3, <4>2
        <5>2. cq'[j - 1] = cq[j]
          BY <1>2, <5>1
        <5> QED
          BY <3>3, <5>1, <5>2
      <4> QED
        BY <4>1, <4>2
    <3> QED
      BY <2>6, <3>1, <3>2, <3>3
  <2> HIDE DEF one
  <2> QED
    BY <1>1, <1>7, <1>8, <1>9, <2>7, <2>8 DEF QueueInv
<1> QED
  BY <1>14, <1>15

\* A payload is taken where it belongs.
LEMMA TakenContinues ==
  ASSUME FileInv, ContentInv, Deliver, IsData(events[1])
  PROVE  /\ \A i \in DOMAIN Taken.bytes : Taken.bytes[i] = load.offset + i
         /\ load.offset + Seen(Taken) = load.offset + Seen(load) + Len(events[1].bytes)
         /\ Len(events[1].bytes) < BufferSize =>
              load.offset + Seen(Taken) >= load.stat
<1> DEFINE s == load.bytes
           t == events[1].bytes
           o == load.offset
<1>1. /\ s \in Seq(Nat) /\ t \in Seq(Nat) /\ o \in Nat
      /\ Taken.bytes = s \o t /\ Seen(Taken) = Seen(load) + Len(t)
      /\ Seen(load) = Len(s) /\ Reading /\ 1 \in 1..Len(events)
  <2>1. Seen(load) = Len(s)
    BY DEF Seen
  <2>2. Len(events) \in Nat /\ Len(events) >= 1
    BY FileFacts, DeliverStep
  <2>3. 1 \in 1..Len(events)
    BY <2>2
  <2> QED
    BY <2>1, <2>3, FileFacts, TakenIs, DeliverStep
<1>2. \A i \in DOMAIN s : s[i] = o + i
  BY DEF ContentInv, LoadReturnsFile
<1>3. Continues(events[1], Position(1 - 1))
  BY <1>1 DEF ContentInv, StreamInv
<1>4. Position(1 - 1) = o + Len(s)
  <2>1. 0 \in Nat /\ 1 - 1 = 0
    OBVIOUS
  <2>2. Position(0) = load.offset + Seen(load)
    BY <2>1, Positions
  <2> QED
    BY <1>1, <2>1, <2>2
<1>5. /\ \A k \in 1..Len(t) : t[k] = (o + Len(s)) + k
      /\ Len(t) < BufferSize => (o + Len(s)) + Len(t) >= load.stat
  BY <1>3, <1>4 DEF Continues
<1>6. Len(s) \in Nat /\ Len(t) \in Nat
  BY <1>1, LenProperties
<1> HIDE DEF s, t, o
<1>7. /\ Len(s \o t) = Len(s) + Len(t) /\ DOMAIN (s \o t) = 1..(Len(s) + Len(t))
      /\ \A i \in 1..Len(s) : (s \o t)[i] = s[i]
      /\ \A k \in 1..Len(t) : (s \o t)[Len(s) + k] = t[k]
      /\ DOMAIN s = 1..Len(s)
  BY <1>1, ConcatProperties, LenProperties
<1>8. ASSUME NEW i \in 1..(Len(s) + Len(t)) PROVE (s \o t)[i] = o + i
  <2>1. CASE i <= Len(s)
    BY <1>2, <1>6, <1>7, <1>8, <2>1
  <2>2. CASE i > Len(s)
    <3>1. i - Len(s) \in 1..Len(t) /\ Len(s) + (i - Len(s)) = i
      BY <1>6, <1>8, <2>2
    <3>2. (s \o t)[i] = (o + Len(s)) + (i - Len(s))
      BY <1>5, <1>7, <3>1
    <3>3. i \in Nat /\ (o + Len(s)) + (i - Len(s)) = o + i
      BY <1>1, <1>6, <1>8
    <3> QED
      BY <3>2, <3>3
  <2> QED
    BY <1>6, <1>8, <2>1, <2>2
<1>9. o + Seen(Taken) = (o + Len(s)) + Len(t)
  BY <1>1, <1>6
<1>10. \A i \in DOMAIN Taken.bytes : Taken.bytes[i] = o + i
  BY <1>1, <1>7, <1>8
<1> QED
  BY <1>1, <1>5, <1>9, <1>10 DEF s, t, o

\* What has been read does not get less with a payload.
LEMMA ReachedStays ==
  ASSUME FileInv, ContentInv, Deliver, IsData(events[1])
  PROVE  /\ Reached => load.offset + Seen(Taken) >= load.stat
         /\ ~Full(events[1]) => load.offset + Seen(Taken) >= load.stat
<1>1. /\ load.offset \in Nat /\ Seen(load) \in Nat /\ load.stat \in Nat /\ BufferSize \in Nat
      /\ Len(events[1].bytes) \in Nat /\ Len(events[1].bytes) <= BufferSize
      /\ Seen(Taken) = Seen(load) + Len(events[1].bytes)
  BY FileFacts, TakenIs, DeliverStep, LenProperties
<1> DEFINE o == load.offset
           s == Seen(load)
           n == Len(events[1].bytes)
           t == Seen(Taken)
           st == load.stat
<1>2. /\ o \in Nat /\ s \in Nat /\ st \in Nat /\ n \in Nat /\ n <= BufferSize /\ t = s + n
  BY <1>1
<1>3. ~Full(events[1]) => n < BufferSize
  <2>1. ~Full(events[1]) => n # BufferSize
    BY DEF Full
  <2> HIDE DEF n
  <2> QED
    BY <1>1, <1>2, <2>1
<1>4. n < BufferSize => o + t >= st
  BY TakenContinues
<1>5. o + s >= st => o + t >= st
  <2> HIDE DEF o, s, n, t, st
  <2> QED
    BY <1>2
<1> QED
  BY <1>3, <1>4, <1>5 DEF Reached

LEMMA ContentDeliverMore ==
  ASSUME FileInv, ContentInv, Deliver, IsData(events[1]),
         load' = Taken, events' = Tail(events)
  PROVE  ContentInv'
<1>1. /\ Taken.state = "reading" /\ Taken.stat = load.stat /\ Taken.offset = load.offset
      /\ UNCHANGED <<size, chains, cq, ch>> /\ Reading
      /\ Len(events) \in Nat /\ Len(events) >= 1 /\ Len(events') = Len(events) - 1
      /\ \A i \in 1..Len(events') : i + 1 \in 1..Len(events) /\ events'[i] = events[i + 1]
      /\ load.offset + Seen(Taken) = load.offset + Seen(load) + Len(events[1].bytes)
  BY TakenIs, DeliverStep, FileFacts, TakenContinues
<1>2. LoadReturnsFile' /\ load'.stat <= size'
  <2>1. load.stat <= size
    BY <1>1 DEF ContentInv, Reading
  <2> QED
    BY <1>1, <2>1, TakenContinues DEF LoadReturnsFile
<1>3. Reading' /\ (Reached' <=> load.offset + Seen(Taken) >= load.stat)
  BY <1>1 DEF Reading, Reached, Seen
<1>4. Reached => Reached'
  BY <1>3, ReachedStays
<1>5. \A q, n : Continues(q, n)' = Continues(q, n)
  BY <1>1 DEF Continues
<1>6. StreamInv /\ (ch.active => QueueInv)
  BY DEF ContentInv
<1>7. CASE ~Full(events[1])
  <2>1. Reached'
    BY <1>3, <1>7, ReachedStays
  <2>2. /\ \A i \in 1..Len(events) : IsData(events[i]) => i = 1
        /\ \A i \in 1..Len(cq) : ~IsData(cq[i])
        /\ \A c \in chains : c.broken
    BY <1>7, NothingAfter
  <2>3. ASSUME NEW i \in 1..Len(events') PROVE ~IsData(events'[i])
    <3>1. i + 1 \in 1..Len(events) /\ events'[i] = events[i + 1] /\ i + 1 # 1
      BY <1>1, <2>3
    <3> QED
      BY <2>2, <3>1
  <2>4. StreamInv'
    BY <2>1, <2>3 DEF StreamInv
  <2>5. QueueInv'
    BY <1>1, <2>1, <2>2 DEF QueueInv
  <2> QED
    BY <1>1, <1>2, <2>4, <2>5 DEF ContentInv
<1>8. CASE Full(events[1])
  <2>1. ASSUME NEW n \in Nat PROVE Position(n)' = Position(n + 1)
    <3>1. Position(n)' = load.offset + Seen(Taken) + n * BufferSize
      BY <1>1 DEF Position, Seen
    <3>2. Position(n + 1) = load.offset + Seen(load) + (n + 1) * BufferSize
      BY DEF Position
    <3>3. (n + 1) * BufferSize = n * BufferSize + BufferSize /\ n * BufferSize \in Nat
          /\ BufferSize \in Nat /\ load.offset \in Nat /\ Seen(load) \in Nat
      <4>1. BufferSize \in Nat /\ load.offset \in Nat /\ Seen(load) \in Nat
        BY FileFacts
      <4> QED
        BY <4>1, OneMore, ProductType
    <3>4. load.offset + Seen(Taken) = (load.offset + Seen(load)) + BufferSize
      BY <1>1, <1>8 DEF Full
    <3> DEFINE base == load.offset + Seen(load)
               nb == n * BufferSize
    <3>5. base \in Nat /\ nb \in Nat /\ BufferSize \in Nat
      BY <3>3
    <3>6. Position(n)' = (base + BufferSize) + nb /\ Position(n + 1) = base + (nb + BufferSize)
      BY <3>1, <3>2, <3>3, <3>4
    <3> HIDE DEF base, nb
    <3> QED
      BY <3>5, <3>6
  <2>2. ~Ending(events[1])
    BY <1>8 DEF Ending, Full, IsData
  <2>3. ASSUME NEW m \in Nat, m <= Len(events),
               NEW j \in 1..m, Ending(events[j])
        PROVE  \E k \in 1..(m - 1) : Ending(events'[k])
    <3>1. j # 1
      BY <2>2, <2>3
    <3>2. j - 1 \in 1..(m - 1) /\ j - 1 \in 1..Len(events') /\ (j - 1) + 1 = j
      BY <1>1, <2>3, <3>1
    <3>3. events'[j - 1] = events[j]
      BY <1>1, <3>2
    <3> QED
      BY <2>3, <3>2, <3>3
  <2>4. ASSUME NEW i \in 1..Len(events')
        PROVE  /\ IsData(events'[i]) => Continues(events'[i], Position(i - 1)')
               /\ events'[i].what = "canceled" =>
                    Reached' \/ \E j \in 1..(i - 1) : Ending(events'[j])
    <3>1. /\ i + 1 \in 1..Len(events) /\ events'[i] = events[i + 1]
          /\ i - 1 \in Nat /\ (i - 1) + 1 = i /\ (i + 1) - 1 = i
          /\ i \in Nat /\ i <= Len(events)
      BY <1>1, <2>4
    <3>2. Position(i - 1)' = Position(i)
      BY <2>1, <3>1
    <3>3. /\ IsData(events[i + 1]) => Continues(events[i + 1], Position(i))
          /\ events[i + 1].what = "canceled" =>
               Reached \/ \E j \in 1..i : Ending(events[j])
      BY <1>1, <1>6, <3>1 DEF StreamInv
    <3> QED
      BY <1>4, <2>3, <3>1, <3>2, <3>3
  <2>5. StreamInv'
    BY <1>5, <2>4 DEF StreamInv
  <2>6. (\E j \in 1..Len(events) : Ending(events[j])) =>
          \E j \in 1..Len(events') : Ending(events'[j])
    BY <1>1, <2>3
  <2> DEFINE After(n) == load.offset + Seen(Taken) + n * BufferSize
  <2>7. \A n : Position(n)' = After(n)
    BY <1>1 DEF Position, Seen
  <2> HIDE DEF After
  <2>8. ASSUME NEW m \in Nat PROVE After(Len(events') + m) = Position(Len(events) + m)
    <3>1. Len(events') + m \in Nat /\ (Len(events') + m) + 1 = Len(events) + m
      BY <1>1
    <3>2. \A n \in Nat : After(n) = Position(n + 1)
      BY <2>1, <2>7
    <3> QED
      BY <3>1, <3>2
  <2>9. QueueInv'
    <3>1. SUFFICES ASSUME ch.active PROVE QueueInv'
      BY <1>1 DEF QueueInv
    <3>2. \A i \in 1..Len(cq) : Reads(cq, i - 1) \in Nat
      <4>1. Len(cq) \in Nat
        BY FileFacts
      <4>2. \A i \in 1..Len(cq) : i - 1 \in Nat
        BY <4>1
      <4> QED
        BY <4>2, ReadsType
    <3>3. AllReads \in Nat /\ AllReads' = AllReads
      BY <1>1, FileFacts DEF AllReads
    <3>4. ASSUME NEW i \in 1..Len(cq)
          PROVE  /\ IsData(cq[i]) =>
                      Continues(cq[i], After(Len(events') + Reads(cq, i - 1)))
                 /\ cq[i].what = "canceled" =>
                      \/ Reached' \/ \E j \in 1..Len(events') : Ending(events'[j])
                      \/ \E j \in 1..(i - 1) : Ending(cq[j])
      <4>1. After(Len(events') + Reads(cq, i - 1)) = Position(Len(events) + Reads(cq, i - 1))
        BY <2>8, <3>2
      <4>2. /\ IsData(cq[i]) => Continues(cq[i], Position(Len(events) + Reads(cq, i - 1)))
            /\ cq[i].what = "canceled" =>
                 \/ Reached \/ \E j \in 1..Len(events) : Ending(events[j])
                 \/ \E j \in 1..(i - 1) : Ending(cq[j])
        BY <1>1, <1>6, <3>1 DEF QueueInv
      <4> QED
        BY <1>4, <2>6, <4>1, <4>2
    <3>5. ASSUME NEW c \in chains
          PROVE  IF c.broken
                 THEN \/ Reached' \/ \E j \in 1..Len(events') : Ending(events'[j])
                      \/ \E j \in 1..Len(cq) : Ending(cq[j])
                 ELSE c.at = After(Len(events') + AllReads)
      <4>1. IF c.broken
            THEN \/ Reached \/ \E j \in 1..Len(events) : Ending(events[j])
                 \/ \E j \in 1..Len(cq) : Ending(cq[j])
            ELSE c.at = Position(Len(events) + AllReads)
        BY <1>1, <1>6, <3>1 DEF QueueInv
      <4>2. After(Len(events') + AllReads) = Position(Len(events) + AllReads)
        BY <2>8, <3>3
      <4> QED
        BY <1>4, <2>6, <4>1, <4>2
    <3> QED
      BY <1>1, <1>5, <2>7, <3>3, <3>4, <3>5 DEF QueueInv
  <2> QED
    BY <1>2, <2>5, <2>9 DEF ContentInv
<1> QED
  BY <1>7, <1>8

LEMMA ContentDelivers ==
  ASSUME FileInv, ContentInv, Deliver
  PROVE  ContentInv'
<1>1. /\ Reading /\ load \in LoadFields /\ size' = size /\ load.stat <= size
      /\ 1 \in 1..Len(events) /\ load.stat \in Nat /\ load.offset \in Nat /\ Seen(load) \in Nat
  <2>1. Len(events) \in Nat /\ Len(events) >= 1
    BY FileFacts, DeliverStep
  <2>2. 1 \in 1..Len(events)
    BY <2>1
  <2>3. Reading /\ load.stat <= size
    BY DeliverStep DEF ContentInv, Reading
  <2> QED
    BY <2>2, <2>3, FileFacts, FieldTypes, DeliverStep
<1>2. ASSUME ~Reading', load'.stat = load.stat, load'.offset = load.offset,
             \A i \in DOMAIN load'.bytes : load'.bytes[i] = load.offset + i,
             load'.state = "done" => load.offset + Len(load'.bytes) >= load.stat
      PROVE  ContentInv'
  <2> DEFINE n == Len(load'.bytes)
             st == load.stat
             o == load.offset
  <2>1. load'.bytes \in Seq(Nat)
    <3>1. FileInv'
      BY DeliverKeeps
    <3>2. load' \in LoadFields
      BY <3>1 DEF FileInv, FileTypes, TypeOK, LoadFields
    <3> QED
      BY <3>2 DEF LoadFields
  <2>2. n \in Nat /\ st \in Nat /\ o \in Nat /\ (load'.state = "done" => o + n >= st)
    BY <1>1, <1>2, <2>1, LenProperties
  <2> HIDE DEF n, st, o
  <2>3. load'.state = "done" => n >= st - o
    BY <2>2
  <2>4. LoadReturnsFile'
    BY <1>2, <2>3 DEF LoadReturnsFile, Seen, n, st, o
  <2> QED
    BY <1>1, <1>2, <2>4 DEF ContentInv, StreamInv, QueueInv
<1>3. CASE ~IsData(events[1])
  <2>1. /\ events[1].what \in Results /\ OnError(events[1].what)
    BY <1>3, DeliverStep
  <2>2. /\ load'.state = IF events[1].what = "canceled" THEN "done" ELSE "failed"
        /\ load'.stat = load.stat /\ load'.offset = load.offset /\ load'.bytes = load.bytes
    BY <1>1, <2>1 DEF OnError, Ends, LoadFields
  <2>3. events[1].what = "canceled" => load.offset + Len(load.bytes) >= load.stat
    <3>1. events[1].what = "canceled" =>
            Reached \/ \E j \in 1..(1 - 1) : Ending(events[j])
      BY <1>1 DEF ContentInv, StreamInv
    <3>2. \A j \in 1..(1 - 1) : FALSE
      OBVIOUS
    <3> QED
      BY <3>1, <3>2 DEF Reached, Seen
  <2> QED
    BY <1>2, <2>2, <2>3 DEF ContentInv, LoadReturnsFile, Reading
<1>4. CASE IsData(events[1])
  <2>1. /\ Taken \in LoadFields /\ Taken.stat = load.stat /\ Taken.offset = load.offset
        /\ Taken.state = "reading"
    BY <1>4, TakenIs
  <2>2. CASE /\ events[1].bytes = <<>> \/ Seen(Taken) = load.stat
             /\ load' = [Taken EXCEPT !.state = "done"]
    <3>1. /\ load'.state = "done" /\ load'.stat = load.stat /\ load'.offset = load.offset
          /\ load'.bytes = Taken.bytes
      BY <2>1, <2>2 DEF LoadFields
    <3>2. load.offset + Seen(Taken) >= load.stat
      <4>1. CASE events[1].bytes = <<>>
        <5>1. ~Full(events[1])
          BY <4>1, FileFacts DEF Full
        <5> QED
          BY <1>4, <5>1, ReachedStays
      <4>2. CASE Seen(Taken) = load.stat
        BY <1>1, <4>2
      <4> QED
        BY <2>2, <4>1, <4>2
    <3> QED
      BY <1>2, <1>4, <3>1, <3>2, TakenContinues DEF Seen, Reading
  <2>3. CASE load' = NextRound(Taken)
    <3>1. /\ load'.state = "waiting" /\ load'.stat = load.stat /\ load'.offset = load.offset
          /\ load'.bytes = Taken.bytes
      BY <2>1, <2>3 DEF NextRound, LoadFields
    <3> QED
      BY <1>2, <1>4, <3>1, TakenContinues DEF Reading
  <2> QED
    BY <1>4, <2>2, <2>3, TakenIs, ContentDeliverMore
<1> QED
  BY <1>3, <1>4

LEMMA ContentStep ==
  ASSUME FileInv, ContentInv, WithinLimit, [Next]_vars
  PROVE  ContentInv'
<1>1. ASSUME NEW w \in Writes, CallWrite(w) \/ WriteContinues(w) PROVE ContentInv'
  BY <1>1, ContentQuiet
<1>2. ASSUME NEW blocks \in Blocks, NEW offset \in Offsets, CallLoad(blocks, offset)
      PROVE  ContentInv'
  BY <1>2, ContentBegins
<1>3. CASE LoadFile
  BY <1>3, ContentBegins
<1>4. CASE LoadContinues
  BY <1>4, ContentRound
<1>5. CASE Deliver
  BY <1>5, ContentDelivers
<1>6. CASE KernelWrites
  BY <1>6, ContentWrites
<1>7. ASSUME NEW chain \in chains, KernelReads(chain) PROVE ContentInv'
  BY <1>7, ContentReads
<1>8. CASE Notify
  BY <1>8, ContentNotify
<1>9. ASSUME NEW gently \in BOOLEAN, CallClose(gently) PROVE ContentInv'
  BY <1>9, ContentQuiet
<1>10. CASE Peek \/ GraceTimeout \/ CloserCompleted \/ InboundDrained
  BY <1>10, ContentQuiet
<1>11. CASE UNCHANGED vars
  BY <1>11, ContentQuiet
<1> QED
  BY <1>1, <1>2, <1>3, <1>4, <1>5, <1>6, <1>7, <1>8, <1>9, <1>10, <1>11 DEF Next, Kernel

\* As long as every read begins where transport_worker_read can say, what load()
\* has read is the file from the offset on, in order, without a gap and nothing
\* twice, and a load that succeeds has read what was there when it began: for
\* all sizes, however the reads are broken off, the file grows and the channel
\* is closed.
THEOREM LoadIsTheFile == Spec /\ []WithinLimit => []LoadReturnsFile
<1>1. Init => ContentInv
  BY ContentInitial
<1>2. FileInv /\ ContentInv /\ WithinLimit /\ [Next]_vars => ContentInv'
  BY ContentStep
<1>3. ContentInv => LoadReturnsFile
  BY DEF ContentInv
<1> QED
  BY <1>1, <1>2, <1>3, FileInvariant, PTL DEF Spec

-----------------------------------------------------------------------------
(* How far a load reads: no further than a round beyond the file.          *)

\* The file, and whatever load() may be told to begin at, end a round before
\* the limit.
SmallFile == size + PoolSize * BufferSize <= OffsetLimit

Below(bytes, end) == \A k \in 1..Len(bytes) : bytes[k] <= end

Furthest == Greatest(load.offset, size)

ReachInv ==
  /\ load.state # "idle" => load.offset \in Offsets
  /\ Below(load.bytes, size)
  /\ \A i \in 1..Len(events) : Below(events[i].bytes, size)
  /\ \A i \in 1..Len(cq) : Below(cq[i].bytes, size)
  /\ \A c \in chains :
       c.at + c.left * BufferSize <= Furthest + PoolSize * BufferSize

LEMMA ReachInitial == Init => ReachInv
BY DEF Init, ReachInv, Below

LEMMA ReachUntouched ==
  ASSUME ReachInv, UNCHANGED <<chains, cq, events, size>>,
         load'.offset = load.offset, load'.bytes = load.bytes,
         load'.state = "idle" <=> load.state = "idle"
  PROVE  ReachInv'
BY DEF ReachInv, Below, Furthest

LEMMA ReachQuiet ==
  ASSUME FileInv, ReachInv,
         \/ \E w \in Writes : CallWrite(w) \/ WriteContinues(w)
         \/ LoadFile
         \/ Peek \/ GraceTimeout \/ CloserCompleted \/ InboundDrained
         \/ \E gently \in BOOLEAN : CallClose(gently)
         \/ UNCHANGED vars
  PROVE  ReachInv'
<1>1. CASE LoadFile
  <2>1. load' = [load EXCEPT !.state = "waiting"] /\ load.state = "stat" /\ load \in LoadFields
    BY <1>1, FieldTypes DEF LoadFile
  <2>2. /\ load'.offset = load.offset /\ load'.bytes = load.bytes
        /\ load'.state = "waiting"
    BY <2>1 DEF LoadFields
  <2>3. UNCHANGED <<chains, cq, events, size>>
    BY <1>1 DEF LoadFile
  <2> QED
    BY <2>1, <2>2, <2>3, ReachUntouched
<1>2. CASE ~LoadFile
  <2>1. UNCHANGED <<load, chains, cq, events, size>>
    BY <1>2 DEF CallWrite, WriteContinues, Peek, GraceTimeout, CloserCompleted,
                InboundDrained, CallClose, vars
  <2> QED
    BY <2>1, ReachUntouched
<1> QED
  BY <1>1, <1>2

\* load() begins: nothing is read, and no read is under way.
LEMMA ReachBegins ==
  ASSUME FileInv, ReachInv,
         NEW blocks \in Blocks, NEW offset \in Offsets, CallLoad(blocks, offset)
  PROVE  ReachInv'
<1> DEFINE one == (blocks = 1)
<1>1. /\ load.state = "idle" /\ load \in LoadFields
      /\ load' = [load EXCEPT !.state = "stat", !.stat = size, !.offset = offset,
                              !.single = one, !.blocks = blocks]
      /\ UNCHANGED <<chains, cq, events, size>>
  BY FieldTypes DEF CallLoad
<1> HIDE DEF one
<1>2. load'.offset = offset /\ load'.bytes = load.bytes
  BY <1>1 DEF LoadFields
<1>3. chains = {}
  BY <1>1, FileFacts DEF RestInv
<1> QED
  BY <1>1, <1>2, <1>3 DEF ReachInv, Below

\* A round begins at the end of what was read: in the file, or at the offset.
LEMMA ReachRound ==
  ASSUME FileInv, ContentInv, ReachInv, LoadContinues
  PROVE  ReachInv'
<1>1. /\ load.state = "waiting" /\ load \in LoadFields /\ UNCHANGED <<size, cq>>
      /\ chains = {} /\ events = <<>>
  BY FieldTypes, FileFacts DEF LoadContinues, RestInv, Reading
<1>2. /\ load'.offset = load.offset /\ load'.bytes = load.bytes
      /\ load'.state # "idle" /\ events' = <<>>
  BY <1>1 DEF LoadContinues, LoadFields
<1>3. Furthest' = Furthest
  BY <1>1, <1>2 DEF Furthest
<1>4. load.offset + Seen(load) <= Furthest
  <2> DEFINE s == load.bytes
             n == Len(s)
  <2>1. /\ s \in Seq(Nat) /\ n \in Nat /\ n = Seen(load)
        /\ load.offset \in Nat /\ size \in Nat
    BY FileFacts DEF Seen
  <2>2. CASE n = 0
    BY <2>1, <2>2 DEF Furthest, Greatest
  <2>3. CASE n # 0
    <3>1. n \in 1..Len(s) /\ n \in DOMAIN s
      BY <2>1, <2>3
    <3>2. s[n] = load.offset + n
      BY <3>1 DEF ContentInv, LoadReturnsFile
    <3>3. s[n] <= size
      BY <3>1 DEF ReachInv, Below
    <3> QED
      BY <2>1, <3>2, <3>3 DEF Furthest, Greatest
  <2> QED
    BY <2>2, <2>3
<1>5. ASSUME NEW c \in chains'
      PROVE  c.at + c.left * BufferSize <= Furthest + PoolSize * BufferSize
  <2>1. c.at = load.offset + Seen(load) /\ c.left = load.blocks
    <3> DEFINE new == [at |-> NextOffset(load), left |-> load.blocks, broken |-> FALSE]
    <3>1. c = new
      BY <1>1, <1>5 DEF LoadContinues, IssueReads
    <3> QED
      BY <3>1 DEF NextOffset
  <2> DEFINE r == load.blocks * BufferSize
             p == PoolSize * BufferSize
  <2>2. r <= p /\ r \in Nat /\ p \in Nat
    <3>1. /\ load.blocks \in Nat /\ load.blocks <= PoolSize /\ PoolSize \in Nat
          /\ BufferSize \in Nat /\ BufferSize > 0
      BY FileFacts
    <3> QED
      BY <3>1, Multiples, ProductType
  <2>3. load.offset + Seen(load) \in Nat /\ Furthest \in Nat
    <3>1. load.offset \in Nat /\ Seen(load) \in Nat /\ size \in Nat
      BY FileFacts
    <3> QED
      BY <3>1 DEF Furthest, Greatest
  <2>4. c.left * BufferSize = r
    BY <2>1
  <2> HIDE DEF r, p
  <2>5. c.at + r <= Furthest + p
    BY <1>4, <2>1, <2>2, <2>3
  <2> QED
    BY <2>4, <2>5 DEF p
<1>6. \A c \in chains' : c.at + c.left * BufferSize <= Furthest' + PoolSize * BufferSize
  BY <1>3, <1>5
<1> QED
  BY <1>1, <1>2, <1>6 DEF ReachInv, Below

\* A result of the kernel, while the file may grow.
LEMMA ReachPost ==
  ASSUME FileInv, ReachInv, NEW r \in Result, Post(r), Below(r.bytes, size),
         UNCHANGED <<load, events>>, size' \in Nat, size <= size',
         \A c \in chains' :
           c.at + c.left * BufferSize <= Furthest + PoolSize * BufferSize,
         \A c \in chains' : c.at \in Nat /\ c.left \in Nat
  PROVE  ReachInv'
<1>1. ASSUME NEW b \in Seq(Nat), Below(b, size) PROVE Below(b, size')
  <2>1. ASSUME NEW k \in 1..Len(b) PROVE b[k] <= size'
    <3>1. b[k] \in Nat /\ b[k] <= size /\ size \in Nat
      BY <1>1, FileFacts, ElementOfSeq DEF Below
    <3> QED
      BY <3>1
  <2> QED
    BY <2>1 DEF Below
<1>2. Furthest \in Nat /\ Furthest' \in Nat /\ Furthest <= Furthest'
  <2>1. load.offset \in Nat /\ size \in Nat
    BY FileFacts
  <2> QED
    BY <2>1 DEF Furthest, Greatest
<1>3. ASSUME NEW c \in chains'
      PROVE  c.at + c.left * BufferSize <= Furthest' + PoolSize * BufferSize
  <2> DEFINE l == c.left * BufferSize
             p == PoolSize * BufferSize
  <2>1. l \in Nat /\ p \in Nat /\ c.at \in Nat /\ c.at + l <= Furthest + p
    <3>1. c.left \in Nat /\ c.at \in Nat /\ BufferSize \in Nat /\ PoolSize \in Nat
      BY FileFacts
    <3> QED
      BY <3>1, ProductType
  <2> HIDE DEF l, p
  <2>2. c.at + l <= Furthest' + p
    BY <1>2, <2>1
  <2> QED
    BY <2>2 DEF l, p
<1>4. \A i \in 1..Len(cq') : Below(cq'[i].bytes, size')
  <2>1. /\ Len(cq') = Len(cq) + 1 /\ Len(cq) \in Nat
        /\ \A i \in 1..Len(cq) : cq'[i] = cq[i]
        /\ cq'[Len(cq) + 1] = r
    BY PostAdds, FileFacts
  <2>2. ASSUME NEW i \in 1..Len(cq) PROVE Below(cq'[i].bytes, size')
    <3>1. cq[i].bytes \in Seq(Nat) /\ Below(cq[i].bytes, size)
      BY FieldTypes DEF Result, ReachInv
    <3>2. cq'[i].bytes = cq[i].bytes
      BY <2>1
    <3> QED
      BY <1>1, <3>1, <3>2
  <2>3. Below(cq'[Len(cq) + 1].bytes, size')
    <3>1. r.bytes \in Seq(Nat)
      BY DEF Result
    <3> QED
      BY <1>1, <2>1, <3>1
  <2>4. \A i \in 1..Len(cq') : i \in 1..Len(cq) \/ i = Len(cq) + 1
    BY <2>1
  <2> QED
    BY <2>2, <2>3, <2>4
<1>5. Below(load'.bytes, size')
  <2>1. load.bytes \in Seq(Nat) /\ Below(load.bytes, size) /\ load' = load
    BY FileFacts DEF ReachInv
  <2> QED
    BY <1>1, <2>1
<1>6. \A i \in 1..Len(events') : Below(events'[i].bytes, size')
  <2>1. ASSUME NEW i \in 1..Len(events) PROVE Below(events[i].bytes, size')
    <3>1. events[i].bytes \in Seq(Nat) /\ Below(events[i].bytes, size)
      BY FieldTypes DEF Result, ReachInv
    <3> QED
      BY <1>1, <3>1
  <2> QED
    BY <2>1
<1>7. load'.state # "idle" => load'.offset \in Offsets
  BY DEF ReachInv
<1> QED
  BY <1>3, <1>4, <1>5, <1>6, <1>7 DEF ReachInv


LEMMA ReachWrites ==
  ASSUME FileInv, ReachInv, KernelWrites
  PROVE  ReachInv'
<1>1. PICK n \in 0..BufferSize : size' = size + n
  BY DEF KernelWrites
<1>2. size' \in Nat /\ size <= size'
  <2>1. size \in Nat /\ BufferSize \in Nat
    BY FileFacts
  <2> QED
    BY <1>1, <2>1
<1>3. /\ Post(Without("write")) /\ UNCHANGED <<load, chains, events>>
  BY DEF KernelWrites
<1>4. Without("write") \in Result /\ Below(Without("write").bytes, size)
  <2>1. <<>> \in Seq(Nat) /\ Len(<<>>) = 0
    OBVIOUS
  <2> QED
    BY <2>1 DEF Without, Result, Below
<1>5. /\ \A c \in chains' :
           c.at + c.left * BufferSize <= Furthest + PoolSize * BufferSize
      /\ \A c \in chains' : c.at \in Nat /\ c.left \in Nat
  BY <1>3, FileFacts DEF ReachInv
<1> QED
  BY <1>2, <1>3, <1>4, <1>5, ReachPost

\* What a read finds is in the file, even if it begins elsewhere than it should.
LEMMA ContentInFile ==
  ASSUME FileInv, NEW at \in Nat
  PROVE  Below(Content(at).bytes, size)
<1> DEFINE from == at % OffsetLimit
           to == Greatest(from, Least(from + BufferSize, size))
<1>1. from \in Nat /\ size \in Nat /\ BufferSize \in Nat
  <2>1. OffsetLimit \in Nat /\ OffsetLimit > 0
    BY FileAssumption
  <2>2. at % OffsetLimit \in Nat
    BY <2>1
  <2> QED
    BY <2>2, FileFacts
<1>2. to \in Nat /\ to >= from /\ (to > from => to <= size)
  <2> HIDE DEF from
  <2> QED
    BY <1>1 DEF Greatest, Least
<1> HIDE DEF from, to
<1> DEFINE s == [i \in 1..(to - from) |-> from + i]
<1>3. Len(s) = to - from /\ \A k \in 1..(to - from) : s[k] = from + k
  <2>1. to - from \in Nat
    BY <1>1, <1>2
  <2> QED
    BY <1>1, <2>1
<1>4. Content(at).bytes = s
  BY DEF Content, Data, from, to
<1> HIDE DEF s
<1>5. \A k \in 1..Len(s) : s[k] <= size
  BY <1>1, <1>2, <1>3
<1> QED
  BY <1>4, <1>5 DEF Below

LEMMA ReachReads ==
  ASSUME FileInv, ReachInv, NEW chain \in chains, KernelReads(chain)
  PROVE  ReachInv'
<1>1. PICK r \in Result, broken \in BOOLEAN :
        /\ Post(r) /\ Below(r.bytes, size)
        /\ chains' = (chains \ {chain}) \cup Rest(chain, broken)
  <2>1. chain.at \in Nat
    BY FileFacts
  <2>2. ASSUME NEW what \in {"canceled", "error"}
        PROVE  Without(what) \in Result /\ Below(Without(what).bytes, size)
    <3>1. <<>> \in Seq(Nat) /\ Len(<<>>) = 0
      OBVIOUS
    <3> QED
      BY <3>1 DEF Without, Result, Results, Below
  <2> DEFINE found == Content(chain.at)
  <2>3. found \in Result /\ Below(found.bytes, size)
    BY <2>1, ContentIs, ContentInFile
  <2>4. (Len(found.bytes) < BufferSize) \in BOOLEAN
    OBVIOUS
  <2> HIDE DEF found
  <2>5. \/ \E what \in {"canceled", "error"} :
             Post(Without(what)) /\ chains' = (chains \ {chain}) \cup Rest(chain, TRUE)
        \/ /\ Post(found)
           /\ chains' = (chains \ {chain}) \cup Rest(chain, Len(found.bytes) < BufferSize)
    BY DEF KernelReads, Rest, found
  <2> QED
    BY <2>2, <2>3, <2>4, <2>5
<1>2. /\ UNCHANGED <<size, load, events>> /\ size \in Nat
      /\ chain.at \in Nat /\ chain.left \in Nat /\ chain.left >= 1
      /\ BufferSize \in Nat /\ PoolSize \in Nat
      /\ \A c \in chains : c.at \in Nat /\ c.left \in Nat
  BY FileFacts DEF KernelReads
<1>3. ASSUME NEW c \in chains'
      PROVE  /\ c.at \in Nat /\ c.left \in Nat
             /\ c.at + c.left * BufferSize <= Furthest + PoolSize * BufferSize
  <2>1. CASE c \in chains
    BY <1>2, <2>1 DEF ReachInv
  <2>2. CASE c \in Rest(chain, broken)
    <3>1. c.at = chain.at + BufferSize /\ c.left = chain.left - 1
      BY <2>2 DEF Rest
    <3>2. c.at \in Nat /\ c.left \in Nat
      BY <1>2, <3>1
    <3> DEFINE all == chain.left * BufferSize
               less == c.left * BufferSize
               bound == Furthest + PoolSize * BufferSize
    <3>3. less + BufferSize = all
      BY <1>2, <3>1, OneMore
    <3>4. all \in Nat /\ less \in Nat
      BY <1>2, <3>2, ProductType
    <3>5. chain.at + all <= bound
      BY DEF ReachInv
    <3> HIDE DEF all, less, bound
    <3>6. c.at + less = chain.at + all
      BY <1>2, <3>1, <3>3, <3>4
    <3>7. c.at + less <= bound
      BY <3>5, <3>6
    <3> QED
      BY <3>2, <3>7 DEF less, bound
  <2> QED
    BY <1>1, <2>1, <2>2
<1>4. size' \in Nat /\ size <= size'
  BY <1>2
<1> QED
  BY <1>1, <1>2, <1>3, <1>4, ReachPost

LEMMA ReachNotify ==
  ASSUME FileInv, ReachInv, Notify
  PROVE  ReachInv'
<1>1. /\ UNCHANGED <<size, load, chains>> /\ cq # <<>> /\ cq' = Tail(cq)
      /\ events' = (IF ch.active /\ IsRead(cq[1]) /\ Reading
                    THEN Append(events, cq[1]) ELSE events)
  BY NotifyStep
<1>2. \A i \in 1..Len(cq') : Below(cq'[i].bytes, size)
  <2>1. \A i \in 1..Len(cq') : i + 1 \in 1..Len(cq) /\ cq'[i] = cq[i + 1]
    BY <1>1, TakeOff
  <2> QED
    BY <2>1 DEF ReachInv
<1>3. \A i \in 1..Len(events') : Below(events'[i].bytes, size)
  <2>1. CASE events' = events
    BY <2>1 DEF ReachInv
  <2>2. CASE events' = Append(events, cq[1])
    <3>1. /\ events \in Seq(Result) /\ Len(events) \in Nat /\ cq[1] \in Result
          /\ Len(cq) \in Nat /\ Len(cq) >= 1
      BY <1>1, FileFacts, TakeOff
    <3>2. /\ Len(events') = Len(events) + 1
          /\ \A i \in 1..Len(events) : events'[i] = events[i]
          /\ events'[Len(events) + 1] = cq[1]
      BY <2>2, <3>1, AppendProperties
    <3>3. Below(cq[1].bytes, size)
      BY <3>1 DEF ReachInv
    <3>4. \A i \in 1..Len(events') : i \in 1..Len(events) \/ i = Len(events) + 1
      BY <3>1, <3>2
    <3> QED
      BY <3>2, <3>3, <3>4 DEF ReachInv
  <2> QED
    BY <1>1, <2>1, <2>2
<1>4. Furthest' = Furthest
  BY <1>1 DEF Furthest
<1> QED
  BY <1>1, <1>2, <1>3, <1>4 DEF ReachInv

LEMMA BelowConcat ==
  ASSUME NEW s \in Seq(Nat), NEW t \in Seq(Nat), NEW end, Below(s, end), Below(t, end)
  PROVE  Below(s \o t, end)
<1> DEFINE m == Len(s)
           n == Len(t)
<1>1. /\ m \in Nat /\ n \in Nat /\ Len(s \o t) = m + n
      /\ \A k \in 1..(m + n) : (s \o t)[k] = IF k <= m THEN s[k] ELSE t[k - m]
  BY ConcatProperties
<1>2. /\ \A k \in 1..m : s[k] <= end
      /\ \A k \in 1..n : t[k] <= end
  BY DEF Below
<1> HIDE DEF m, n
<1>3. ASSUME NEW k \in 1..(m + n) PROVE (s \o t)[k] <= end
  <2>1. CASE k <= m
    <3>1. k \in 1..m
      BY <1>1, <2>1
    <3> QED
      BY <1>1, <1>2, <2>1, <3>1
  <2>2. CASE ~(k <= m)
    <3>1. k - m \in 1..n
      BY <1>1, <2>2
    <3> QED
      BY <1>1, <1>2, <2>2, <3>1
  <2> QED
    BY <2>1, <2>2
<1> QED
  BY <1>1, <1>3 DEF Below

LEMMA ReachDeliver ==
  ASSUME FileInv, ReachInv, Deliver
  PROVE  ReachInv'
<1>1. /\ UNCHANGED <<size, chains, cq>> /\ load \in LoadFields
      /\ load.state = "reading" /\ 1 \in 1..Len(events)
      /\ \A i \in 1..Len(Tail(events)) :
           i + 1 \in 1..Len(events) /\ Tail(events)[i] = events[i + 1]
  <2>1. Len(events) \in Nat /\ Len(events) >= 1
    BY FileFacts, DeliverStep
  <2> QED
    BY <2>1, FieldTypes, DeliverStep DEF Reading
<1>2. \A i \in 1..Len(Tail(events)) : Below(Tail(events)[i].bytes, size)
  BY <1>1 DEF ReachInv
<1>3. ASSUME load'.offset = load.offset, Below(load'.bytes, size),
             events' = <<>> \/ events' = Tail(events)
      PROVE  ReachInv'
  <2>1. load.offset \in Offsets
    BY <1>1 DEF ReachInv
  <2>2. \A i \in 1..Len(events') : Below(events'[i].bytes, size)
    <3>1. CASE events' = <<>>
      BY <3>1
    <3> QED
      BY <1>2, <1>3, <3>1
  <2>3. Furthest' = Furthest
    BY <1>1, <1>3 DEF Furthest
  <2> QED
    BY <1>1, <1>3, <2>1, <2>2, <2>3 DEF ReachInv
<1>4. CASE ~IsData(events[1])
  <2>1. Ends(load, IF events[1].what = "canceled" THEN "done" ELSE "failed")
    BY <1>4, DeliverStep DEF OnError
  <2>2. events' = <<>> /\ load'.offset = load.offset /\ load'.bytes = load.bytes
    BY <1>1, <2>1 DEF Ends, LoadFields
  <2> QED
    BY <1>3, <2>2 DEF ReachInv
<1>5. CASE IsData(events[1])
  <2> DEFINE s == load.bytes
             t == events[1].bytes
  <2>1. /\ s \in Seq(Nat) /\ t \in Seq(Nat) /\ Below(s, size) /\ Below(t, size)
        /\ Taken \in LoadFields /\ Taken.bytes = s \o t /\ Taken.offset = load.offset
    <3>1. Below(s, size) /\ Below(t, size)
      BY <1>1 DEF ReachInv
    <3> QED
      BY <1>5, <3>1, FileFacts, DeliverStep, TakenIs
  <2>2. Below(s \o t, size)
    BY <2>1, BelowConcat
  <2> HIDE DEF s, t
  <2>3. \/ load' = [Taken EXCEPT !.state = "done"] /\ events' = <<>>
        \/ load' = NextRound(Taken) /\ events' = Tail(events)
        \/ load' = Taken /\ events' = Tail(events)
    BY <1>5, TakenIs
  <2>4. load'.offset = load.offset /\ load'.bytes = s \o t
    BY <2>1, <2>3 DEF NextRound, LoadFields
  <2> QED
    BY <1>3, <2>2, <2>3, <2>4
<1> QED
  BY <1>4, <1>5

\* Where the next read begins.
LEMMA ReachIsWithin ==
  ASSUME FileInv, ReachInv, SmallFile,
         \A o \in Offsets : o + PoolSize * BufferSize <= OffsetLimit
  PROVE  WithinLimit
<1> SUFFICES ASSUME NEW c \in chains PROVE c.at < OffsetLimit
  BY DEF WithinLimit
<1> DEFINE p == PoolSize * BufferSize
           l == c.left * BufferSize
<1>1. /\ size \in Nat /\ load.offset \in Nat /\ c.at \in Nat /\ c.left \in Nat
      /\ c.left >= 1 /\ BufferSize \in Nat /\ BufferSize > 0 /\ PoolSize \in Nat
      /\ OffsetLimit \in Nat
  BY FileFacts, FileAssumption
<1>2. l \in Nat /\ l > 0 /\ p \in Nat
  BY <1>1, Multiples, ProductType
<1>3. load.state # "idle"
  BY FileFacts DEF RestInv
<1>4. load.offset + p <= OffsetLimit /\ size + p <= OffsetLimit
  BY <1>3 DEF ReachInv, SmallFile
<1>5. c.at + l <= Furthest + p
  BY DEF ReachInv
<1> HIDE DEF p, l
<1> QED
  BY <1>1, <1>2, <1>4, <1>5 DEF Furthest, Greatest

\* The same from what a caller can see: a load that begins a round before 4 GiB
\* in a file that ends, as it grows, a round before 4 GiB, reads what the file
\* holds.  No read of it begins beyond the limit, because a round begins at the
\* offset or inside the file.
THEOREM SmallFilesAreRead ==
  ASSUME \A o \in Offsets : o + PoolSize * BufferSize <= OffsetLimit
  PROVE  Spec /\ []SmallFile => []LoadReturnsFile
<1>1. Init => ContentInv /\ ReachInv
  BY ContentInitial, ReachInitial
<1>2. FileInv /\ ReachInv /\ SmallFile => WithinLimit
  BY ReachIsWithin
<1>3. FileInv /\ ContentInv /\ ReachInv /\ [Next]_vars => ReachInv'
  <2> SUFFICES ASSUME FileInv, ContentInv, ReachInv, [Next]_vars PROVE ReachInv'
    OBVIOUS
  <2>1. ASSUME NEW w \in Writes, CallWrite(w) \/ WriteContinues(w) PROVE ReachInv'
    BY <2>1, ReachQuiet
  <2>2. ASSUME NEW blocks \in Blocks, NEW offset \in Offsets, CallLoad(blocks, offset)
        PROVE  ReachInv'
    BY <2>2, ReachBegins
  <2>3. CASE LoadContinues
    BY <2>3, ReachRound
  <2>4. CASE Deliver
    BY <2>4, ReachDeliver
  <2>5. CASE KernelWrites
    BY <2>5, ReachWrites
  <2>6. ASSUME NEW chain \in chains, KernelReads(chain) PROVE ReachInv'
    BY <2>6, ReachReads
  <2>7. CASE Notify
    BY <2>7, ReachNotify
  <2>8. ASSUME NEW gently \in BOOLEAN, CallClose(gently) PROVE ReachInv'
    BY <2>8, ReachQuiet
  <2>9. CASE LoadFile \/ Peek \/ GraceTimeout \/ CloserCompleted \/ InboundDrained
    BY <2>9, ReachQuiet
  <2>10. CASE UNCHANGED vars
    BY <2>10, ReachQuiet
  <2> QED
    BY <2>1, <2>2, <2>3, <2>4, <2>5, <2>6, <2>7, <2>8, <2>9, <2>10 DEF Next, Kernel
<1>4. ContentInv => LoadReturnsFile
  BY DEF ContentInv
<1> QED
  BY <1>1, <1>2, <1>3, <1>4, ContentStep, FileInvariant, PTL DEF Spec

=============================================================================
