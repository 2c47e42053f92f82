------------------------------ MODULE EventTable ------------------------------
(***************************************************************************)
(* The event table of a worker: the hash table of collections/mhash.h with *)
(* the key, hash and node of transport_collections.h, and the four ways    *)
(* transport_worker.c uses it.                                             *)
(*                                                                         *)
(* Open addressing: a bucket holds a node (exist) or not, and is dirty     *)
(* when some node had to step over it.  A walk goes on from a dirty bucket *)
(* and stops at a clean one.  When too many buckets are used or dirty, the *)
(* nodes move to a larger table (the shadow), a batch of buckets at a      *)
(* time: every later put and delete works on both tables and moves one     *)
(* more batch, and the last one swaps them.                                *)
(*                                                                         *)
(* A call of the table is one step: a worker is used by one thread.        *)
(***************************************************************************)
EXTENDS Integers, Sequences, FiniteSetsExt

CONSTANTS
  Fds,           \* file descriptors
  Ops,           \* the low 32 bits of user_data: buffer and event
  Hash,          \* their value; mh_int_t cuts the descriptor off user_data
  Timed,         \* the keys of requests that have a timeout
  Unused,        \* the content of a bucket that holds no node
  Primes,        \* __ac_prime_list
  MinBatch,      \* the least batch of a resize (256)
  BatchScale,    \* the part of the buckets a batch moves (256 * 1024)
  BuffersCount   \* worker->buffers_count

Keys == Fds \X Ops

ASSUME TableAssumption ==
  /\ Timed \subseteq Keys /\ Unused \notin Keys
  /\ Hash \in [Ops -> Nat]
  /\ Primes \in Seq(Nat \ {0, 1, 2}) /\ Primes # <<>>
  /\ \A i, j \in DOMAIN Primes : i < j => Primes[i] < Primes[j]
  /\ MinBatch \in Nat /\ 3 * MinBatch >= 10
  /\ BatchScale \in Nat \ {0} /\ BuffersCount \in Nat

\* n_buckets * MH_DENSITY, the upper_bound of a table of n buckets
UpperBoundOf(n) == (7 * n) \div 10

\* What the 31 numbers of __ac_prime_list have in common: they are primes, the
\* first is moved in one batch, and each is so much larger than the one before
\* that a table at its upper bound fits into the next size, with what may be
\* put while its nodes move.
ASSUME PrimesAssumption ==
  /\ Primes[1] =< MinBatch
  /\ \A i \in DOMAIN Primes :
       \A a, b \in 2..(Primes[i] - 1) : a * b # Primes[i]
  /\ \A i, j \in DOMAIN Primes : i < j =>
       UpperBoundOf(Primes[i]) + (Primes[i] - 1) \div MinBatch
         < UpperBoundOf(Primes[j])

VARIABLE table

(* ---- one array of buckets ---- *)

Buckets(n) ==
  [n |-> n, at |-> [i \in 0..(n - 1) |-> Unused], dirty |-> {},
   size |-> 0, nDirty |-> 0]

Exist(b, i) == b.at[i] # Unused
Existing(b) == {i \in DOMAIN b.at : Exist(b, i)}
Holds(b, i, key) == b.at[i] = key

UpperBound(b) == UpperBoundOf(b.n)

\* The bucket a walk for key reaches after j steps.
Bucket(b, key, j) ==
  LET k == Hash[key[2]] IN (k + j * (1 + (k % (b.n - 1)))) % b.n

Walk(b) == 0..(b.n - 1)

\* Where a walk for key stops: at the key or at the first clean bucket.
Stops(b, key) ==
  {j \in Walk(b) : LET i == Bucket(b, key, j)
                   IN Holds(b, i, key) \/ i \notin b.dirty}

\* mh_find and mh_get: the bucket of key, b.n (mh_end) when there is none.
Find(b, key) ==
  LET i == Bucket(b, key, Min(Stops(b, key)))
  IN IF Holds(b, i, key) THEN i ELSE b.n

\* The first bucket of the walk that is not taken by another key.
FirstUsable(b, key) ==
  Min({j \in Walk(b) : LET i == Bucket(b, key, j)
                       IN Holds(b, i, key) \/ ~Exist(b, i)})

\* Mutation of PutSlot: the nodes stepped over are not marked.
PutSlotUnmarked(b, key) ==
  LET new == Bucket(b, key, FirstUsable(b, key))
  IN  IF Exist(b, new) THEN b
      ELSE [b EXCEPT !.at[new] = key, !.size = @ + 1,
                     !.nDirty = IF new \in b.dirty THEN @ ELSE @ + 1]

\* put_slot and the copy that follows it: step over the other nodes and mark
\* them, then replace the node of this key further down, if any.
PutSlot(b, key) ==
  LET end    == FirstUsable(b, key)
      marked == [b EXCEPT !.dirty = @ \cup
                   {Bucket(b, key, j) : j \in 0..(end - 1)}]
      old    == Find(marked, key)
      new    == Bucket(b, key, end)
  IN  IF old # b.n
      THEN [marked EXCEPT !.at[old] = key]
      ELSE [marked EXCEPT !.at[new] = key, !.size = @ + 1,
                          !.nDirty = IF new \in b.dirty THEN @ ELSE @ + 1]

\* Mutation of Erase: a dirty bucket is counted off too.
EraseUncounted(b, i) ==
  IF i = b.n \/ ~Exist(b, i) THEN b
  ELSE [b EXCEPT !.at[i] = Unused, !.size = @ - 1, !.nDirty = @ - 1]

\* mh_del on one array: a dirty bucket stays in the chains it belongs to.
Erase(b, i) ==
  IF i = b.n \/ ~Exist(b, i) THEN b
  ELSE [b EXCEPT !.at[i] = Unused, !.size = @ - 1,
                 !.nDirty = IF i \in b.dirty THEN @ ELSE @ - 1]

(* ---- the table and its shadow ---- *)

\* The loop of mh_resize: shadow with the nodes of the buckets first..(end - 1).
MoveBuckets(main, shadow, first, end) ==
  LET move[i \in first..end] ==
        IF i = first THEN shadow
        ELSE IF Exist(main, i - 1) THEN PutSlot(move[i - 1], main.at[i - 1])
        ELSE move[i - 1]
  IN  move[end]

\* mh_resize: move the next batch; after the last one check the sizes
\* (abort) and let the shadow take the table's place.
Resize(t) ==
  LET end == IF t.position + t.batch < t.main.n
             THEN t.position + t.batch ELSE t.main.n
      moved == MoveBuckets(t.main, t.shadow, t.position, end)
  IN  IF end < t.main.n
      THEN [t EXCEPT !.shadow = moved, !.position = end]
      ELSE [t EXCEPT !.main = moved, !.shadow = Buckets(0), !.position = 0,
                     !.aborted = moved.size # t.main.size]

\* The batch of a resize: what the caller asks for, or a part of the buckets.
Batch(given, n) ==
  LET wanted == IF given > 0 THEN given ELSE n \div BatchScale
  IN  IF wanted < MinBatch THEN MinBatch ELSE wanted

\* The first prime of the list, from the current one on, that is enough.
NextPrime(prime, buckets) ==
  Min({p \in prime..Len(Primes) : p = Len(Primes) \/ Primes[p] >= buckets})

\* mh_start_resize; without memory for the shadow only the prime moves on.
StartResize(t, buckets, given, memory) ==
  IF t.position > 0 \/ buckets < t.main.n THEN t
  ELSE LET sized == [t EXCEPT !.prime = NextPrime(@, buckets),
                              !.batch = Batch(given, t.main.n)]
       IN  IF memory
           THEN Resize([sized EXCEPT !.shadow = Buckets(Primes[sized.prime])])
           ELSE sized

Crowded(t) == t.position = 0 /\ t.main.nDirty >= UpperBound(t.main)

\* Mutation of MakeRoom: the table never grows.
MakeRoomNever(t, memory) == t

\* What mh_put does before it looks for a bucket.
MakeRoom(t, memory) ==
  IF t.position > 0 THEN Resize(t)
  ELSE IF Crowded(t) THEN StartResize(t, t.main.n + 1, 0, memory) ELSE t

\* Mutation of Put: the put that makes the table grow is over with that.
PutOrGrow(t, key, memory) ==
  IF t.main.size = t.main.n THEN t
  ELSE IF Crowded(t) THEN MakeRoom(t, memory)
  ELSE LET u == MakeRoom(t, memory)
       IN  [u EXCEPT !.main = PutSlot(@, key),
                     !.shadow = IF u.position > 0 THEN PutSlot(@, key) ELSE @]

\* mh_put: a node is dropped when the table is full or cannot grow.
Put(t, key, memory) ==
  IF t.main.size = t.main.n THEN t
  ELSE LET u == MakeRoom(t, memory)
       IN  IF Crowded(t) /\ ~memory THEN u
           ELSE [u EXCEPT !.main = PutSlot(@, key),
                          !.shadow = IF u.position > 0
                                     THEN PutSlot(@, key) ELSE @]

\* Mutation of Del: the shadow is forgotten.
DelMainOnly(t, i) ==
  IF i = t.main.n \/ ~Exist(t.main, i) THEN t
  ELSE LET u == [t EXCEPT !.main = Erase(@, i)]
       IN  IF t.position = 0 THEN u ELSE Resize(u)

\* mh_del with mh_del_resize: the node leaves the shadow too, and one more
\* batch moves.
Del(t, i) ==
  IF i = t.main.n \/ ~Exist(t.main, i) THEN t
  ELSE LET u == [t EXCEPT !.main = Erase(@, i)]
       IN  IF t.position = 0 THEN u
           ELSE Resize([u EXCEPT !.shadow =
                          Erase(@, Find(@, t.main.at[i]))])

(* ---- transport_worker.c ---- *)

\* mh_events_new, and mh_events_reserve of transport_worker_initialize.
TableInit ==
  LET new == [main |-> Buckets(Primes[1]), shadow |-> Buckets(0), prime |-> 1,
              position |-> 0, batch |-> 0, aborted |-> FALSE]
  IN  table = StartResize(new, (10 * BuffersCount) \div 7, 0, TRUE)

\* transport_worker_add_event, which ignores what mh_events_put returns.
AddEvent(key, memory) == table' = Put(table, key, memory)

\* transport_worker_remove_event
RemoveEvent(key) == table' = Del(table, Find(table.main, key))

\* The second loop of cancel_by_fd and check_event_timeouts: the buckets
\* were collected in order before the first of them is deleted.
DelBuckets(t, buckets) ==
  LET del[i \in 0..t.main.n] ==
        IF i = 0 THEN t
        ELSE IF i - 1 \in buckets THEN Del(del[i - 1], i - 1)
        ELSE del[i - 1]
  IN  del[t.main.n]

\* Mutation of DeleteAll: the first collected bucket is skipped.
DeleteAllButFirst(buckets) ==
  table' = DelBuckets(table, {i \in buckets : \E j \in buckets : j < i})

DeleteAll(buckets) == table' = DelBuckets(table, buckets)

\* transport_worker_cancel_by_fd
CancelByFd(fd) ==
  DeleteAll({i \in Existing(table.main) : table.main.at[i][1] = fd})

\* transport_worker_check_event_timeouts: any timed request may have expired.
CheckEventTimeouts ==
  \E expired \in SUBSET {i \in Existing(table.main) : table.main.at[i] \in Timed} :
    DeleteAll(expired)

TableNext ==
  /\ ~table.aborted
  /\ \/ \E key \in Keys, memory \in BOOLEAN : AddEvent(key, memory)
     \/ \E key \in Keys : RemoveEvent(key)
     \/ \E fd \in Fds : CancelByFd(fd)
     \/ CheckEventTimeouts

TableSpec == TableInit /\ [][TableNext]_table

(* ---- properties ---- *)

Resizing == table.position > 0

BucketsOK(b) ==
  /\ b.at \in [0..(b.n - 1) -> Keys \cup {Unused}]
  /\ b.dirty \subseteq 0..(b.n - 1)
  /\ {b.n, b.size, b.nDirty} \subseteq Nat

\* The type invariant, with the counters: size counts the nodes and n_dirty
\* every bucket that is used or dirty, in both arrays, whatever order of puts
\* and deletes led here; upper_bound is tested against these counters only.
TableTypeOK ==
  /\ BucketsOK(table.main) /\ table.main.n > 2
  /\ BucketsOK(table.shadow)
  /\ table.prime \in DOMAIN Primes
  /\ table.position \in 0..(table.main.n - 1)
  /\ table.batch \in Nat
  /\ table.aborted \in BOOLEAN
  /\ \A b \in {table.main, table.shadow} :
       /\ b.size = Cardinality(Existing(b))
       /\ b.nDirty = Cardinality(Existing(b) \cup b.dirty)

\* Every node is found from its key in the bucket that holds it: its chain is
\* unbroken whatever was deleted on the way, and no key is there twice.
EntriesAreFound ==
  \A b \in {table.main, table.shadow} :
    \A i \in Existing(b) : Stops(b, b.at[i]) # {} /\ Find(b, b.at[i]) = i

\* No walk is endless: for every key there is a clean bucket to stop at, and
\* a free one to put it in; and the shadow is never crowded itself, which
\* mh_put would answer by resizing the shadow into itself.
WalksEnd ==
  /\ \A key \in Keys : \E j \in Walk(table.main) :
       LET i == Bucket(table.main, key, j)
       IN  i \notin table.main.dirty /\ ~Exist(table.main, i)
  /\ Resizing => table.shadow.nDirty < UpperBound(table.shadow)

\* During a resize the shadow holds nothing the table does not hold, and
\* everything of the buckets already moved, whatever was put and deleted
\* meanwhile: after the last batch it has as many nodes as the table, and the
\* abort() of mh_resize is not reached.
ShadowFollows ==
  /\ ~table.aborted
  /\ Resizing =>
       LET shadow == {table.shadow.at[i] : i \in Existing(table.shadow)}
           main(to) == {table.main.at[i] : i \in Existing(table.main) \cap (0..to)}
       IN  main(table.position - 1) \subseteq shadow
           /\ shadow \subseteq main(table.main.n - 1)

Entries == {table.main.at[i] : i \in Existing(table.main)}

\* Whatever state the table is in, an entry added next will be in it, unless
\* the table has to grow and has no memory: a request that is not in it can
\* be neither cancelled nor timed out.
AddedIsKept ==
  \A key \in Keys : Find(Put(table, key, TRUE).main, key)
                      # Put(table, key, TRUE).main.n

Map == INSTANCE EventMap WITH entries <- Entries, settled <- ~Resizing

\* The table is the map it promises to be: a put replaces one node, a
\* removal takes one away, and a cancellation or a timeout check takes
\* exactly the nodes it collected, unless a resize was under way.
ImplementsEventMap == Map!Spec

\* The request of key ends, its descriptor is cancelled, or it is one of those
\* the timeout checker has found expired, and cancels.
Ends(key) ==
  \/ RemoveEvent(key)
  \/ CancelByFd(key[1])
  \/ \E expired \in SUBSET {i \in Existing(table.main) : table.main.at[i] \in Timed} :
       (\E i \in expired : table.main.at[i] = key) /\ DeleteAll(expired)

\* 02-configuration.mdx, "Timeout for socket read operations": a request with a
\* timeout stays where the timeout checker finds it until it ends; what is done
\* about other descriptors does not take its entry away.
TimeoutsSurvive ==
  [][\A key \in Entries \cap Timed : key \notin Entries' => Ends(key)]_table
=============================================================================
