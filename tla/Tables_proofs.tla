----------------------------- MODULE Tables_proofs -----------------------------
(***************************************************************************)
(* The two tables in which a request leaves an entry until its result      *)
(* comes: the event table of the worker that executes it (EventTable), and *)
(* the handler tables of the channel that issued it (OutboundHandlers).    *)
(*                                                                         *)
(* The event table.  An array of buckets is Sound when its counters are    *)
(* right, no key is there twice, and every bucket before a node on the     *)
(* walk of its key is dirty (Chained).  A walk visits every bucket once,   *)
(* because the number of buckets is prime and its stride is smaller; so    *)
(* one bucket neither used nor dirty ends every walk, and the node of a    *)
(* chained key is met first.  While the nodes move to the shadow, Moving   *)
(* counts the puts since the move began: each came after a batch, so they  *)
(* are too few to fill either array, and whatever the shadow lacks is      *)
(* still ahead of the move (Follows).                                      *)
(*                                                                         *)
(* The handler tables.  For every configuration: a counter of a batch      *)
(* never passes its size, because an entry of a table is used up by the    *)
(* call it causes, even when it is called for a later write.  If every     *)
(* write gives both handlers and a batch is linked, the reports are true   *)
(* and complete.  A result of a linked batch can only extend a run of      *)
(* successes followed by a run of errors, and the two counters are the     *)
(* lengths of these runs (InOrder); and a buffer under way has the         *)
(* handlers of its own write in both tables (OwnHandlers), so that what    *)
(* an earlier write left there is never called.  Once the channel is       *)
(* inactive the rest of a batch is dropped, and its counters stand still.  *)
(***************************************************************************)
EXTENDS OutboundHandlers, EventTable, FiniteSetTheorems, WellFoundedInduction,
        TLAPS

-----------------------------------------------------------------------------
(* Numbers.                                                                *)

\* A set of numbers that is not empty has a least element.
LEMMA MinIsElement ==
  ASSUME NEW S \in SUBSET Nat, S # {}
  PROVE  Min(S) \in S /\ \A y \in S : Min(S) =< y
<1> DEFINE less == {ss \in Nat \X Nat : ss[1] < ss[2]}
<1>1. PICK x \in S : \A y \in S : <<y, x>> \notin less
  <2>1. IsWellFoundedOn(less, Nat)
    BY NatLessThanWellFounded, Zenon DEF OpToRel
  <2> HIDE DEF less
  <2> QED
    BY <2>1, WFMin
<1>2. \A y \in S : x =< y
  <2> TAKE y \in S
  <2>1. <<y, x>> \notin less
    BY <1>1
  <2> QED
    BY <2>1
<1> QED
  BY <1>2 DEF Min

\* Induction, on a set instead of a predicate: what holds of 0 and of n + 1
\* when it holds of n holds of every number.
LEMMA NatSetInduction ==
  ASSUME NEW S, 0 \in S, \A n \in Nat : n \in S => n + 1 \in S
  PROVE  \A n \in Nat : n \in S
<1> DEFINE Rest == {n \in Nat : n \notin S}
<1>1. SUFFICES ASSUME Rest # {} PROVE FALSE
  OBVIOUS
<1>2. Min(Rest) \in Rest /\ \A y \in Rest : Min(Rest) =< y
  BY <1>1, MinIsElement
<1> DEFINE m == Min(Rest)
<1>3. m \in Nat /\ m \notin S /\ m # 0
  BY <1>2
<1>4. m - 1 \in Nat /\ m - 1 \in S
  BY <1>2, <1>3
<1> HIDE DEF m
<1>5. (m - 1) + 1 \in S
  BY <1>4
<1> QED
  BY <1>3, <1>5

\* Division with a rest.
LEMMA Division ==
  ASSUME NEW a \in Int, NEW n \in Nat \ {0}
  PROVE  /\ a \div n \in Int /\ a % n \in 0..(n - 1)
         /\ a = n * (a \div n) + (a % n)
<1>1. a \div n \in Int
  OBVIOUS
<1>2. a % n \in 0..(n - 1)
  OBVIOUS
<1>3. a = n * (a \div n) + (a % n)
  OBVIOUS
<1> QED
  BY <1>1, <1>2, <1>3

LEMMA ProductType == ASSUME NEW m \in Int, NEW n \in Int PROVE m * n \in Int
OBVIOUS

LEMMA OneMore ==
  ASSUME NEW m \in Int, NEW n \in Int PROVE m * (n + 1) = m * n + m
OBVIOUS

LEMMA NatProduct == ASSUME NEW m \in Nat, NEW n \in Nat PROVE m * n \in Nat
OBVIOUS

\* Two factors that are not 0 are not more than their product.
LEMMA FactorBound ==
  ASSUME NEW m \in Nat \ {0}, NEW n \in Nat \ {0}
  PROVE  m * n >= m /\ m * n >= n
<1>1. m * n = n * m /\ m * n = m + m * (n - 1) /\ n * m = n + n * (m - 1)
  OBVIOUS
<1>2. m * (n - 1) \in Nat /\ n * (m - 1) \in Nat
  BY NatProduct
<1> QED
  BY <1>1, <1>2

\* n divides a.
Divides(n, a) == \E q \in Int : a = q * n

IsPrime(n) == n \in Nat \ {0, 1} /\ \A a, b \in 2..(n - 1) : a * b # n

LEMMA DividesRest ==
  ASSUME NEW n \in Int, NEW s \in Int, NEW d \in Int, NEW m \in Int, NEW q \in Int,
         Divides(n, d * s), Divides(n, m * s)
  PROVE  Divides(n, (d - q * m) * s)
<1>1. PICK u \in Int : d * s = u * n
  BY DEF Divides
<1>2. PICK v \in Int : m * s = v * n
  BY DEF Divides
<1>3. (d - q * m) * s = d * s - q * (m * s)
  OBVIOUS
<1>4. q * (v * n) = (q * v) * n
  OBVIOUS
<1>5. u * n - (q * v) * n = (u - q * v) * n
  OBVIOUS
<1>6. q * v \in Int /\ u - q * v \in Int
  OBVIOUS
<1>7. (d - q * m) * s = (u - q * v) * n
  BY <1>1, <1>2, <1>3, <1>4, <1>5
<1> QED
  BY <1>6, <1>7 DEF Divides

\* Euclid: a prime that is more than d and s does not divide their product.
LEMMA PrimeDivides ==
  ASSUME NEW n, IsPrime(n), NEW s \in 1..(n - 1), NEW d \in 1..(n - 1)
  PROVE  ~Divides(n, d * s)
<1>1. n \in Nat /\ n > 1
  BY DEF IsPrime
<1> DEFINE D == {e \in 1..n : Divides(n, e * s)}
<1> SUFFICES ASSUME Divides(n, d * s) PROVE FALSE
  OBVIOUS
<1>2. d \in D
  BY <1>1
<1> DEFINE m == Min(D)
<1>3. m \in D /\ \A e \in D : m =< e
  <2>1. D \in SUBSET Nat /\ D # {}
    BY <1>1, <1>2
  <2> QED
    BY <2>1, MinIsElement
<1>4. m \in 1..(n - 1)
  <2>1. m =< d /\ m \in 1..n
    BY <1>2, <1>3
  <2> HIDE DEF m
  <2> QED
    BY <2>1, <1>1
<1>5. Divides(n, m * s)
  BY <1>3
<1>6. Divides(n, n * s)
  <2>1. n * s = s * n
    BY <1>1
  <2> QED
    BY <2>1, <1>1 DEF Divides
<1>7. m # 1
  <2> SUFFICES ASSUME m = 1 PROVE FALSE
    OBVIOUS
  <2>1. PICK q \in Int : m * s = q * n
    BY <1>5 DEF Divides
  <2>2. s = q * n
    BY <2>1, <1>1
  <2>3. CASE q =< 0
    <3>1. (0 - q) * n \in Nat /\ (0 - q) * n = 0 - q * n
      BY <2>3, <1>1, NatProduct
    <3> QED
      BY <2>2, <3>1, <1>1
  <2>4. CASE q > 0
    <3>1. q * n >= n
      BY <2>4, <1>1, FactorBound
    <3> QED
      BY <2>2, <3>1, <1>1
  <2> QED
    BY <2>3, <2>4
<1>8. m \in 2..(n - 1)
  BY <1>4, <1>7, <1>1
<1> DEFINE q == n \div m
           r == n % m
<1> HIDE DEF m
<1>9. q \in Int /\ r \in 0..(m - 1) /\ n = m * q + r
  <2>1. m \in Nat \ {0} /\ n \in Int
    BY <1>1, <1>8
  <2> QED
    BY <2>1, Division
<1> HIDE DEF q, r
<1>10. r = n - q * m
  BY <1>1, <1>8, <1>9
<1>11. Divides(n, r * s)
  <2>1. n \in Int /\ s \in Int /\ m \in Int
    BY <1>1, <1>8
  <2>2. Divides(n, (n - q * m) * s)
    BY <2>1, <1>5, <1>6, <1>9, DividesRest
  <2> QED
    BY <2>2, <1>10
<1>12. r = 0
  <2> SUFFICES ASSUME r # 0 PROVE FALSE
    OBVIOUS
  <2>1. r \in 1..n
    BY <1>1, <1>8, <1>9
  <2>2. r \in D
    BY <2>1, <1>11
  <2> QED
    BY <2>2, <1>3, <1>8, <1>9
<1>13. n = m * q
  BY <1>1, <1>8, <1>9, <1>12
<1>14. q > 0
  <2> SUFFICES ASSUME q =< 0 PROVE FALSE
    BY <1>9
  <2>1. m * (0 - q) \in Nat /\ m * (0 - q) = 0 - m * q
    BY <1>8, <1>9, NatProduct
  <2> QED
    BY <2>1, <1>13, <1>1, <1>9, <1>8, ProductType
<1>15. q # 1
  BY <1>13, <1>8, <1>1
<1>16. q < n
  <2>1. m * q = 2 * q + (m - 2) * q
    BY <1>8, <1>9
  <2>2. (m - 2) * q \in Nat
    BY <1>8, <1>9, <1>14, NatProduct
  <2> QED
    BY <2>1, <2>2, <1>13, <1>14, <1>9
<1>17. q \in 2..(n - 1)
  BY <1>1, <1>9, <1>14, <1>15, <1>16
<1>18. m * q # n
  BY <1>8, <1>17 DEF IsPrime
<1> QED
  BY <1>13, <1>18

-----------------------------------------------------------------------------
(* Walks.                                                                  *)

PrimeSizes == {Primes[i] : i \in DOMAIN Primes}

LEMMA SizesArePrime ==
  ASSUME NEW n \in PrimeSizes
  PROVE  n \in Nat /\ n > 2 /\ IsPrime(n)
<1>1. PICK i \in DOMAIN Primes : n = Primes[i]
  BY DEF PrimeSizes
<1>2. Primes[i] \in Nat \ {0, 1, 2}
  BY TableAssumption
<1>3. \A a, b \in 2..(n - 1) : a * b # n
  BY <1>1, PrimesAssumption
<1> QED
  BY <1>1, <1>2, <1>3 DEF IsPrime

\* The step of a walk in a table of n buckets.
Stride(key, n) == 1 + (Hash[key[2]] % (n - 1))

LEMMA HashType == ASSUME NEW key \in Keys PROVE Hash[key[2]] \in Nat
BY TableAssumption DEF Keys

LEMMA StrideType ==
  ASSUME NEW key \in Keys, NEW n \in Nat, n > 2
  PROVE  Stride(key, n) \in 1..(n - 1)
<1> DEFINE k == Hash[key[2]]
<1>1. k \in Int /\ n - 1 \in Nat \ {0}
  BY HashType
<1> HIDE DEF k
<1>2. k % (n - 1) \in 0..(n - 2)
  BY <1>1, Division
<1> QED
  BY <1>2 DEF Stride, k

LEMMA BucketIs ==
  ASSUME NEW b, NEW key, NEW j
  PROVE  Bucket(b, key, j) = (Hash[key[2]] + j * Stride(key, b.n)) % b.n
BY DEF Bucket, Stride

LEMMA BucketType ==
  ASSUME NEW b, b.n \in Nat, b.n > 2, NEW key \in Keys, NEW j \in Nat
  PROVE  Bucket(b, key, j) \in 0..(b.n - 1)
<1> DEFINE k == Hash[key[2]]
           s == Stride(key, b.n)
<1>1. k \in Int /\ s \in Int
  BY HashType, StrideType
<1> HIDE DEF k, s
<1>2. k + j * s \in Int
  BY <1>1, ProductType
<1>3. (k + j * s) % b.n \in 0..(b.n - 1)
  <2> DEFINE x == k + j * s
             n == b.n
  <2>1. x \in Int /\ n \in Nat \ {0}
    BY <1>2
  <2> HIDE DEF x, n
  <2>2. x % n \in 0..(n - 1)
    BY <2>1, Division
  <2> QED
    BY <2>2 DEF x, n
<1> QED
  BY <1>3, BucketIs DEF k, s

\* A walk of n steps through n buckets, n a prime, meets no bucket twice.
LEMMA WalkMeetsOnce ==
  ASSUME NEW b, b.n \in PrimeSizes, NEW key \in Keys,
         NEW i \in Walk(b), NEW j \in Walk(b), i < j
  PROVE  Bucket(b, key, i) # Bucket(b, key, j)
<1> DEFINE n == b.n
           k == Hash[key[2]]
           s == Stride(key, n)
           x == k + i * s
           y == k + j * s
<1>1. n \in Nat /\ n > 2 /\ IsPrime(n)
  BY SizesArePrime
<1>2. k \in Nat /\ s \in 1..(n - 1) /\ i \in 0..(n - 1) /\ j \in 0..(n - 1)
  BY <1>1, HashType, StrideType DEF Walk
<1> SUFFICES ASSUME x % n = y % n PROVE FALSE
  BY BucketIs
<1> HIDE DEF n, k, s
<1>3. x \in Int /\ y \in Int /\ y - x = (j - i) * s
  BY <1>1, <1>2
<1> HIDE DEF x, y
<1> DEFINE u == x \div n
           v == y \div n
<1>4. u \in Int /\ v \in Int /\ x = n * u + (x % n) /\ y = n * v + (y % n)
      /\ x % n \in Int
  <2>1. n \in Nat \ {0}
    BY <1>1
  <2>2. u \in Int /\ x % n \in 0..(n - 1) /\ x = n * u + (x % n)
    BY <2>1, <1>3, Division
  <2>3. v \in Int /\ y = n * v + (y % n)
    BY <2>1, <1>3, Division
  <2> HIDE DEF u, v
  <2> QED
    BY <2>1, <2>2, <2>3
<1> HIDE DEF u, v
<1>5. y - x = n * v - n * u
  BY <1>1, <1>4, ProductType
<1>6. n * v - n * u = (v - u) * n
  BY <1>1, <1>4
<1>7. Divides(n, (j - i) * s)
  BY <1>3, <1>4, <1>5, <1>6 DEF Divides
<1>8. j - i \in 1..(n - 1)
  BY <1>1, <1>2
<1> QED
  BY <1>1, <1>2, <1>7, <1>8, PrimeDivides

\* So while some bucket is neither used nor dirty, every walk gets to one.
LEMMA WalkLeaves ==
  ASSUME NEW b, b.n \in PrimeSizes, NEW key \in Keys,
         NEW T, IsFiniteSet(T), Cardinality(T) < b.n
  PROVE  \E j \in Walk(b) : Bucket(b, key, j) \notin T
<1> SUFFICES ASSUME \A j \in Walk(b) : Bucket(b, key, j) \in T PROVE FALSE
  OBVIOUS
<1> DEFINE f == [j \in Walk(b) |-> Bucket(b, key, j)]
<1>1. b.n \in Nat /\ b.n > 2
  BY SizesArePrime
<1>2. IsFiniteSet(Walk(b)) /\ Cardinality(Walk(b)) = b.n
  <2>1. 0 \in Int /\ b.n - 1 \in Int /\ ~(0 > b.n - 1) /\ (b.n - 1) - 0 + 1 = b.n
    BY <1>1
  <2>2. /\ IsFiniteSet(0..(b.n - 1))
        /\ Cardinality(0..(b.n - 1)) = (b.n - 1) - 0 + 1
    BY <2>1, FS_Interval
  <2> QED
    BY <2>1, <2>2 DEF Walk
<1>3. f \in [Walk(b) -> T]
  OBVIOUS
<1>4. \A i \in Walk(b) : f[i] = Bucket(b, key, i)
  OBVIOUS
<1> HIDE DEF f
<1>5. PICK i \in Walk(b), j \in Walk(b) : i # j /\ f[i] = f[j]
  BY <1>2, <1>3, FS_PigeonHole
<1>6. Bucket(b, key, i) = Bucket(b, key, j)
  BY <1>4, <1>5
<1>7. i \in Int /\ j \in Int
  BY DEF Walk
<1>8. i < j \/ j < i
  BY <1>5, <1>7
<1> QED
  BY <1>6, <1>8, WalkMeetsOnce

-----------------------------------------------------------------------------
(* One array of buckets.                                                   *)

Cells == Keys \cup {Unused}

Arrays ==
  [n : Nat, at : UNION {[0..(m - 1) -> Cells] : m \in Nat},
   dirty : SUBSET Nat, size : Nat, nDirty : Nat]

Elements(b) == {b.at[i] : i \in Existing(b)}

\* The buckets before the i-th on the walk of its key are dirty.
Chained(b, i) ==
  \E j \in Walk(b) :
    /\ Bucket(b, b.at[i], j) = i
    /\ \A m \in 0..(j - 1) : Bucket(b, b.at[i], m) \in b.dirty

Sound(b) ==
  /\ b \in Arrays
  /\ b.at \in [0..(b.n - 1) -> Cells]
  /\ b.dirty \subseteq 0..(b.n - 1)
  /\ b.size = Cardinality(Existing(b))
  /\ b.nDirty = Cardinality(Existing(b) \cup b.dirty)
  /\ \A i \in Existing(b) : Chained(b, i)
  /\ \A i, j \in Existing(b) : b.at[i] = b.at[j] => i = j

\* An array of a size of the list, with a bucket to end every walk.
Roomed(b) == Sound(b) /\ b.n \in PrimeSizes /\ b.nDirty < b.n

LEMMA KeysAreUsed == \A key \in Keys : key # Unused
BY TableAssumption

LEMMA ExistingIs ==
  ASSUME NEW b, b.n \in Nat, b.at \in [0..(b.n - 1) -> Cells]
  PROVE  /\ \A i : i \in Existing(b) <=> i \in 0..(b.n - 1) /\ b.at[i] # Unused
         /\ \A i \in Existing(b) : i \in Nat /\ i < b.n /\ b.at[i] \in Keys
         /\ Elements(b) \subseteq Keys
         /\ IsFiniteSet(Existing(b))
<1>1. \A i : i \in Existing(b) <=> i \in 0..(b.n - 1) /\ b.at[i] # Unused
  BY DEF Existing, Exist
<1>2. \A i \in Existing(b) : i \in Nat /\ i < b.n /\ b.at[i] \in Keys
  BY <1>1 DEF Cells
<1>3. Elements(b) \subseteq Keys
  BY <1>2 DEF Elements
<1>4. IsFiniteSet(0..(b.n - 1)) /\ Existing(b) \subseteq 0..(b.n - 1)
  BY <1>1, FS_Interval
<1> QED
  BY <1>1, <1>2, <1>3, <1>4, FS_Subset

LEMMA ArrayType ==
  ASSUME NEW b \in Arrays
  PROVE  b.n \in Nat /\ b.size \in Nat /\ b.nDirty \in Nat
BY DEF Arrays

LEMMA SoundFacts ==
  ASSUME NEW b, Sound(b)
  PROVE  /\ b.n \in Nat /\ b.size \in Nat /\ b.nDirty \in Nat
         /\ \A i : i \in Existing(b) <=> i \in 0..(b.n - 1) /\ b.at[i] # Unused
         /\ \A i \in Existing(b) : i \in Nat /\ i < b.n /\ b.at[i] \in Keys
         /\ Elements(b) \subseteq Keys
         /\ IsFiniteSet(Existing(b)) /\ IsFiniteSet(Existing(b) \cup b.dirty)
         /\ Existing(b) \cup b.dirty \subseteq 0..(b.n - 1)
         /\ b.size =< b.nDirty
<1>1. b.n \in Nat /\ b.size \in Nat /\ b.nDirty \in Nat
  BY ArrayType DEF Sound
<1>2. /\ \A i : i \in Existing(b) <=> i \in 0..(b.n - 1) /\ b.at[i] # Unused
      /\ \A i \in Existing(b) : i \in Nat /\ i < b.n /\ b.at[i] \in Keys
      /\ Elements(b) \subseteq Keys
      /\ IsFiniteSet(Existing(b))
  BY <1>1, ExistingIs DEF Sound
<1>3. Existing(b) \cup b.dirty \subseteq 0..(b.n - 1)
  BY <1>2 DEF Sound
<1>4. IsFiniteSet(0..(b.n - 1))
  <2>1. 0 \in Int /\ b.n - 1 \in Int
    BY <1>1
  <2> QED
    BY <2>1, FS_Interval
<1>5. IsFiniteSet(Existing(b) \cup b.dirty)
  BY <1>3, <1>4, FS_Subset
<1>6. Existing(b) \in SUBSET (Existing(b) \cup b.dirty)
  OBVIOUS
<1>7. Cardinality(Existing(b)) =< Cardinality(Existing(b) \cup b.dirty)
  BY <1>5, <1>6, FS_Subset
<1> QED
  BY <1>1, <1>2, <1>3, <1>5, <1>7 DEF Sound

\* A node is found from its key, in the bucket that holds it.
LEMMA FindHolds ==
  ASSUME NEW b, Sound(b), b.n \in PrimeSizes, NEW i \in Existing(b)
  PROVE  Stops(b, b.at[i]) # {} /\ Find(b, b.at[i]) = i
<1> DEFINE key == b.at[i]
           m == Min(Stops(b, key))
<1>1. key \in Keys /\ key # Unused /\ b.n \in Nat /\ b.n > 2
  BY SoundFacts, SizesArePrime
<1>2. PICK j \in Walk(b) : /\ Bucket(b, key, j) = i
                           /\ \A k \in 0..(j - 1) : Bucket(b, key, k) \in b.dirty
  BY DEF Sound, Chained
<1>3. j \in Stops(b, key)
  BY <1>2 DEF Stops, Holds
<1>4. Stops(b, key) \in SUBSET Nat
  BY <1>1 DEF Stops, Walk
<1>5. m \in Stops(b, key) /\ m =< j
  BY <1>3, <1>4, MinIsElement
<1> HIDE DEF m
<1>6. m \in Nat /\ j \in Nat
  BY <1>2, <1>4, <1>5, <1>1 DEF Walk
<1>7. Bucket(b, key, m) = i
  <2>1. CASE m = j
    BY <2>1, <1>2
  <2>2. CASE m # j
    <3>1. m \in 0..(j - 1)
      BY <2>2, <1>5, <1>6
    <3>2. Bucket(b, key, m) \in b.dirty
      BY <3>1, <1>2
    <3>3. b.at[Bucket(b, key, m)] = key
      BY <3>2, <1>5 DEF Stops, Holds
    <3>4. Bucket(b, key, m) \in 0..(b.n - 1)
      BY <1>1, <1>6, BucketType
    <3>5. Bucket(b, key, m) \in Existing(b)
      BY <1>1, <3>3, <3>4, SoundFacts
    <3> QED
      BY <3>3, <3>5 DEF Sound
  <2> QED
    BY <2>1, <2>2
<1> QED
  BY <1>3, <1>7 DEF Find, Holds, m

\* What is not there is not found, and the walk ends.
LEMMA FindMisses ==
  ASSUME NEW b, Roomed(b), NEW key \in Keys, key \notin Elements(b)
  PROVE  Stops(b, key) # {} /\ Find(b, key) = b.n
<1> DEFINE m == Min(Stops(b, key))
<1>1. b.n \in Nat /\ b.n > 2 /\ key # Unused
  BY SizesArePrime, KeysAreUsed DEF Roomed
<1>2. PICK j \in Walk(b) : Bucket(b, key, j) \notin Existing(b) \cup b.dirty
  BY SoundFacts, WalkLeaves DEF Roomed, Sound
<1>3. j \in Stops(b, key)
  BY <1>2 DEF Stops
<1>4. Stops(b, key) \in SUBSET Nat
  BY <1>1 DEF Stops, Walk
<1>5. m \in Stops(b, key)
  BY <1>3, <1>4, MinIsElement
<1> HIDE DEF m
<1>6. Bucket(b, key, m) \in 0..(b.n - 1)
  BY <1>1, <1>4, <1>5, BucketType
<1>7. ~Holds(b, Bucket(b, key, m), key)
  BY <1>1, <1>6, SoundFacts DEF Holds, Roomed, Elements
<1> QED
  BY <1>3, <1>7 DEF Find, m

\* Where put_slot stops: everything before is used by other keys.
LEMMA FirstUsableIs ==
  ASSUME NEW b, Roomed(b), NEW key \in Keys
  PROVE  LET end == FirstUsable(b, key)
         IN  /\ end \in Walk(b)
             /\ \/ Holds(b, Bucket(b, key, end), key)
                \/ ~Exist(b, Bucket(b, key, end))
             /\ \A j \in 0..(end - 1) : Bucket(b, key, j) \in Existing(b)
<1> DEFINE usable == {j \in Walk(b) : LET i == Bucket(b, key, j)
                                      IN Holds(b, i, key) \/ ~Exist(b, i)}
           end == Min(usable)
<1>1. b.n \in Nat /\ b.n > 2
  BY SizesArePrime DEF Roomed
<1>2. PICK j \in Walk(b) : Bucket(b, key, j) \notin Existing(b) \cup b.dirty
  BY SoundFacts, WalkLeaves DEF Roomed, Sound
<1>3. Bucket(b, key, j) \in 0..(b.n - 1)
  BY <1>1, BucketType DEF Walk
<1>4. j \in usable
  BY <1>2, <1>3, SoundFacts DEF Roomed, Exist
<1>5. usable \in SUBSET Nat
  BY <1>1 DEF Walk
<1>6. end \in usable /\ \A k \in usable : end =< k
  BY <1>4, <1>5, MinIsElement
<1>7. end = FirstUsable(b, key)
  BY DEF FirstUsable
<1>8. ASSUME NEW k \in 0..(end - 1) PROVE Bucket(b, key, k) \in Existing(b)
  <2>1. end \in Walk(b)
    BY <1>6
  <2> HIDE DEF end
  <2>2. k \in Walk(b) /\ k \in Nat /\ ~(end =< k)
    BY <2>1, <1>1 DEF Walk
  <2>3. k \notin usable
    BY <2>2, <1>6
  <2>4. Exist(b, Bucket(b, key, k))
    BY <2>2, <2>3
  <2>5. Bucket(b, key, k) \in 0..(b.n - 1)
    BY <1>1, <2>2, BucketType
  <2> QED
    BY <2>4, <2>5, SoundFacts DEF Roomed, Exist
<1> QED
  BY <1>6, <1>7, <1>8

LEMMA SameWalk ==
  ASSUME NEW b, NEW c, c.n = b.n
  PROVE  /\ \A key, j : Bucket(c, key, j) = Bucket(b, key, j)
         /\ Walk(c) = Walk(b) /\ UpperBound(c) = UpperBound(b)
BY DEF Bucket, Walk, UpperBound

LEMMA ChainedKept ==
  ASSUME NEW b, NEW c, c.n = b.n, b.dirty \subseteq c.dirty,
         NEW i, c.at[i] = b.at[i], Chained(b, i)
  PROVE  Chained(c, i)
<1> DEFINE key == b.at[i]
<1>1. PICK j \in Walk(b) : /\ Bucket(b, key, j) = i
                           /\ \A m \in 0..(j - 1) : Bucket(b, key, m) \in b.dirty
  BY DEF Chained
<1>2. j \in Walk(c) /\ \A k : Bucket(c, key, k) = Bucket(b, key, k)
  BY SameWalk
<1>3. \A m \in 0..(j - 1) : Bucket(c, key, m) \in c.dirty
  BY <1>1, <1>2
<1>4. Bucket(c, c.at[i], j) = i
  BY <1>1, <1>2
<1>5. \A m \in 0..(j - 1) : Bucket(c, c.at[i], m) \in c.dirty
  BY <1>3
<1> QED
  BY <1>2, <1>4, <1>5 DEF Chained

\* Marking used buckets as dirty changes nothing but the dirty buckets.
LEMMA MarkingIsSound ==
  ASSUME NEW b, Sound(b), NEW D, D \subseteq Existing(b),
         NEW c, c = [b EXCEPT !.dirty = @ \cup D]
  PROVE  /\ Sound(c) /\ Elements(c) = Elements(b) /\ Existing(c) = Existing(b)
         /\ c.n = b.n /\ c.at = b.at /\ c.size = b.size /\ c.nDirty = b.nDirty
         /\ c.dirty = b.dirty \cup D
<1>1. b \in Arrays /\ D \subseteq Nat
  BY SoundFacts DEF Sound
<1>2. /\ c \in Arrays /\ c.n = b.n /\ c.at = b.at /\ c.size = b.size
      /\ c.nDirty = b.nDirty /\ c.dirty = b.dirty \cup D
  BY <1>1 DEF Arrays
<1>3. Existing(c) = Existing(b) /\ Elements(c) = Elements(b)
  BY <1>2 DEF Existing, Elements, Exist
<1>4. Existing(c) \cup c.dirty = Existing(b) \cup b.dirty
  BY <1>2, <1>3
<1>5. ASSUME NEW i \in Existing(c) PROVE Chained(c, i)
  <2>1. Chained(b, i)
    BY <1>3, <1>5 DEF Sound
  <2> QED
    BY <2>1, <1>2, ChainedKept
<1>6. c.dirty \subseteq 0..(c.n - 1)
  <2>1. b.dirty \subseteq 0..(b.n - 1) /\ Existing(b) \subseteq 0..(b.n - 1)
    BY SoundFacts DEF Sound
  <2> QED
    BY <1>2, <2>1
<1>7. /\ c.at \in [0..(c.n - 1) -> Cells]
      /\ c.size = Cardinality(Existing(c))
      /\ c.nDirty = Cardinality(Existing(c) \cup c.dirty)
  <2>1. /\ b.at \in [0..(b.n - 1) -> Cells]
        /\ b.size = Cardinality(Existing(b))
        /\ b.nDirty = Cardinality(Existing(b) \cup b.dirty)
    BY DEF Sound
  <2> QED
    BY <1>2, <1>3, <1>4, <2>1
<1>8. \A i, j \in Existing(c) : c.at[i] = c.at[j] => i = j
  BY <1>2, <1>3 DEF Sound
<1>9. Sound(c)
  BY <1>2, <1>5, <1>6, <1>7, <1>8 DEF Sound
<1> QED
  BY <1>2, <1>3, <1>9

Fill(b, new, key) ==
  [b EXCEPT !.at[new] = key, !.size = @ + 1,
            !.nDirty = IF new \in b.dirty THEN @ ELSE @ + 1]

\* A node put into a free bucket at the end of a marked chain.
LEMMA FillingIsSound ==
  ASSUME NEW b, Sound(b), NEW key \in Keys, key \notin Elements(b),
         NEW end \in Walk(b), NEW new, new = Bucket(b, key, end),
         b.n > 2, new \notin Existing(b),
         \A j \in 0..(end - 1) : Bucket(b, key, j) \in b.dirty,
         NEW c, c = Fill(b, new, key)
  PROVE  /\ Sound(c) /\ Elements(c) = Elements(b) \cup {key} /\ c.n = b.n
         /\ c.nDirty =< b.nDirty + 1
         /\ c.at = [b.at EXCEPT ![new] = key]
         /\ new \in 0..(b.n - 1)
<1>1. b \in Arrays /\ b.at \in [0..(b.n - 1) -> Cells]
  BY DEF Sound
<1>2. b.n \in Nat /\ key # Unused /\ key \in Cells
  BY SoundFacts, KeysAreUsed DEF Cells
<1>3. new \in 0..(b.n - 1)
  BY <1>2, BucketType DEF Walk
<1>4. [b.at EXCEPT ![new] = key] \in [0..(b.n - 1) -> Cells]
  BY <1>1, <1>2, <1>3
<1> DEFINE at == [b.at EXCEPT ![new] = key]
           nDirty == IF new \in b.dirty THEN b.nDirty ELSE b.nDirty + 1
<1>5. at \in UNION {[0..(m - 1) -> Cells] : m \in Nat}
  BY <1>2, <1>4
<1>6. /\ c \in Arrays /\ c.n = b.n /\ c.at = at
      /\ c.size = b.size + 1 /\ c.dirty = b.dirty /\ c.nDirty = nDirty
  <2>1. c = [b EXCEPT !.at = at, !.size = b.size + 1, !.nDirty = nDirty]
    BY <1>1 DEF Arrays, Fill
  <2>2. b.size + 1 \in Nat /\ nDirty \in Nat
    BY <1>1, ArrayType
  <2> HIDE DEF at, nDirty
  <2> QED
    BY <1>1, <1>5, <2>1, <2>2 DEF Arrays
<1>7. at[new] = key /\ \A i \in 0..(b.n - 1) : i # new => at[i] = b.at[i]
  BY <1>1, <1>3
<1>7a. at \in [0..(b.n - 1) -> Cells]
  BY <1>4
<1> HIDE DEF at
<1>8. \A i : i \in Existing(b) <=> i \in 0..(b.n - 1) /\ b.at[i] # Unused
  BY SoundFacts
<1>9. \A i : i \in Existing(c) <=> i \in 0..(b.n - 1) /\ at[i] # Unused
  BY <1>2, <1>6, <1>7a, ExistingIs
<1>10. Existing(c) = Existing(b) \cup {new}
  BY <1>2, <1>3, <1>7, <1>8, <1>9
<1>11. Elements(c) = Elements(b) \cup {key}
  <2>1. \A k \in Existing(b) : c.at[k] = b.at[k]
    BY <1>6, <1>7, <1>8
  <2>2. c.at[new] = key
    BY <1>6, <1>7
  <2> QED
    BY <2>1, <2>2, <1>10 DEF Elements
<1>12. c.size = Cardinality(Existing(c))
  <2>1. IsFiniteSet(Existing(b)) /\ Cardinality(Existing(b)) = b.size
    BY SoundFacts DEF Sound
  <2>2. Cardinality(Existing(b) \cup {new}) = b.size + 1
    BY <2>1, FS_AddElement
  <2> QED
    BY <2>2, <1>6, <1>10
<1>13. c.nDirty = Cardinality(Existing(c) \cup c.dirty)
  <2> DEFINE T == Existing(b) \cup b.dirty
  <2>1. Existing(c) \cup c.dirty = T \cup {new}
    BY <1>6, <1>10
  <2>2. IsFiniteSet(T) /\ Cardinality(T) = b.nDirty
    BY SoundFacts DEF Sound
  <2>3. new \in T <=> new \in b.dirty
    OBVIOUS
  <2> HIDE DEF T
  <2>4. Cardinality(T \cup {new}) = IF new \in T THEN b.nDirty ELSE b.nDirty + 1
    BY <2>2, FS_AddElement
  <2> QED
    BY <1>6, <2>1, <2>3, <2>4
<1>14. ASSUME NEW i \in Existing(c) PROVE Chained(c, i)
  <2>1. CASE i = new
    <3>1. c.at[i] = key /\ end \in Walk(c)
      BY <2>1, <1>6, <1>7, SameWalk
    <3>2. \A k : Bucket(c, key, k) = Bucket(b, key, k)
      <4>1. c.n = b.n
        BY <1>6
      <4> QED
        BY <4>1 DEF Bucket
    <3>3. /\ Bucket(c, c.at[i], end) = i
          /\ \A m \in 0..(end - 1) : Bucket(c, c.at[i], m) \in c.dirty
      BY <2>1, <3>1, <3>2, <1>6
    <3> QED
      BY <3>1, <3>3 DEF Chained
  <2>2. CASE i # new
    <3>1. i \in Existing(b) /\ c.at[i] = b.at[i]
      BY <2>2, <1>6, <1>7, <1>8, <1>10
    <3>2. Chained(b, i)
      BY <3>1 DEF Sound
    <3> QED
      BY <3>1, <3>2, <1>6, ChainedKept
  <2> QED
    BY <2>1, <2>2
<1>15. ASSUME NEW i \in Existing(c), NEW j \in Existing(c), c.at[i] = c.at[j]
       PROVE  i = j
  <2>1. \A k \in Existing(b) : c.at[k] = b.at[k] /\ c.at[k] # key
    BY <1>6, <1>7, <1>8 DEF Elements
  <2>2. \A k, l \in Existing(b) : b.at[k] = b.at[l] => k = l
    BY DEF Sound
  <2> QED
    <3>1. c.at[new] = key
      BY <1>6, <1>7
    <3>2. i = new <=> j = new
      BY <2>1, <3>1, <1>10, <1>15
    <3>3. CASE i # new
      BY <2>1, <2>2, <3>2, <3>3, <1>10, <1>15
    <3> QED
      BY <3>2, <3>3
<1>16. c.nDirty =< b.nDirty + 1
  BY <1>1, <1>6, ArrayType
<1>17. c.dirty \subseteq 0..(c.n - 1) /\ c.at \in [0..(c.n - 1) -> Cells]
  BY <1>6, <1>7a DEF Sound
<1>18. Sound(c)
  BY <1>6, <1>12, <1>13, <1>14, <1>15, <1>17 DEF Sound
<1> QED
  BY <1>3, <1>6, <1>11, <1>16, <1>18 DEF at

\* put_slot: the key is there afterwards, once, and everything else as before.
LEMMA PutSlotIsSound ==
  ASSUME NEW b, Roomed(b), NEW key \in Keys, NEW c, c = PutSlot(b, key)
  PROVE  /\ Sound(c) /\ c.n = b.n
         /\ Elements(c) = Elements(b) \cup {key}
         /\ c.nDirty =< b.nDirty + 1
         /\ key \in Elements(b) => c.nDirty = b.nDirty
         /\ \A i \in 0..(b.n - 1) : c.at[i] = b.at[i] \/ c.at[i] = key
         /\ \A i \in Existing(b) : c.at[i] = b.at[i]
<1> DEFINE end    == FirstUsable(b, key)
           D      == {Bucket(b, key, j) : j \in 0..(end - 1)}
           marked == [b EXCEPT !.dirty = @ \cup D]
           old    == Find(marked, key)
           new    == Bucket(b, key, end)
<1>1. Sound(b) /\ b.n \in PrimeSizes /\ b.n \in Nat /\ b.n > 2 /\ b.nDirty < b.n
  BY SizesArePrime DEF Roomed
<1>2. /\ end \in Walk(b) /\ (Holds(b, new, key) \/ ~Exist(b, new))
      /\ \A j \in 0..(end - 1) : Bucket(b, key, j) \in Existing(b)
  BY FirstUsableIs
<1>3. c = IF old # b.n THEN [marked EXCEPT !.at[old] = key]
          ELSE [marked EXCEPT !.at[new] = key, !.size = @ + 1,
                              !.nDirty = IF new \in b.dirty THEN @ ELSE @ + 1]
  BY DEF PutSlot
<1> HIDE DEF end
<1>4. D \subseteq Existing(b) /\ marked = [b EXCEPT !.dirty = @ \cup D]
  BY <1>2
<1> HIDE DEF marked, D, old
<1>5. /\ Sound(marked) /\ Elements(marked) = Elements(b)
      /\ Existing(marked) = Existing(b)
      /\ marked.n = b.n /\ marked.at = b.at /\ marked.size = b.size
      /\ marked.nDirty = b.nDirty /\ marked.dirty = b.dirty \cup D
  BY <1>1, <1>4, MarkingIsSound
<1>6. Roomed(marked) /\ key # Unused
  BY <1>1, <1>5, KeysAreUsed DEF Roomed
<1>7. CASE key \in Elements(b)
  <2>1. PICK i \in Existing(marked) : marked.at[i] = key
    BY <1>5, <1>7 DEF Elements
  <2>2. old = i
    BY <2>1, <1>1, <1>5, FindHolds DEF old
  <2>3. i \in 0..(b.n - 1) /\ i # b.n
    <3>1. i \in 0..(marked.n - 1)
      BY <2>1, <1>5, SoundFacts
    <3> QED
      BY <3>1, <1>1, <1>5
  <2>4. c = [marked EXCEPT !.at[i] = key]
    BY <1>3, <2>2, <2>3
  <2>5. marked \in Arrays /\ marked.at \in [0..(b.n - 1) -> Cells]
    BY <1>5 DEF Sound
  <2>6. [marked.at EXCEPT ![i] = key] = marked.at
    BY <2>1, <2>3, <2>5
  <2>7. c = marked
    BY <2>4, <2>5, <2>6 DEF Arrays
  <2>8. c.nDirty = b.nDirty /\ b.nDirty \in Nat
    BY <2>7, <1>1, <1>5, SoundFacts
  <2>9. Elements(c) = Elements(b) \cup {key}
    BY <2>7, <1>5, <1>7
  <2> QED
    BY <2>7, <2>8, <2>9, <1>5
<1>8. CASE key \notin Elements(b)
  <2>1. old = b.n
    BY <1>5, <1>6, <1>8, FindMisses DEF old
  <2>2. new \in 0..(b.n - 1)
    BY <1>1, <1>2, BucketType DEF Walk
  <2>3. new \notin Existing(b)
    BY <1>1, <1>2, <1>6, <1>8, <2>2, SoundFacts DEF Holds, Exist, Elements
  <2>4. new \in marked.dirty <=> new \in b.dirty
    BY <1>4, <1>5, <2>3
  <2>5. c = Fill(marked, new, key)
    BY <1>3, <2>1, <2>4 DEF Fill
  <2>6. \A j \in 0..(end - 1) : Bucket(marked, key, j) \in marked.dirty
    BY <1>5, SameWalk DEF D
  <2>7. end \in Walk(marked) /\ new = Bucket(marked, key, end)
    BY <1>2, <1>5, SameWalk
  <2> HIDE DEF new
  <2>8. /\ Sound(c) /\ Elements(c) = Elements(marked) \cup {key}
        /\ c.n = marked.n /\ c.nDirty =< marked.nDirty + 1
        /\ c.at = [marked.at EXCEPT ![new] = key]
    <3>1. marked.n > 2 /\ new \notin Existing(marked) /\ key \notin Elements(marked)
      BY <1>1, <1>5, <1>8, <2>3
    <3> QED
      BY <3>1, <1>5, <2>5, <2>6, <2>7, FillingIsSound
  <2>9. b.at \in [0..(b.n - 1) -> Cells]
    BY <1>1 DEF Sound
  <2>10. c.at = [b.at EXCEPT ![new] = key]
    BY <2>8, <1>5
  <2>11. \A i \in 0..(b.n - 1) : c.at[i] = b.at[i] \/ c.at[i] = key
    BY <2>9, <2>10
  <2>12. \A i \in Existing(b) : c.at[i] = b.at[i]
    BY <2>3, <2>9, <2>10, <1>1, SoundFacts
  <2> QED
    BY <2>8, <2>11, <2>12, <1>5, <1>8
<1> QED
  BY <1>7, <1>8

\* mh_del on one array takes out the node of the bucket and no other.
LEMMA EraseIsSound ==
  ASSUME NEW b, Sound(b), NEW i \in Existing(b), NEW c, c = Erase(b, i),
         NEW key, key = b.at[i]
  PROVE  /\ Sound(c) /\ c.n = b.n
         /\ Elements(c) = Elements(b) \ {key}
         /\ c.nDirty =< b.nDirty
         /\ c.at = [b.at EXCEPT ![i] = Unused]
         /\ Existing(c) = Existing(b) \ {i}
<1>1. b \in Arrays /\ b.at \in [0..(b.n - 1) -> Cells] /\ b.n \in Nat
      /\ b.size \in Nat /\ b.nDirty \in Nat
  BY SoundFacts DEF Sound
<1>2. i \in 0..(b.n - 1) /\ b.at[i] # Unused /\ i # b.n
  <2>1. i \in 0..(b.n - 1) /\ b.at[i] # Unused
    BY SoundFacts
  <2> QED
    BY <2>1, <1>1
<1> DEFINE at == [b.at EXCEPT ![i] = Unused]
           S == Existing(b)
           T == Existing(b) \cup b.dirty
<1>3. at \in [0..(b.n - 1) -> Cells]
  BY <1>1, <1>2 DEF Cells
<1>4. at \in UNION {[0..(m - 1) -> Cells] : m \in Nat}
  BY <1>1, <1>3
<1>5. at[i] = Unused /\ \A k \in 0..(b.n - 1) : k # i => at[k] = b.at[k]
  BY <1>1, <1>2
<1>6. /\ IsFiniteSet(S) /\ IsFiniteSet(T) /\ i \in S /\ i \in T
      /\ b.size = Cardinality(S) /\ b.nDirty = Cardinality(T)
  BY SoundFacts DEF Sound
<1>7. Cardinality(S \ {i}) = b.size - 1 /\ Cardinality(S \ {i}) \in Nat
  <2>1. Cardinality(S \ {i}) = Cardinality(S) - 1 /\ IsFiniteSet(S \ {i})
    BY <1>6, FS_RemoveElement
  <2> QED
    BY <1>6, <2>1, FS_CardinalityType
<1>8. Cardinality(T \ {i}) = b.nDirty - 1 /\ Cardinality(T \ {i}) \in Nat
  <2>1. Cardinality(T \ {i}) = Cardinality(T) - 1 /\ IsFiniteSet(T \ {i})
    BY <1>6, FS_RemoveElement
  <2> QED
    BY <1>6, <2>1, FS_CardinalityType
<1>9. c = [b EXCEPT !.at[i] = Unused, !.size = @ - 1,
                    !.nDirty = IF i \in b.dirty THEN @ ELSE @ - 1]
  BY <1>2 DEF Erase, Exist
<1>10. c = [b EXCEPT !.at = at, !.size = b.size - 1,
                     !.nDirty = IF i \in b.dirty THEN b.nDirty ELSE b.nDirty - 1]
  BY <1>1, <1>9 DEF Arrays
<1>11. b.size - 1 \in Nat /\ b.nDirty - 1 \in Nat
  BY <1>7, <1>8
<1> HIDE DEF at
<1>12. /\ c \in Arrays /\ c.n = b.n /\ c.at = at
       /\ c.size = b.size - 1 /\ c.dirty = b.dirty
       /\ c.nDirty = IF i \in b.dirty THEN b.nDirty ELSE b.nDirty - 1
  BY <1>1, <1>4, <1>10, <1>11 DEF Arrays
<1>13. \A k : k \in Existing(c) <=> k \in 0..(b.n - 1) /\ at[k] # Unused
  BY <1>1, <1>3, <1>12, ExistingIs
<1>14. \A k : k \in S <=> k \in 0..(b.n - 1) /\ b.at[k] # Unused
  BY SoundFacts
<1>15. Existing(c) = S \ {i}
  BY <1>5, <1>13, <1>14
<1>16. Elements(c) = Elements(b) \ {b.at[i]}
  <2>1. \A k \in S : b.at[k] = b.at[i] => k = i
    BY DEF Sound
  <2>2. \A k \in S \ {i} : at[k] = b.at[k]
    BY <1>5, <1>14
  <2> QED
    BY <2>1, <2>2, <1>12, <1>15 DEF Elements
<1>17. c.nDirty = Cardinality(Existing(c) \cup c.dirty)
  <2>1. CASE i \in b.dirty
    <3>1. Existing(c) \cup c.dirty = T
      BY <2>1, <1>12, <1>15
    <3> QED
      BY <3>1, <2>1, <1>6, <1>12
  <2>2. CASE i \notin b.dirty
    <3>1. Existing(c) \cup c.dirty = T \ {i}
      BY <2>2, <1>12, <1>15
    <3> QED
      BY <3>1, <2>2, <1>8, <1>12
  <2> QED
    BY <2>1, <2>2
<1>18. ASSUME NEW k \in Existing(c) PROVE Chained(c, k)
  <2>1. k \in Existing(b) /\ c.at[k] = b.at[k]
    BY <1>5, <1>12, <1>14, <1>15
  <2>2. Chained(b, k)
    BY <2>1 DEF Sound
  <2> QED
    BY <2>1, <2>2, <1>12, ChainedKept
<1>19. ASSUME NEW k \in Existing(c), NEW l \in Existing(c), c.at[k] = c.at[l]
       PROVE  k = l
  <2>1. \A m \in Existing(c) : m \in Existing(b) /\ c.at[m] = b.at[m]
    BY <1>5, <1>12, <1>14, <1>15
  <2> QED
    BY <2>1, <1>19 DEF Sound
<1>20. Sound(c)
  BY <1>3, <1>7, <1>12, <1>15, <1>17, <1>18, <1>19 DEF Sound
<1>21. c.nDirty =< b.nDirty
  BY <1>1, <1>12
<1> QED
  BY <1>12, <1>15, <1>16, <1>20, <1>21 DEF at

-----------------------------------------------------------------------------
(* The table and its shadow.                                               *)

Behind(b, i) == {b.at[k] : k \in {l \in Existing(b) : l < i}}
Ahead(b, i) == {b.at[k] : k \in {l \in Existing(b) : l >= i}}

\* What the move has still to put into the shadow.
Pending(main, shadow, i) == Ahead(main, i) \ Elements(shadow)

\* The shadow follows main up to the i-th bucket, and what is pending leaves
\* it with at most this many buckets used or dirty.
Follows(main, shadow, i, most) ==
  /\ Sound(shadow) /\ shadow.n \in PrimeSizes
  /\ Behind(main, i) \subseteq Elements(shadow)
  /\ Elements(shadow) \subseteq Elements(main)
  /\ shadow.nDirty + Cardinality(Pending(main, shadow, i)) =< most

Tables ==
  [main : Arrays, shadow : Arrays, prime : DOMAIN Primes, position : Nat,
   batch : Nat, aborted : {FALSE}]

\* A table that is not being resized.
Settled(t) ==
  /\ t.position = 0 /\ t.shadow = Buckets(0)
  /\ t.main.nDirty =< UpperBound(t.main)

\* A resize that began with so many nodes and has seen so many puts, each of
\* them after a batch.
Moving(t, start, steps) ==
  /\ t.position \in 0..(t.main.n - 1)
  /\ t.batch >= MinBatch /\ t.batch * steps =< t.position
  /\ t.main.nDirty =< UpperBound(t.main) + steps
  /\ t.shadow.n = Primes[t.prime] /\ t.main.n =< t.shadow.n
  /\ start + (t.main.n - 1) \div MinBatch < UpperBound(t.shadow)
  /\ Follows(t.main, t.shadow, t.position, start + steps)

Whole(t) ==
  /\ t \in Tables /\ Sound(t.main)
  /\ \E k \in 1..t.prime : t.main.n = Primes[k]

\* The inductive invariant.
TableOK(t) ==
  /\ Whole(t)
  /\ \/ Settled(t)
     \/ t.position > 0 /\ \E start, steps \in Nat : Moving(t, start, steps)

\* As many nodes as the largest size of the list can be moved to.
Capacity ==
  LET last == Primes[Len(Primes)]
  IN  UpperBoundOf(last) - (last - 1) \div MinBatch - 1

Roomy == table.main.size =< Capacity

-----------------------------------------------------------------------------
(* The loop of mh_resize.                                                  *)

MoveOne(main, shadow, i) ==
  IF Exist(main, i) THEN PutSlot(shadow, main.at[i]) ELSE shadow

IsMove(move, main, shadow, first, end) ==
  move = [i \in first..end |-> IF i = first THEN shadow
                               ELSE MoveOne(main, move[i - 1], i - 1)]

\* A move over one more bucket extends the move before it.
LEMMA LongerMove ==
  ASSUME NEW main, NEW shadow, NEW first \in Nat, NEW end \in Nat, first =< end,
         NEW move, IsMove(move, main, shadow, first, end)
  PROVE  \E f : IsMove(f, main, shadow, first, end + 1)
<1> DEFINE f == [i \in first..(end + 1) |->
                   IF i = end + 1 THEN MoveOne(main, move[end], end) ELSE move[i]]
<1>1. \A i \in first..end :
        move[i] = IF i = first THEN shadow ELSE MoveOne(main, move[i - 1], i - 1)
  BY DEF IsMove
<1>2. \A i \in first..(end + 1) : i # end + 1 => i \in first..end
  OBVIOUS
<1>3. \A i \in first..(end + 1) :
        f[i] = IF i = end + 1 THEN MoveOne(main, move[end], end) ELSE move[i]
  OBVIOUS
<1> DEFINE g == [i \in first..(end + 1) |->
                   IF i = first THEN shadow ELSE MoveOne(main, f[i - 1], i - 1)]
<1> HIDE DEF f
<1>4. ASSUME NEW i \in first..(end + 1) PROVE f[i] = g[i]
  <2>1. CASE i = end + 1
    <3>1. end \in first..(end + 1) /\ end # end + 1 /\ i # first /\ i - 1 = end
      BY <2>1
    <3>2. f[end] = move[end]
      BY <3>1, <1>3
    <3>3. f[i] = MoveOne(main, move[end], end)
      BY <2>1, <1>3
    <3>4. g[i] = MoveOne(main, f[i - 1], i - 1)
      BY <3>1
    <3> QED
      BY <3>1, <3>2, <3>3, <3>4
  <2>2. CASE i = first
    <3>1. i # end + 1 /\ i \in first..end
      BY <2>2
    <3> QED
      BY <2>2, <3>1, <1>1, <1>3
  <2>3. CASE i # first /\ i # end + 1
    <3>1. i \in first..end /\ i - 1 \in first..(end + 1) /\ i - 1 # end + 1
      BY <2>3
    <3>2. f[i - 1] = move[i - 1] /\ f[i] = move[i]
      BY <2>3, <3>1, <1>3
    <3>3. move[i] = MoveOne(main, move[i - 1], i - 1)
      BY <2>3, <3>1, <1>1
    <3>4. g[i] = MoveOne(main, f[i - 1], i - 1)
      BY <2>3
    <3> QED
      BY <3>2, <3>3, <3>4
  <2> QED
    BY <2>1, <2>2, <2>3
<1>5. f = [i \in first..(end + 1) |-> f[i]]
  BY DEF f
<1>6. f = g
  BY <1>4, <1>5
<1> QED
  BY <1>6 DEF IsMove

LEMMA MoveExists ==
  ASSUME NEW main, NEW shadow, NEW first \in Nat, NEW end \in Nat, first =< end
  PROVE  \E move : IsMove(move, main, shadow, first, end)
<1> DEFINE S == {n \in Nat : \E move : IsMove(move, main, shadow, first, first + n)}
<1>1. 0 \in S
  <2> DEFINE f == [i \in first..first |-> shadow]
  <2>1. f = [i \in first..first |-> IF i = first THEN shadow
                                    ELSE MoveOne(main, f[i - 1], i - 1)]
    <3>1. \A i \in first..first : i = first
      OBVIOUS
    <3> QED
      BY <3>1
  <2>2. IsMove(f, main, shadow, first, first)
    BY <2>1 DEF IsMove
  <2>3. first + 0 = first
    OBVIOUS
  <2> QED
    BY <2>2, <2>3
<1>2. ASSUME NEW n \in Nat, n \in S PROVE n + 1 \in S
  <2>1. PICK move : IsMove(move, main, shadow, first, first + n)
    BY <1>2
  <2>2. first + n \in Nat /\ first =< first + n /\ first + n + 1 = first + (n + 1)
    OBVIOUS
  <2>3. \E f : IsMove(f, main, shadow, first, first + n + 1)
    BY <2>1, <2>2, LongerMove
  <2> QED
    BY <2>2, <2>3
<1> HIDE DEF S
<1>3. \A n \in Nat : n \in S
  BY <1>1, <1>2, NatSetInduction
<1>4. end - first \in Nat /\ first + (end - first) = end
  OBVIOUS
<1>5. end - first \in S
  BY <1>3, <1>4
<1> QED
  BY <1>4, <1>5 DEF S

\* MoveBuckets, bucket by bucket.
LEMMA MoveBucketsIs ==
  ASSUME NEW main, NEW shadow, NEW first \in Nat, NEW end \in Nat, first =< end
  PROVE  \E move :
           /\ MoveBuckets(main, shadow, first, end) = move[end]
           /\ move[first] = shadow
           /\ \A i \in first..(end - 1) : move[i + 1] = MoveOne(main, move[i], i)
<1> DEFINE m == CHOOSE move : IsMove(move, main, shadow, first, end)
<1>1. MoveBuckets(main, shadow, first, end) = m[end]
  BY DEF MoveBuckets, IsMove, MoveOne
<1>2. IsMove(m, main, shadow, first, end)
  BY MoveExists
<1> HIDE DEF m
<1>3. \A i \in first..end :
        m[i] = IF i = first THEN shadow ELSE MoveOne(main, m[i - 1], i - 1)
  BY <1>2 DEF IsMove
<1>4. m[first] = shadow
  BY <1>3
<1>5. ASSUME NEW i \in first..(end - 1) PROVE m[i + 1] = MoveOne(main, m[i], i)
  <2>1. i + 1 \in first..end /\ i + 1 # first /\ (i + 1) - 1 = i
    OBVIOUS
  <2> QED
    BY <2>1, <1>3
<1> QED
  BY <1>1, <1>4, <1>5

LEMMA ElementsAreCounted ==
  ASSUME NEW b, Sound(b)
  PROVE  IsFiniteSet(Elements(b)) /\ Cardinality(Elements(b)) = b.size
<1> DEFINE f == [i \in Existing(b) |-> b.at[i]]
<1>1. \A x \in Elements(b) : \E i \in Existing(b) : f[i] = x
  BY DEF Elements
<1>2. f \in [Existing(b) -> Elements(b)]
  BY DEF Elements
<1>3. \A i, j \in Existing(b) : f[i] = f[j] => i = j
  BY DEF Sound
<1> HIDE DEF f
<1>4. f \in Bijection(Existing(b), Elements(b))
  BY <1>1, <1>2, <1>3 DEF Bijection, Injection, Surjection, IsInjective
<1>5. ExistsBijection(Existing(b), Elements(b))
  BY <1>4 DEF ExistsBijection
<1>6. IsFiniteSet(Existing(b)) /\ Cardinality(Existing(b)) = b.size
  BY SoundFacts DEF Sound
<1> QED
  BY <1>5, <1>6, FS_Bijection

LEMMA PendingFinite ==
  ASSUME NEW main, Sound(main), NEW shadow, NEW i
  PROVE  /\ IsFiniteSet(Pending(main, shadow, i))
         /\ Cardinality(Pending(main, shadow, i)) \in Nat
<1>1. Pending(main, shadow, i) \subseteq Elements(main)
  BY DEF Pending, Ahead, Elements
<1> QED
  BY <1>1, ElementsAreCounted, FS_Subset, FS_CardinalityType

\* A put into the shadow moves at most one of what is pending, and uses a
\* bucket only if it does or if the key is new.
LEMMA FollowsIsRoomed ==
  ASSUME NEW main, Sound(main), NEW shadow, NEW i, NEW most \in Nat,
         Follows(main, shadow, i, most), most < shadow.n
  PROVE  Roomed(shadow) /\ shadow.nDirty =< most
<1>1. Sound(shadow) /\ shadow.n \in PrimeSizes /\ shadow.nDirty \in Nat /\ shadow.n \in Nat
  BY SoundFacts DEF Follows
<1> DEFINE c == Cardinality(Pending(main, shadow, i))
<1>2. c \in Nat /\ shadow.nDirty + c =< most
  BY PendingFinite DEF Follows
<1> HIDE DEF c
<1>3. shadow.nDirty =< most /\ shadow.nDirty < shadow.n
  BY <1>1, <1>2
<1> QED
  BY <1>1, <1>3 DEF Roomed

LEMMA MoveOneFollows ==
  ASSUME NEW main, Sound(main), NEW shadow, NEW i \in 0..(main.n - 1),
         NEW most \in Nat, Follows(main, shadow, i, most), most < shadow.n,
         NEW c, c = MoveOne(main, shadow, i)
  PROVE  Follows(main, c, i + 1, most) /\ c.n = shadow.n
<1>0. main.n \in Nat /\ \A k \in Existing(main) : k \in Nat
  BY SoundFacts
<1>1. \A k \in Existing(main) : (k < i + 1 <=> k < i \/ k = i)
                                /\ (k >= i + 1 <=> k >= i /\ k # i)
  BY <1>0
<1>2. i \in Existing(main) <=> Exist(main, i)
  BY SoundFacts DEF Exist
<1> DEFINE key == main.at[i]
           P == Pending(main, shadow, i)
           Q == Pending(main, c, i + 1)
<1>3. CASE ~Exist(main, i)
  <2>1. c = shadow /\ i \notin Existing(main)
    BY <1>2, <1>3 DEF MoveOne
  <2>2. Behind(main, i + 1) = Behind(main, i) /\ Ahead(main, i + 1) = Ahead(main, i)
    BY <1>1, <2>1 DEF Behind, Ahead
  <2> QED
    BY <2>1, <2>2 DEF Follows, Pending
<1>4. CASE Exist(main, i)
  <2>1. i \in Existing(main) /\ key \in Keys /\ c = PutSlot(shadow, key)
    BY <1>2, <1>4, SoundFacts DEF MoveOne
  <2>2. Roomed(shadow)
    BY FollowsIsRoomed
  <2>3. /\ Sound(c) /\ c.n = shadow.n
        /\ Elements(c) = Elements(shadow) \cup {key}
        /\ c.nDirty =< shadow.nDirty + 1
        /\ key \in Elements(shadow) => c.nDirty = shadow.nDirty
    BY <2>1, <2>2, PutSlotIsSound
  <2>4. Behind(main, i + 1) \subseteq Behind(main, i) \cup {key}
    BY <1>1 DEF Behind
  <2>5. Ahead(main, i + 1) \subseteq Ahead(main, i) /\ key \in Ahead(main, i)
    BY <1>1, <2>1 DEF Ahead
  <2>6. key \in Elements(main)
    BY <2>1 DEF Elements
  <2>7. Q \subseteq P \ {key} /\ (key \in P <=> key \notin Elements(shadow))
    BY <2>3, <2>5 DEF Pending
  <2>8. IsFiniteSet(P) /\ Cardinality(P) \in Nat /\ Cardinality(Q) \in Nat
    BY PendingFinite
  <2>9. shadow.nDirty \in Nat /\ c.nDirty \in Nat
    BY <2>2, <2>3, SoundFacts DEF Roomed
  <2>10. shadow.nDirty + Cardinality(P) =< most
    BY DEF Follows
  <2> HIDE DEF P, Q, key
  <2>11. /\ IsFiniteSet(P \ {key})
         /\ Cardinality(P \ {key}) = IF key \in P THEN Cardinality(P) - 1
                                     ELSE Cardinality(P)
    BY <2>8, FS_RemoveElement
  <2>12. Cardinality(Q) =< Cardinality(P \ {key})
    BY <2>7, <2>11, FS_Subset
  <2>13. c.nDirty + Cardinality(Q) =< most
    BY <2>3, <2>7, <2>8, <2>9, <2>10, <2>11, <2>12
  <2> QED
    BY <2>3, <2>4, <2>6, <2>13 DEF Follows, Q
<1> QED
  BY <1>3, <1>4

LEMMA MoveBucketsFollows ==
  ASSUME NEW main, Sound(main), NEW shadow, NEW first \in Nat, NEW end \in Nat,
         first =< end, end =< main.n, NEW most \in Nat,
         Follows(main, shadow, first, most), most < shadow.n,
         NEW c, c = MoveBuckets(main, shadow, first, end)
  PROVE  Follows(main, c, end, most) /\ c.n = shadow.n
<1>1. PICK move : /\ MoveBuckets(main, shadow, first, end) = move[end]
                  /\ move[first] = shadow
                  /\ \A i \in first..(end - 1) : move[i + 1] = MoveOne(main, move[i], i)
  BY MoveBucketsIs
<1> DEFINE Good(i) == Follows(main, move[i], i, most) /\ move[i].n = shadow.n
           S == {n \in Nat : first + n =< end => Good(first + n)}
<1>2. main.n \in Nat
  BY SoundFacts
<1>3. 0 \in S
  BY <1>1
<1>4. ASSUME NEW n \in Nat, n \in S PROVE n + 1 \in S
  <2> DEFINE i == first + n
  <2> SUFFICES ASSUME i + 1 =< end PROVE Good(i + 1)
    <3>1. first + (n + 1) = i + 1
      OBVIOUS
    <3> QED
      BY <3>1
  <2>1. i \in first..(end - 1) /\ i \in 0..(main.n - 1)
    BY <1>2
  <2>2. Good(i)
    BY <1>4, <2>1
  <2>3. move[i + 1] = MoveOne(main, move[i], i)
    BY <1>1, <2>1
  <2> HIDE DEF i
  <2> QED
    BY <2>1, <2>2, <2>3, MoveOneFollows
<1> HIDE DEF S
<1>5. \A n \in Nat : n \in S
  BY <1>3, <1>4, NatSetInduction
<1>6. end - first \in S /\ first + (end - first) = end
  BY <1>5
<1>7. Good(end)
  BY <1>6 DEF S
<1> QED
  BY <1>1, <1>7

\* Arithmetic of the resize: batch is enough.
LEMMA StepsBound ==
  ASSUME NEW batch \in Nat, batch >= MinBatch, NEW steps \in Nat, NEW n \in Nat, n > 0,
         batch * steps =< n - 1
  PROVE  steps =< (n - 1) \div MinBatch /\ 10 * steps =< 3 * (n - 1)
<1>1. MinBatch \in Nat \ {0} /\ 3 * MinBatch >= 10
  BY TableAssumption
<1> DEFINE q == (n - 1) \div MinBatch
           r == (n - 1) % MinBatch
<1>2. q \in Int /\ r \in 0..(MinBatch - 1) /\ n - 1 = MinBatch * q + r
  BY <1>1, Division
<1> HIDE DEF q, r
<1>3. batch * steps = MinBatch * steps + (batch - MinBatch) * steps
  BY <1>1
<1>4. (batch - MinBatch) * steps \in Nat /\ MinBatch * steps \in Nat
  BY <1>1, NatProduct
<1>5. batch * steps \in Nat /\ MinBatch * steps =< n - 1
  BY <1>3, <1>4
<1>6. steps =< q
  <2> SUFFICES ASSUME steps >= q + 1 PROVE FALSE
    BY <1>2
  <2>1. MinBatch * steps = MinBatch * q + MinBatch + MinBatch * (steps - q - 1)
    BY <1>1, <1>2
  <2>2. steps - q - 1 \in Nat
    BY <1>2
  <2>3. MinBatch * (steps - q - 1) \in Nat
    BY <1>1, <2>2, NatProduct
  <2>4. MinBatch * q \in Int
    BY <1>1, <1>2, ProductType
  <2> QED
    BY <1>1, <1>2, <1>4, <1>5, <2>1, <2>3, <2>4
<1>7. 10 * steps =< 3 * (n - 1)
  <2>1. 3 * (MinBatch * steps) = 10 * steps + (3 * MinBatch - 10) * steps
    BY <1>1
  <2>2. (3 * MinBatch - 10) * steps \in Nat
    BY <1>1, NatProduct
  <2> QED
    BY <1>4, <1>5, <2>1, <2>2
<1> QED
  BY <1>6, <1>7 DEF q

LEMMA UpperBoundIs ==
  ASSUME NEW n \in Nat
  PROVE  UpperBoundOf(n) \in Nat /\ 10 * UpperBoundOf(n) =< 7 * n
         /\ 7 * n =< 10 * UpperBoundOf(n) + 9
BY DEF UpperBoundOf

LEMMA EmptyIsSound ==
  ASSUME NEW n \in Nat, NEW b, b = Buckets(n)
  PROVE  /\ Sound(b) /\ b.n = n /\ b.nDirty = 0 /\ b.size = 0
         /\ Existing(b) = {} /\ Elements(b) = {}
<1> DEFINE at == [i \in 0..(n - 1) |-> Unused]
<1>1. at \in [0..(n - 1) -> Cells]
  BY DEF Cells
<1>2. at \in UNION {[0..(m - 1) -> Cells] : m \in Nat}
  BY <1>1
<1>3. \A i \in DOMAIN at : at[i] = Unused
  OBVIOUS
<1>4. b = [n |-> n, at |-> at, dirty |-> {}, size |-> 0, nDirty |-> 0]
  BY DEF Buckets
<1> HIDE DEF at
<1>5. /\ b.n = n /\ b.at = at /\ b.dirty = {} /\ b.size = 0 /\ b.nDirty = 0
  BY <1>4
<1>6. b \in Arrays
  BY <1>2, <1>4 DEF Arrays
<1>7. Existing(b) = {}
  BY <1>3, <1>5 DEF Existing, Exist
<1>8. Elements(b) = {}
  BY <1>7 DEF Elements
<1>9. Cardinality(Existing(b)) = 0 /\ Cardinality(Existing(b) \cup b.dirty) = 0
  BY <1>5, <1>7, FS_EmptySet
<1> QED
  BY <1>1, <1>5, <1>6, <1>7, <1>8, <1>9 DEF Sound

LEMMA WholeFacts ==
  ASSUME NEW t, Whole(t)
  PROVE  /\ t.main.n \in PrimeSizes /\ t.main.n \in Nat /\ t.main.n > 2
         /\ t.prime \in DOMAIN Primes /\ DOMAIN Primes = 1..Len(Primes)
         /\ Len(Primes) \in Nat
         /\ t.position \in Nat /\ t.batch \in Nat /\ t.aborted = FALSE
         /\ t.main.nDirty \in Nat /\ t.main.size \in Nat
         /\ t.main.size =< t.main.nDirty
<1>1. t \in Tables /\ Sound(t.main)
  BY DEF Whole
<1>2. /\ t.prime \in DOMAIN Primes /\ t.position \in Nat /\ t.batch \in Nat
      /\ t.aborted = FALSE
  BY <1>1 DEF Tables
<1>3. DOMAIN Primes = 1..Len(Primes) /\ Len(Primes) \in Nat
  BY TableAssumption
<1>4. PICK k \in 1..t.prime : t.main.n = Primes[k]
  BY DEF Whole
<1>5. k \in DOMAIN Primes
  BY <1>2, <1>3, <1>4
<1>6. t.main.n \in PrimeSizes
  BY <1>4, <1>5 DEF PrimeSizes
<1> QED
  BY <1>1, <1>2, <1>3, <1>6, SizesArePrime, SoundFacts

\* While a resize is under way both arrays have room.
LEMMA MovingHasRoom ==
  ASSUME NEW t, Whole(t), NEW start \in Nat, NEW steps \in Nat,
         Moving(t, start, steps)
  PROVE  /\ Roomed(t.main) /\ Roomed(t.shadow)
         /\ start + steps < UpperBound(t.shadow)
         /\ start + steps < t.shadow.n
         /\ t.shadow.nDirty < UpperBound(t.shadow)
         /\ t.main.nDirty + 1 =< t.main.n
<1>1. /\ t.main.n \in PrimeSizes /\ t.main.n \in Nat /\ t.main.n > 2
      /\ t.position \in Nat /\ t.batch \in Nat /\ t.main.nDirty \in Nat
  BY WholeFacts
<1>2. /\ t.position =< t.main.n - 1 /\ t.batch >= MinBatch
      /\ t.batch * steps =< t.position
  BY <1>1 DEF Moving
<1>3. t.batch * steps \in Nat
  BY <1>1, NatProduct
<1>4. t.batch * steps =< t.main.n - 1
  BY <1>1, <1>2, <1>3
<1>5. steps =< (t.main.n - 1) \div MinBatch /\ 10 * steps =< 3 * (t.main.n - 1)
  BY <1>1, <1>2, <1>4, StepsBound
<1>6. t.main.nDirty =< UpperBoundOf(t.main.n) + steps
  BY DEF Moving, UpperBound
<1>7. UpperBoundOf(t.main.n) \in Nat /\ 10 * UpperBoundOf(t.main.n) =< 7 * t.main.n
  BY <1>1, UpperBoundIs
<1>8. t.main.nDirty < t.main.n
  BY <1>1, <1>5, <1>6, <1>7
<1>9. Roomed(t.main)
  BY <1>1, <1>8 DEF Roomed, Whole
<1> DEFINE d == (t.main.n - 1) \div MinBatch
           u == UpperBound(t.shadow)
<1>10. start + d < u /\ Follows(t.main, t.shadow, t.position, start + steps)
  BY DEF Moving
<1>11. Sound(t.shadow) /\ t.shadow.n \in Nat /\ t.shadow.nDirty \in Nat
  BY <1>10, SoundFacts DEF Follows
<1>12. u \in Nat /\ 10 * u =< 7 * t.shadow.n
  BY <1>11, UpperBoundIs DEF UpperBound
<1>13. d \in Int
  <2>1. MinBatch \in Nat \ {0}
    BY TableAssumption
  <2>2. t.main.n - 1 \in Int
    BY <1>1
  <2> QED
    BY <2>1, <2>2, Division
<1>14. steps =< d
  BY <1>5
<1> HIDE DEF d, u
<1>15. start + steps < u
  BY <1>10, <1>12, <1>13, <1>14
<1>16. start + steps < t.shadow.n
  BY <1>11, <1>12, <1>15
<1>17. Roomed(t.shadow) /\ t.shadow.nDirty =< start + steps
  <2>1. start + steps \in Nat /\ Sound(t.main)
    BY DEF Whole
  <2> QED
    BY <2>1, <1>10, <1>16, FollowsIsRoomed
<1>18. t.shadow.nDirty < u
  BY <1>11, <1>12, <1>15, <1>17
<1> QED
  BY <1>1, <1>8, <1>9, <1>15, <1>16, <1>17, <1>18 DEF u

LEMMA AllIsBehind ==
  ASSUME NEW b, Sound(b)
  PROVE  Behind(b, b.n) = Elements(b) /\ Behind(b, 0) = {} /\ Ahead(b, 0) = Elements(b)
<1>1. b.n \in Nat /\ \A i \in Existing(b) : i \in Nat /\ i < b.n
  BY SoundFacts
<1>2. {l \in Existing(b) : l < b.n} = Existing(b)
      /\ {l \in Existing(b) : l < 0} = {} /\ {l \in Existing(b) : l >= 0} = Existing(b)
  BY <1>1
<1> QED
  BY <1>2 DEF Behind, Ahead, Elements

\* mh_resize: either the shadow gets another batch, or it takes the place of
\* the table, with the same nodes and room to spare; never abort().
LEMMA ResizeIsOK ==
  ASSUME NEW t, Whole(t), NEW start \in Nat, NEW steps \in Nat,
         Moving(t, start, steps), NEW u, u = Resize(t)
  PROVE  /\ Whole(u) /\ Elements(u.main) = Elements(t.main)
         /\ u.prime = t.prime /\ t.main.n =< u.main.n
         /\ \/ Settled(u) /\ u.main.nDirty < UpperBound(u.main)
            \/ /\ Moving(u, start, steps) /\ u.main = t.main /\ u.batch = t.batch
               /\ u.position = t.position + t.batch /\ u.position > 0
<1> DEFINE main == t.main
           next == IF t.position + t.batch < t.main.n
                   THEN t.position + t.batch ELSE t.main.n
           moved == MoveBuckets(t.main, t.shadow, t.position, next)
<1>1. /\ t \in Tables /\ Sound(t.main) /\ t.main.n \in PrimeSizes /\ t.main.n \in Nat
      /\ t.main.n > 2 /\ t.position \in Nat /\ t.batch \in Nat
      /\ t.prime \in 1..t.prime /\ t.main.size \in Nat
  <2>1. t.prime \in 1..Len(Primes) /\ Len(Primes) \in Nat
    BY WholeFacts
  <2>2. t.prime \in 1..t.prime
    BY <2>1
  <2> QED
    BY <2>2, WholeFacts DEF Whole
<1>2. /\ t.position =< t.main.n - 1 /\ t.batch >= MinBatch
      /\ t.main.n =< t.shadow.n /\ t.shadow.n = Primes[t.prime]
      /\ Follows(t.main, t.shadow, t.position, start + steps)
  BY <1>1 DEF Moving
<1>3. start + steps < t.shadow.n /\ start + steps < UpperBound(t.shadow)
      /\ start + steps \in Nat
  BY MovingHasRoom
<1>4. next \in Nat /\ t.position =< next /\ next =< t.main.n
  BY <1>1, <1>2
<1>5. u = IF next < t.main.n THEN [t EXCEPT !.shadow = moved, !.position = next]
          ELSE [t EXCEPT !.main = moved, !.shadow = Buckets(0), !.position = 0,
                         !.aborted = moved.size # t.main.size]
  BY DEF Resize
<1>6. next < t.main.n => next = t.position + t.batch
  BY <1>1
<1>7. ~(next < t.main.n) => next = t.main.n
  BY <1>1
<1> HIDE DEF next
<1>8. Follows(t.main, moved, next, start + steps) /\ moved.n = t.shadow.n
  BY <1>1, <1>2, <1>3, <1>4, MoveBucketsFollows
<1> HIDE DEF moved
<1>9. moved \in Arrays /\ Sound(moved)
  BY <1>8 DEF Follows, Sound
<1>10. CASE next < t.main.n
  <2>1. /\ u \in Tables /\ u.main = t.main /\ u.shadow = moved /\ u.batch = t.batch
        /\ u.prime = t.prime /\ u.position = t.position + t.batch
    BY <1>1, <1>4, <1>5, <1>6, <1>9, <1>10 DEF Tables
  <2>2. Whole(u)
    BY <2>1 DEF Whole
  <2>3. MinBatch \in Nat /\ MinBatch > 0
    BY TableAssumption
  <2>4. u.position \in 0..(u.main.n - 1) /\ u.position > 0
    BY <1>1, <1>2, <1>6, <1>10, <2>1, <2>3
  <2>5. t.batch * steps =< t.position /\ t.batch * steps \in Nat
    BY <1>1, NatProduct DEF Moving
  <2>6. u.batch * steps =< u.position
    BY <1>1, <2>1, <2>5
  <2>7. UpperBound(u.shadow) = UpperBound(t.shadow) /\ UpperBound(u.main) = UpperBound(t.main)
    BY <1>8, <2>1 DEF UpperBound
  <2>8. Follows(u.main, u.shadow, u.position, start + steps)
    BY <1>6, <1>8, <1>10, <2>1
  <2>9. Moving(u, start, steps)
    BY <1>8, <2>1, <2>4, <2>6, <2>7, <2>8 DEF Moving
  <2> QED
    BY <1>1, <2>1, <2>2, <2>4, <2>9
<1>11. CASE ~(next < t.main.n)
  <2>1. Elements(moved) = Elements(t.main)
    BY <1>1, <1>7, <1>8, <1>11, AllIsBehind DEF Follows
  <2>2. moved.size = t.main.size
    <3>1. Cardinality(Elements(moved)) = moved.size
      BY <1>9, ElementsAreCounted
    <3>2. Cardinality(Elements(t.main)) = t.main.size
      BY <1>1, ElementsAreCounted
    <3> QED
      BY <2>1, <3>1, <3>2
  <2>3. Buckets(0) \in Arrays
    BY EmptyIsSound DEF Sound
  <2>4. /\ u \in Tables /\ u.main = moved /\ u.shadow = Buckets(0)
        /\ u.position = 0 /\ u.prime = t.prime
    <3>1. u = [t EXCEPT !.main = moved, !.shadow = Buckets(0), !.position = 0,
                        !.aborted = FALSE]
      BY <1>5, <1>11, <2>2
    <3> DEFINE empty == Buckets(0)
               no == FALSE
               w == [t EXCEPT !.main = moved, !.shadow = empty, !.position = 0]
    <3>2. empty \in Arrays /\ no \in {FALSE} /\ u = [w EXCEPT !.aborted = no]
      BY <2>3, <3>1, <1>1 DEF Tables
    <3> HIDE DEF empty
    <3>3. /\ w \in Tables /\ w.main = moved /\ w.shadow = empty
          /\ w.position = 0 /\ w.prime = t.prime
      BY <1>1, <1>9, <3>2 DEF Tables
    <3> HIDE DEF w, no
    <3>4. /\ u \in Tables /\ u.main = moved /\ u.shadow = empty
          /\ u.position = 0 /\ u.prime = t.prime
      BY <3>2, <3>3 DEF Tables
    <3> QED
      BY <3>4 DEF empty
  <2>5. Whole(u)
    BY <1>1, <1>2, <1>8, <1>9, <2>4 DEF Whole
  <2>6. moved.nDirty < UpperBound(moved)
    <3>1. moved.nDirty =< start + steps
      BY <1>1, <1>3, <1>8, FollowsIsRoomed
    <3>2. UpperBound(moved) = UpperBound(t.shadow)
      BY <1>8 DEF UpperBound
    <3>3. moved.nDirty \in Nat /\ t.shadow.n \in Nat
      BY <1>2, <1>9, SoundFacts DEF Follows
    <3>4. UpperBound(t.shadow) \in Nat
      BY <3>3, UpperBoundIs DEF UpperBound
    <3> QED
      BY <1>3, <3>1, <3>2, <3>3, <3>4
  <2>7. moved.nDirty =< UpperBound(moved)
    <3>1. moved.nDirty \in Nat /\ moved.n \in Nat
      BY <1>9, SoundFacts
    <3>2. UpperBound(moved) \in Nat
      BY <3>1, UpperBoundIs DEF UpperBound
    <3> QED
      BY <2>6, <3>1, <3>2
  <2>8. Settled(u)
    BY <2>4, <2>7 DEF Settled
  <2> QED
    BY <1>2, <1>8, <2>1, <2>4, <2>5, <2>6, <2>8
<1> QED
  BY <1>10, <1>11

-----------------------------------------------------------------------------
(* A put and a delete in both arrays.                                      *)

LEMMA PutFollows ==
  ASSUME NEW main, Roomed(main), NEW shadow, Roomed(shadow), NEW i \in Nat,
         NEW most \in Nat, Follows(main, shadow, i, most), NEW key \in Keys,
         NEW m, m = PutSlot(main, key), NEW s, s = PutSlot(shadow, key)
  PROVE  Follows(m, s, i, most + 1)
<1> DEFINE P == Pending(main, shadow, i)
           Q == Pending(m, s, i)
<1>1. /\ Sound(m) /\ m.n = main.n
      /\ Elements(m) = Elements(main) \cup {key}
      /\ \A k \in 0..(main.n - 1) : m.at[k] = main.at[k] \/ m.at[k] = key
  BY PutSlotIsSound
<1>2. /\ Sound(s) /\ s.n = shadow.n /\ s.nDirty =< shadow.nDirty + 1
      /\ Elements(s) = Elements(shadow) \cup {key}
  BY PutSlotIsSound
<1>3. ASSUME NEW k \in Existing(m)
      PROVE  m.at[k] = key \/ (k \in Existing(main) /\ m.at[k] = main.at[k])
  <2>1. k \in 0..(main.n - 1) /\ m.at[k] # Unused
    BY <1>1, SoundFacts
  <2>2. k \in Existing(main) <=> k \in 0..(main.n - 1) /\ main.at[k] # Unused
    BY SoundFacts DEF Roomed
  <2> QED
    BY <1>1, <2>1, <2>2
<1>4. Behind(m, i) \subseteq Behind(main, i) \cup {key}
      /\ Ahead(m, i) \subseteq Ahead(main, i) \cup {key}
  BY <1>3 DEF Behind, Ahead
<1>5. Q \subseteq P
  BY <1>2, <1>4 DEF Pending
<1>6. Sound(main) /\ IsFiniteSet(P) /\ Cardinality(P) \in Nat
  BY PendingFinite DEF Roomed
<1>7. Cardinality(Q) \in Nat /\ s.nDirty \in Nat /\ shadow.nDirty \in Nat
  BY <1>1, <1>2, PendingFinite, SoundFacts DEF Roomed
<1>8. shadow.nDirty + Cardinality(P) =< most
  BY DEF Follows
<1> HIDE DEF P, Q
<1>9. Cardinality(Q) =< Cardinality(P)
  BY <1>5, <1>6, FS_Subset
<1>10. s.nDirty + Cardinality(Q) =< most + 1
  BY <1>2, <1>6, <1>7, <1>8, <1>9
<1> QED
  BY <1>1, <1>2, <1>4, <1>10 DEF Follows, Q

\* mh_del_resize looks the node up in the shadow, where it may not be yet.
LEMMA EraseFoundIsSound ==
  ASSUME NEW b, Roomed(b), NEW key \in Keys, NEW c, c = Erase(b, Find(b, key))
  PROVE  /\ Sound(c) /\ c.n = b.n /\ c.nDirty =< b.nDirty
         /\ Elements(c) = Elements(b) \ {key}
<1>1. Sound(b) /\ b.n \in PrimeSizes /\ b.nDirty \in Nat
  BY SoundFacts DEF Roomed
<1>2. CASE key \in Elements(b)
  <2>1. PICK i \in Existing(b) : b.at[i] = key
    BY <1>2 DEF Elements
  <2>2. c = Erase(b, i)
    BY <1>1, <2>1, FindHolds
  <2>3. /\ Sound(c) /\ c.n = b.n /\ c.nDirty =< b.nDirty
        /\ Elements(c) = Elements(b) \ {key}
        /\ c.at = [b.at EXCEPT ![i] = Unused]
        /\ Existing(c) = Existing(b) \ {i}
    BY <1>1, <2>1, <2>2, EraseIsSound
  <2> QED
    BY <2>3
<1>3. CASE key \notin Elements(b)
  <2>1. c = b
    BY <1>3, FindMisses DEF Erase
  <2> QED
    BY <1>1, <1>3, <2>1
<1> QED
  BY <1>2, <1>3

LEMMA EraseFollows ==
  ASSUME NEW main, Sound(main), NEW shadow, Roomed(shadow), NEW i \in Nat,
         NEW most \in Nat, Follows(main, shadow, i, most),
         NEW x \in Existing(main),
         NEW m, m = Erase(main, x),
         NEW s, s = Erase(shadow, Find(shadow, main.at[x]))
  PROVE  Follows(m, s, i, most)
<1> DEFINE P == Pending(main, shadow, i)
           Q == Pending(m, s, i)
           key == main.at[x]
<1>1. /\ Sound(m) /\ Existing(m) = Existing(main) \ {x}
      /\ Elements(m) = Elements(main) \ {key}
      /\ m.at = [main.at EXCEPT ![x] = Unused]
  BY EraseIsSound
<1>2. key \in Keys /\ x \in 0..(main.n - 1) /\ main.at \in [0..(main.n - 1) -> Cells]
  BY SoundFacts DEF Sound
<1>3. /\ Sound(s) /\ s.n = shadow.n /\ s.nDirty =< shadow.nDirty
      /\ Elements(s) = Elements(shadow) \ {key}
  BY <1>2, EraseFoundIsSound
<1>4. ASSUME NEW k \in Existing(m)
      PROVE  k \in Existing(main) /\ m.at[k] = main.at[k] /\ m.at[k] # key
  <2>1. k \in Existing(main) /\ k # x /\ k \in 0..(main.n - 1)
    BY <1>1, SoundFacts
  <2>2. m.at[k] = main.at[k]
    BY <1>1, <1>2, <2>1
  <2>3. main.at[k] # key
    BY <2>1 DEF Sound
  <2> QED
    BY <2>1, <2>2, <2>3
<1>5. Behind(m, i) \subseteq Behind(main, i) \ {key}
      /\ Ahead(m, i) \subseteq Ahead(main, i) \ {key}
  BY <1>4 DEF Behind, Ahead
<1>6. Q \subseteq P
  BY <1>3, <1>5 DEF Pending
<1>7. IsFiniteSet(P) /\ Cardinality(P) \in Nat
  BY PendingFinite
<1>8. Cardinality(Q) \in Nat /\ s.nDirty \in Nat /\ shadow.nDirty \in Nat
  BY <1>1, <1>3, PendingFinite, SoundFacts DEF Roomed
<1>9. shadow.nDirty + Cardinality(P) =< most
  BY DEF Follows
<1> HIDE DEF P, Q
<1>10. Cardinality(Q) =< Cardinality(P)
  BY <1>6, <1>7, FS_Subset
<1>11. s.nDirty + Cardinality(Q) =< most
  BY <1>3, <1>7, <1>8, <1>9, <1>10
<1> QED
  BY <1>1, <1>3, <1>5, <1>11 DEF Follows, Q

-----------------------------------------------------------------------------
(* mh_start_resize.                                                        *)

LEMMA BatchIs ==
  ASSUME NEW n \in Nat
  PROVE  Batch(0, n) \in Nat /\ Batch(0, n) >= MinBatch
<1>1. MinBatch \in Nat /\ BatchScale \in Nat \ {0}
  BY TableAssumption
<1>2. n \div BatchScale \in Nat
  BY <1>1
<1> QED
  BY <1>1, <1>2 DEF Batch

LEMMA NextPrimeIs ==
  ASSUME NEW prime \in DOMAIN Primes, NEW buckets \in Nat,
         NEW p, p = NextPrime(prime, buckets)
  PROVE  /\ p \in DOMAIN Primes /\ prime =< p
         /\ p = Len(Primes) \/ Primes[p] >= buckets
<1>1. DOMAIN Primes = 1..Len(Primes) /\ Len(Primes) \in Nat
  BY TableAssumption
<1> DEFINE S == {q \in prime..Len(Primes) : q = Len(Primes) \/ Primes[q] >= buckets}
<1>2. Len(Primes) \in S /\ S \in SUBSET Nat
  BY <1>1
<1>3. p = Min(S)
  BY DEF NextPrime
<1>4. p \in S
  BY <1>2, <1>3, MinIsElement
<1> QED
  BY <1>1, <1>4

LEMMA PrimeIs ==
  ASSUME NEW i \in DOMAIN Primes
  PROVE  Primes[i] \in PrimeSizes /\ Primes[i] \in Nat /\ Primes[i] > 2
BY SizesArePrime DEF PrimeSizes

\* The numbers of the list grow fast enough for a table at its upper bound.
LEMMA RoomToGrow ==
  ASSUME NEW t, Whole(t), Settled(t), t.main.size =< Capacity,
         NEW p, p = NextPrime(t.prime, t.main.n + 1)
  PROVE  /\ p \in DOMAIN Primes /\ t.prime =< p /\ t.main.n =< Primes[p]
         /\ t.main.size + (t.main.n - 1) \div MinBatch < UpperBoundOf(Primes[p])
<1>1. /\ t.prime \in DOMAIN Primes /\ DOMAIN Primes = 1..Len(Primes)
      /\ Len(Primes) \in Nat /\ t.main.n \in Nat /\ t.main.n > 2
      /\ t.main.nDirty \in Nat /\ t.main.size \in Nat /\ t.main.size =< t.main.nDirty
  BY WholeFacts
<1>2. PICK k \in 1..t.prime : t.main.n = Primes[k]
  BY DEF Whole
<1>3. /\ p \in DOMAIN Primes /\ t.prime =< p
      /\ p = Len(Primes) \/ Primes[p] >= t.main.n + 1
  <2>1. t.main.n + 1 \in Nat
    BY <1>1
  <2> QED
    BY <1>1, <2>1, NextPrimeIs
<1>4. k \in DOMAIN Primes /\ k =< p /\ k \in Nat /\ p \in Nat
  BY <1>1, <1>2, <1>3
<1> DEFINE n == t.main.n
           d == (n - 1) \div MinBatch
           u == UpperBoundOf(n)
<1>5. u \in Nat /\ t.main.size =< u
  <2>1. u \in Nat
    BY <1>1, UpperBoundIs
  <2>2. t.main.nDirty =< u
    BY DEF Settled, UpperBound
  <2> HIDE DEF u
  <2> QED
    BY <1>1, <2>1, <2>2
<1>6. d \in Int
  <2>1. MinBatch \in Nat \ {0} /\ n - 1 \in Int
    BY <1>1, TableAssumption
  <2> QED
    BY <2>1, Division
<1>7. CASE k < p
  <2>1. n < Primes[p] /\ Primes[p] \in Nat
    BY <1>2, <1>3, <1>4, <1>7, TableAssumption, PrimeIs
  <2>2. UpperBoundOf(Primes[k]) + (Primes[k] - 1) \div MinBatch
          < UpperBoundOf(Primes[p])
    BY <1>3, <1>4, <1>7, PrimesAssumption
  <2>3. u + d < UpperBoundOf(Primes[p])
    BY <1>2, <2>2
  <2>4. UpperBoundOf(Primes[p]) \in Nat
    BY <2>1, UpperBoundIs
  <2> HIDE DEF u, d
  <2>5. t.main.size + d < UpperBoundOf(Primes[p])
    BY <1>1, <1>5, <1>6, <2>3, <2>4
  <2> QED
    BY <1>1, <1>3, <2>1, <2>5 DEF d
<1>8. CASE k = p
  <2>1. p = Len(Primes) /\ n = Primes[p]
    BY <1>1, <1>2, <1>3, <1>8
  <2>2. Capacity = u - d - 1
    BY <2>1 DEF Capacity
  <2> HIDE DEF u, d
  <2>3. t.main.size + d < u
    BY <1>1, <1>5, <1>6, <2>2
  <2> QED
    BY <1>1, <1>3, <2>1, <2>3 DEF u, d
<1> QED
  BY <1>4, <1>7, <1>8

Begun(t, prime) ==
  [t EXCEPT !.prime = prime, !.batch = Batch(0, t.main.n),
            !.shadow = Buckets(Primes[prime])]

\* A resize begins with an empty shadow.
LEMMA BegunIsMoving ==
  ASSUME NEW t, Whole(t), t.position = 0, t.main.nDirty =< UpperBound(t.main),
         NEW p \in DOMAIN Primes, t.prime =< p, t.main.n =< Primes[p],
         t.main.size + (t.main.n - 1) \div MinBatch < UpperBoundOf(Primes[p]),
         NEW u, u = Begun(t, p)
  PROVE  Whole(u) /\ Moving(u, t.main.size, 0) /\ u.main = t.main
<1> DEFINE empty == Buckets(Primes[p])
           batch == Batch(0, t.main.n)
<1>1. /\ t \in Tables /\ Sound(t.main) /\ t.main.n \in Nat /\ t.main.n > 2
      /\ t.main.size \in Nat /\ t.main.nDirty \in Nat
  BY WholeFacts DEF Whole
<1>2. Primes[p] \in Nat /\ Primes[p] \in PrimeSizes
  BY PrimeIs
<1>3. /\ Sound(empty) /\ empty.n = Primes[p] /\ empty.nDirty = 0
      /\ Elements(empty) = {} /\ empty \in Arrays
  BY <1>2, EmptyIsSound DEF Sound
<1>4. batch \in Nat /\ batch >= MinBatch
  BY <1>1, BatchIs
<1>5. u = [t EXCEPT !.prime = p, !.batch = batch, !.shadow = empty]
  BY DEF Begun
<1> HIDE DEF empty, batch
<1>6. /\ u \in Tables /\ u.main = t.main /\ u.shadow = empty /\ u.prime = p
      /\ u.batch = batch /\ u.position = 0
  BY <1>1, <1>3, <1>4, <1>5 DEF Tables
<1>7. Whole(u)
  <2>1. PICK k \in 1..t.prime : t.main.n = Primes[k]
    BY DEF Whole
  <2>2. k \in 1..p
    <3>1. t.prime \in Nat /\ p \in Nat
      <4>1. /\ t.prime \in DOMAIN Primes /\ DOMAIN Primes = 1..Len(Primes)
            /\ Len(Primes) \in Nat
        BY WholeFacts
      <4> QED
        BY <4>1
    <3> QED
      BY <2>1, <3>1
  <2> QED
    BY <1>1, <1>6, <2>1, <2>2 DEF Whole
<1>8. Pending(u.main, u.shadow, 0) = Elements(t.main)
  BY <1>1, <1>3, <1>6, AllIsBehind DEF Pending
<1>9. Cardinality(Elements(t.main)) = t.main.size
  BY <1>1, ElementsAreCounted
<1>10. Follows(u.main, u.shadow, u.position, t.main.size + 0)
  BY <1>1, <1>2, <1>3, <1>6, <1>8, <1>9, AllIsBehind DEF Follows
<1>11. u.batch * 0 =< u.position /\ u.position \in 0..(u.main.n - 1)
  BY <1>1, <1>4, <1>6
<1>12. u.main.nDirty =< UpperBound(u.main) + 0
  BY <1>1, <1>6, UpperBoundIs DEF UpperBound
<1>13. t.main.size + (u.main.n - 1) \div MinBatch < UpperBound(u.shadow)
  BY <1>3, <1>6 DEF UpperBound
<1>14. Moving(u, t.main.size, 0)
  BY <1>3, <1>4, <1>6, <1>10, <1>11, <1>12, <1>13 DEF Moving
<1> QED
  BY <1>6, <1>7, <1>14

-----------------------------------------------------------------------------
(* mh_put and mh_del.                                                      *)

LEMMA SettledHasRoom ==
  ASSUME NEW t, Whole(t), t.main.nDirty =< UpperBound(t.main)
  PROVE  Roomed(t.main) /\ t.main.nDirty + 1 =< t.main.n
<1>1. /\ t.main.n \in PrimeSizes /\ t.main.n \in Nat /\ t.main.n > 2
      /\ t.main.nDirty \in Nat
  BY WholeFacts
<1>2. t.main.nDirty =< UpperBoundOf(t.main.n)
  BY DEF UpperBound
<1>3. UpperBoundOf(t.main.n) \in Nat /\ 10 * UpperBoundOf(t.main.n) =< 7 * t.main.n
  BY <1>1, UpperBoundIs
<1>4. t.main.nDirty < t.main.n
  BY <1>1, <1>2, <1>3
<1> QED
  BY <1>1, <1>4 DEF Roomed, Whole

LEMMA TableHasRoom ==
  ASSUME NEW t, TableOK(t)
  PROVE  /\ Roomed(t.main) /\ t.main.size # t.main.n
         /\ t.position = 0 => Settled(t)
         /\ t.position > 0 => t.shadow.nDirty < UpperBound(t.shadow) /\ Roomed(t.shadow)
<1>1. Whole(t) /\ t.position \in Nat /\ t.main.n \in Nat
      /\ t.main.size \in Nat /\ t.main.nDirty \in Nat /\ t.main.size =< t.main.nDirty
  BY WholeFacts DEF TableOK
<1>2. CASE Settled(t)
  <2>1. Roomed(t.main) /\ t.main.nDirty + 1 =< t.main.n
    BY <1>1, <1>2, SettledHasRoom DEF Settled
  <2> QED
    BY <1>1, <1>2, <2>1 DEF Settled
<1>3. CASE ~Settled(t)
  <2>1. t.position > 0
    BY <1>3 DEF TableOK
  <2>2. PICK start \in Nat, steps \in Nat : Moving(t, start, steps)
    BY <1>3 DEF TableOK
  <2>3. /\ Roomed(t.main) /\ Roomed(t.shadow) /\ t.main.nDirty + 1 =< t.main.n
        /\ t.shadow.nDirty < UpperBound(t.shadow)
    BY <1>1, <2>2, MovingHasRoom
  <2> QED
    BY <1>1, <2>1, <2>3
<1> QED
  BY <1>2, <1>3

\* Room for one more node: below the upper bound, or a batch ahead.
Prepared(t) ==
  /\ Whole(t)
  /\ \/ Settled(t) /\ t.main.nDirty < UpperBound(t.main)
     \/ /\ t.position > 0
        /\ \E start, steps \in Nat :
             Moving(t, start, steps) /\ t.batch * (steps + 1) =< t.position

LEMMA ResizePrepares ==
  ASSUME NEW t, Whole(t), NEW start \in Nat, NEW steps \in Nat,
         Moving(t, start, steps), NEW u, u = Resize(t)
  PROVE  Prepared(u) /\ Elements(u.main) = Elements(t.main)
<1>1. /\ Whole(u) /\ Elements(u.main) = Elements(t.main)
      /\ \/ Settled(u) /\ u.main.nDirty < UpperBound(u.main)
         \/ /\ Moving(u, start, steps) /\ u.main = t.main /\ u.batch = t.batch
            /\ u.position = t.position + t.batch /\ u.position > 0
  BY ResizeIsOK
<1>2. CASE Settled(u) /\ u.main.nDirty < UpperBound(u.main)
  BY <1>1, <1>2 DEF Prepared
<1>3. CASE /\ Moving(u, start, steps) /\ u.batch = t.batch
           /\ u.position = t.position + t.batch /\ u.position > 0
  <2>1. t.batch \in Nat /\ t.position \in Nat /\ t.batch * steps =< t.position
    BY WholeFacts DEF Moving
  <2>2. t.batch * (steps + 1) = t.batch * steps + t.batch
    <3>1. t.batch \in Int /\ steps \in Int
      BY <2>1
    <3> QED
      BY <3>1, OneMore
  <2>3. t.batch * steps \in Nat
    BY <2>1, NatProduct
  <2>4. u.batch * (steps + 1) =< u.position
    BY <1>3, <2>1, <2>2, <2>3
  <2> QED
    BY <1>1, <1>3, <2>4 DEF Prepared
<1> QED
  BY <1>1, <1>2, <1>3

\* What mh_put does first makes room for the node, unless memory is missing.
LEMMA MakeRoomPrepares ==
  ASSUME NEW t, TableOK(t), t.main.size =< Capacity, NEW memory \in BOOLEAN,
         ~(Crowded(t) /\ ~memory), NEW u, u = MakeRoom(t, memory)
  PROVE  Prepared(u) /\ Elements(u.main) = Elements(t.main)
<1>1. Whole(t) /\ t.position \in Nat /\ t.main.n \in Nat /\ t.main.nDirty \in Nat
      /\ t.prime \in DOMAIN Primes /\ t.main.size \in Nat
  BY WholeFacts DEF TableOK
<1>2. CASE t.position > 0
  <2>1. u = Resize(t)
    BY <1>2 DEF MakeRoom
  <2>2. PICK start \in Nat, steps \in Nat : Moving(t, start, steps)
    BY <1>1, <1>2 DEF TableOK, Settled
  <2> QED
    BY <1>1, <2>1, <2>2, ResizePrepares
<1>3. CASE t.position = 0 /\ ~Crowded(t)
  <2>1. u = t
    BY <1>3 DEF MakeRoom
  <2>2. Settled(t) /\ ~(t.main.nDirty >= UpperBound(t.main))
    BY <1>3, TableHasRoom DEF Crowded
  <2>3. UpperBound(t.main) \in Nat
    BY <1>1, UpperBoundIs DEF UpperBound
  <2>4. t.main.nDirty < UpperBound(t.main)
    BY <1>1, <2>2, <2>3
  <2> QED
    BY <1>1, <2>1, <2>2, <2>4 DEF Prepared
<1>4. CASE t.position = 0 /\ Crowded(t)
  <2> DEFINE p == NextPrime(t.prime, t.main.n + 1)
             w == Begun(t, p)
  <2>1. memory = TRUE
    BY <1>4
  <2>2. u = StartResize(t, t.main.n + 1, 0, TRUE)
    BY <1>4, <2>1 DEF MakeRoom
  <2>3. ~(t.position > 0 \/ t.main.n + 1 < t.main.n)
    BY <1>1, <1>4
  <2>4. u = Resize([[t EXCEPT !.prime = NextPrime(@, t.main.n + 1),
                              !.batch = Batch(0, t.main.n)]
                     EXCEPT !.shadow = Buckets(Primes[[t EXCEPT
                              !.prime = NextPrime(@, t.main.n + 1),
                              !.batch = Batch(0, t.main.n)].prime])])
    BY <2>2, <2>3 DEF StartResize
  <2>5. t \in Tables
    BY <1>1 DEF Whole
  <2>6. u = Resize(w)
    BY <2>4, <2>5 DEF Begun, Tables
  <2> HIDE DEF p
  <2>7. Settled(t)
    BY <1>4, TableHasRoom
  <2>8. /\ p \in DOMAIN Primes /\ t.prime =< p /\ t.main.n =< Primes[p]
        /\ t.main.size + (t.main.n - 1) \div MinBatch < UpperBoundOf(Primes[p])
    BY <1>1, <2>7, RoomToGrow DEF p
  <2>9. w = Begun(t, p)
    OBVIOUS
  <2> HIDE DEF w
  <2>10. Whole(w) /\ Moving(w, t.main.size, 0) /\ w.main = t.main
    BY <1>1, <1>4, <2>7, <2>8, <2>9, BegunIsMoving DEF Settled
  <2>11. Prepared(u) /\ Elements(u.main) = Elements(w.main)
    <3>1. 0 \in Nat
      OBVIOUS
    <3> QED
      BY <1>1, <2>6, <2>10, <3>1, ResizePrepares
  <2> QED
    BY <2>10, <2>11
<1> QED
  BY <1>1, <1>2, <1>3, <1>4

\* Without memory the table stays as it is, but for the next prime.
LEMMA NoMemoryKeeps ==
  ASSUME NEW t, TableOK(t), Crowded(t), NEW u, u = MakeRoom(t, FALSE)
  PROVE  TableOK(u) /\ u.main = t.main /\ u.position = 0
<1>1. Whole(t) /\ t.position = 0 /\ t.main.n \in Nat /\ Settled(t) /\ t \in Tables
      /\ t.prime \in DOMAIN Primes /\ DOMAIN Primes = 1..Len(Primes)
      /\ Len(Primes) \in Nat
  BY WholeFacts, TableHasRoom DEF TableOK, Crowded, Whole
<1> DEFINE p == NextPrime(t.prime, t.main.n + 1)
           batch == Batch(0, t.main.n)
<1>2. u = StartResize(t, t.main.n + 1, 0, FALSE)
  BY <1>1 DEF MakeRoom
<1>3. ~(t.position > 0 \/ t.main.n + 1 < t.main.n)
  BY <1>1
<1>4. u = [t EXCEPT !.prime = p, !.batch = batch]
  BY <1>1, <1>2, <1>3 DEF StartResize, Tables
<1>5. p \in DOMAIN Primes /\ t.prime =< p
  <2>1. t.main.n + 1 \in Nat
    BY <1>1
  <2> QED
    BY <1>1, <2>1, NextPrimeIs
<1>6. batch \in Nat
  BY <1>1, BatchIs
<1> HIDE DEF p, batch
<1>7. /\ u \in Tables /\ u.main = t.main /\ u.shadow = t.shadow /\ u.prime = p
      /\ u.position = t.position
  BY <1>1, <1>4, <1>5, <1>6 DEF Tables
<1>8. Whole(u)
  <2>1. PICK k \in 1..t.prime : t.main.n = Primes[k]
    BY <1>1 DEF Whole
  <2>2. k \in 1..p
    BY <1>1, <1>5, <2>1
  <2> QED
    BY <1>1, <1>7, <2>1, <2>2 DEF Whole
<1>9. Settled(u)
  BY <1>1, <1>7 DEF Settled
<1> QED
  BY <1>1, <1>7, <1>8, <1>9 DEF TableOK

\* The copy of the node into the table and, during a resize, into the shadow.
Placed(u, key) ==
  [u EXCEPT !.main = PutSlot(@, key),
            !.shadow = IF u.position > 0 THEN PutSlot(@, key) ELSE @]

LEMMA PlacedIsOK ==
  ASSUME NEW u, Prepared(u), NEW key \in Keys, NEW v, v = Placed(u, key)
  PROVE  TableOK(v) /\ Elements(v.main) = Elements(u.main) \cup {key}
<1> DEFINE main == PutSlot(u.main, key)
           shadow == IF u.position > 0 THEN PutSlot(u.shadow, key) ELSE u.shadow
<1>1. /\ Whole(u) /\ u \in Tables /\ u.main.n \in Nat /\ u.main.nDirty \in Nat
      /\ u.position \in Nat /\ u.prime \in DOMAIN Primes /\ u.batch \in Nat
  BY WholeFacts DEF Prepared, Whole
<1>2. v = [u EXCEPT !.main = main, !.shadow = shadow]
  BY <1>1 DEF Placed, Tables
<1>3. CASE Settled(u) /\ u.main.nDirty < UpperBound(u.main)
  <2>1. shadow = u.shadow
    BY <1>3 DEF Settled
  <2>2. UpperBound(u.main) \in Nat
    BY <1>1, UpperBoundIs DEF UpperBound
  <2>3. Roomed(u.main)
    BY <1>1, <1>3, SettledHasRoom DEF Settled
  <2>4. /\ Sound(main) /\ main.n = u.main.n /\ main.nDirty =< u.main.nDirty + 1
        /\ Elements(main) = Elements(u.main) \cup {key}
    BY <2>3, PutSlotIsSound
  <2>5. main \in Arrays /\ u.shadow \in Arrays /\ main.nDirty \in Nat
    BY <1>1, <2>4, SoundFacts DEF Sound, Tables
  <2> HIDE DEF main, shadow
  <2>6. /\ v \in Tables /\ v.main = main /\ v.shadow = u.shadow
        /\ v.position = u.position /\ v.prime = u.prime
    BY <1>1, <1>2, <2>1, <2>5 DEF Tables
  <2>7. Whole(v)
    BY <1>1, <2>4, <2>6 DEF Whole
  <2>8. UpperBound(main) = UpperBound(u.main)
    BY <2>4 DEF UpperBound
  <2>9. main.nDirty =< UpperBound(main)
    BY <1>1, <1>3, <2>2, <2>4, <2>5, <2>8
  <2>10. Settled(v)
    BY <1>3, <2>6, <2>9 DEF Settled
  <2> QED
    BY <2>4, <2>6, <2>7, <2>10 DEF TableOK
<1>4. CASE /\ u.position > 0
           /\ \E start, steps \in Nat :
                Moving(u, start, steps) /\ u.batch * (steps + 1) =< u.position
  <2>1. PICK start \in Nat, steps \in Nat :
          Moving(u, start, steps) /\ u.batch * (steps + 1) =< u.position
    BY <1>4
  <2>2. shadow = PutSlot(u.shadow, key)
    BY <1>4
  <2>3. Roomed(u.main) /\ Roomed(u.shadow)
    BY <1>1, <2>1, MovingHasRoom
  <2>4. /\ Sound(main) /\ main.n = u.main.n /\ main.nDirty =< u.main.nDirty + 1
        /\ Elements(main) = Elements(u.main) \cup {key}
    BY <2>3, PutSlotIsSound
  <2>5. Sound(shadow) /\ shadow.n = u.shadow.n
    BY <2>2, <2>3, PutSlotIsSound
  <2>6. start + steps \in Nat /\ (start + steps) + 1 = start + (steps + 1)
        /\ steps + 1 \in Nat
    OBVIOUS
  <2>7. Follows(u.main, u.shadow, u.position, start + steps)
    BY <2>1 DEF Moving
  <2>8. Follows(main, shadow, u.position, (start + steps) + 1)
    BY <1>1, <2>2, <2>3, <2>6, <2>7, PutFollows
  <2>9. main \in Arrays /\ shadow \in Arrays /\ main.nDirty \in Nat
    BY <2>4, <2>5, SoundFacts DEF Sound
  <2> HIDE DEF main, shadow
  <2>10. /\ v \in Tables /\ v.main = main /\ v.shadow = shadow
         /\ v.position = u.position /\ v.prime = u.prime /\ v.batch = u.batch
    BY <1>1, <1>2, <2>9 DEF Tables
  <2>11. Whole(v)
    BY <1>1, <2>4, <2>10 DEF Whole
  <2>12. UpperBound(main) = UpperBound(u.main) /\ UpperBound(u.main) \in Nat
         /\ UpperBound(shadow) = UpperBound(u.shadow)
    BY <1>1, <2>4, <2>5, UpperBoundIs DEF UpperBound
  <2>13. u.main.nDirty =< UpperBound(u.main) + steps
    BY <2>1 DEF Moving
  <2>14. main.nDirty =< UpperBound(main) + (steps + 1)
    BY <1>1, <2>4, <2>9, <2>12, <2>13
  <2>15. /\ u.position \in 0..(u.main.n - 1) /\ u.batch >= MinBatch
         /\ u.shadow.n = Primes[u.prime] /\ u.main.n =< u.shadow.n
         /\ start + (u.main.n - 1) \div MinBatch < UpperBound(u.shadow)
    BY <2>1 DEF Moving
  <2>16. /\ v.position \in 0..(v.main.n - 1) /\ v.batch >= MinBatch
         /\ v.shadow.n = Primes[v.prime] /\ v.main.n =< v.shadow.n
         /\ start + (v.main.n - 1) \div MinBatch < UpperBound(v.shadow)
    BY <2>4, <2>5, <2>10, <2>12, <2>15
  <2>17. v.batch * (steps + 1) =< v.position
    BY <2>1, <2>10
  <2>18. Moving(v, start, steps + 1)
    BY <2>6, <2>8, <2>10, <2>14, <2>16, <2>17 DEF Moving
  <2> QED
    BY <1>4, <2>4, <2>6, <2>10, <2>11, <2>18 DEF TableOK
<1> QED
  BY <1>3, <1>4 DEF Prepared

\* mh_put keeps the invariant and adds the node, unless memory is missing.
LEMMA PutIsOK ==
  ASSUME NEW t, TableOK(t), t.main.size =< Capacity, NEW key \in Keys,
         NEW memory \in BOOLEAN, NEW u, u = Put(t, key, memory)
  PROVE  /\ TableOK(u)
         /\ \/ Elements(u.main) = Elements(t.main) \cup {key}
            \/ /\ Crowded(t) /\ ~memory /\ u.position = 0
               /\ Elements(u.main) = Elements(t.main)
<1> DEFINE w == MakeRoom(t, memory)
<1>1. t.main.size # t.main.n
  BY TableHasRoom
<1>2. CASE Crowded(t) /\ ~memory
  <2>1. memory = FALSE
    BY <1>2
  <2>2. u = MakeRoom(t, FALSE)
    BY <1>1, <1>2, <2>1 DEF Put
  <2> QED
    BY <1>2, <2>2, NoMemoryKeeps
<1>3. CASE ~(Crowded(t) /\ ~memory)
  <2>1. u = Placed(w, key)
    BY <1>1, <1>3 DEF Put, Placed
  <2> HIDE DEF w
  <2>2. Prepared(w) /\ Elements(w.main) = Elements(t.main)
    BY <1>3, MakeRoomPrepares DEF w
  <2> QED
    BY <2>1, <2>2, PlacedIsOK
<1> QED
  BY <1>2, <1>3

\* mh_del keeps the invariant and takes away the node of the bucket, if any.
LEMMA DelIsOK ==
  ASSUME NEW t, TableOK(t), NEW i \in 0..t.main.n, NEW u, u = Del(t, i)
  PROVE  /\ TableOK(u) /\ t.main.n =< u.main.n
         /\ i \notin Existing(t.main) => u = t
         /\ i \in Existing(t.main) =>
              Elements(u.main) = Elements(t.main) \ {t.main.at[i]}
         /\ t.position = 0 => u.position = 0 /\ u.main = Erase(t.main, i)
<1>1. /\ Whole(t) /\ t \in Tables /\ Sound(t.main) /\ t.main.n \in Nat
      /\ t.position \in Nat /\ t.batch \in Nat /\ t.prime \in DOMAIN Primes
      /\ t.main.nDirty \in Nat
  BY WholeFacts DEF TableOK, Whole
<1>2. i \in Existing(t.main) <=> ~(i = t.main.n \/ ~Exist(t.main, i))
  <2>1. i \in Existing(t.main) <=> i \in 0..(t.main.n - 1) /\ t.main.at[i] # Unused
    BY <1>1, SoundFacts
  <2> QED
    BY <1>1, <2>1 DEF Exist
<1>3. CASE i \notin Existing(t.main)
  <2>1. u = t /\ Erase(t.main, i) = t.main
    BY <1>2, <1>3 DEF Del, Erase
  <2> QED
    BY <1>1, <1>3, <2>1
<1>4. CASE i \in Existing(t.main)
  <2> DEFINE key == t.main.at[i]
             main == Erase(t.main, i)
             shadow == Erase(t.shadow, Find(t.shadow, key))
  <2>1. key \in Keys
    BY <1>1, <1>4, SoundFacts
  <2>2. /\ Sound(main) /\ main.n = t.main.n
        /\ Elements(main) = Elements(t.main) \ {key}
        /\ main.nDirty =< t.main.nDirty
        /\ main.at = [t.main.at EXCEPT ![i] = Unused]
        /\ Existing(main) = Existing(t.main) \ {i}
    BY <1>1, <1>4, EraseIsSound
  <2>3. main \in Arrays /\ main.nDirty \in Nat
    BY <2>2, SoundFacts DEF Sound
  <2>4. UpperBound(main) = UpperBound(t.main) /\ UpperBound(main) \in Nat
    BY <1>1, <2>2, UpperBoundIs DEF UpperBound
  <2>5. CASE t.position = 0
    <3>1. u = [t EXCEPT !.main = main]
      BY <1>2, <1>4, <2>5 DEF Del
    <3>2. Settled(t)
      BY <2>5, TableHasRoom
    <3> HIDE DEF key, main, shadow
    <3>3. /\ u \in Tables /\ u.main = main /\ u.shadow = t.shadow
          /\ u.position = 0 /\ u.prime = t.prime
      BY <1>1, <2>3, <2>5, <3>1 DEF Tables
    <3>4. Whole(u)
      BY <1>1, <2>2, <3>3 DEF Whole
    <3>5. main.nDirty =< UpperBound(main)
      BY <1>1, <2>2, <2>3, <2>4, <3>2 DEF Settled
    <3>6. Settled(u)
      BY <3>2, <3>3, <3>5 DEF Settled
    <3>7. TableOK(u)
      BY <3>4, <3>6 DEF TableOK
    <3> QED
      BY <1>1, <1>4, <2>2, <3>3, <3>7 DEF key, main
  <2>6. CASE t.position # 0
    <3> DEFINE w == [t EXCEPT !.main = main, !.shadow = shadow]
    <3>1. u = Resize(w)
      <4>1. u = Resize([[t EXCEPT !.main = main] EXCEPT !.shadow =
                          Erase(@, Find(@, key))])
        BY <1>2, <1>4, <2>6 DEF Del
      <4> HIDE DEF main, key
      <4> QED
        BY <1>1, <4>1 DEF Tables, key
    <3>2. PICK start \in Nat, steps \in Nat : Moving(t, start, steps)
      BY <1>1, <2>6 DEF TableOK, Settled
    <3>3. Roomed(t.main) /\ Roomed(t.shadow)
      BY <1>1, <3>2, MovingHasRoom
    <3>4. Sound(shadow) /\ shadow.n = t.shadow.n
      BY <2>1, <3>3, EraseFoundIsSound
    <3>5. shadow \in Arrays
      BY <3>4 DEF Sound
    <3>6. start + steps \in Nat
          /\ Follows(t.main, t.shadow, t.position, start + steps)
      BY <3>2 DEF Moving
    <3>7. Follows(main, shadow, t.position, start + steps)
      BY <1>1, <1>4, <3>3, <3>6, EraseFollows
    <3> HIDE DEF key, main, shadow
    <3>8. /\ w \in Tables /\ w.main = main /\ w.shadow = shadow
          /\ w.position = t.position /\ w.prime = t.prime /\ w.batch = t.batch
      BY <1>1, <2>3, <3>5 DEF Tables
    <3> HIDE DEF w
    <3>9. Whole(w)
      BY <1>1, <2>2, <3>8 DEF Whole
    <3>10. /\ t.position \in 0..(t.main.n - 1) /\ t.batch >= MinBatch
           /\ t.batch * steps =< t.position
           /\ t.main.nDirty =< UpperBound(t.main) + steps
           /\ t.shadow.n = Primes[t.prime] /\ t.main.n =< t.shadow.n
           /\ start + (t.main.n - 1) \div MinBatch < UpperBound(t.shadow)
      BY <3>2 DEF Moving
    <3>11. main.nDirty =< UpperBound(main) + steps
      BY <1>1, <2>2, <2>3, <2>4, <3>10
    <3>12. UpperBound(shadow) = UpperBound(t.shadow)
      BY <3>4 DEF UpperBound
    <3>13. Moving(w, start, steps)
      BY <2>2, <3>4, <3>7, <3>8, <3>10, <3>11, <3>12 DEF Moving
    <3>14. /\ Whole(u) /\ Elements(u.main) = Elements(main) /\ main.n =< u.main.n
           /\ \/ Settled(u)
              \/ Moving(u, start, steps) /\ u.position > 0
      BY <3>1, <3>8, <3>9, <3>13, ResizeIsOK
    <3>15. TableOK(u)
      BY <3>14 DEF TableOK
    <3> QED
      BY <1>4, <2>2, <2>6, <3>14, <3>15 DEF key
  <2> QED
    BY <2>5, <2>6
<1> QED
  BY <1>3, <1>4

-----------------------------------------------------------------------------
(* The loop that deletes the collected buckets.                            *)

DelOne(t, buckets, i) == IF i \in buckets THEN Del(t, i) ELSE t

IsDel(del, t, buckets, end) ==
  del = [i \in 0..end |-> IF i = 0 THEN t ELSE DelOne(del[i - 1], buckets, i - 1)]

LEMMA LongerDel ==
  ASSUME NEW t, NEW buckets, NEW end \in Nat, NEW del, IsDel(del, t, buckets, end)
  PROVE  \E f : IsDel(f, t, buckets, end + 1)
<1> DEFINE f == [i \in 0..(end + 1) |->
                   IF i = end + 1 THEN DelOne(del[end], buckets, end) ELSE del[i]]
<1>1. \A i \in 0..end :
        del[i] = IF i = 0 THEN t ELSE DelOne(del[i - 1], buckets, i - 1)
  BY DEF IsDel
<1>2. \A i \in 0..(end + 1) :
        f[i] = IF i = end + 1 THEN DelOne(del[end], buckets, end) ELSE del[i]
  OBVIOUS
<1> DEFINE g == [i \in 0..(end + 1) |->
                   IF i = 0 THEN t ELSE DelOne(f[i - 1], buckets, i - 1)]
<1>3. f = [i \in 0..(end + 1) |-> f[i]]
  OBVIOUS
<1> HIDE DEF f
<1>4. ASSUME NEW i \in 0..(end + 1) PROVE f[i] = g[i]
  <2>1. CASE i = end + 1
    <3>1. end \in 0..(end + 1) /\ end # end + 1 /\ i # 0 /\ i - 1 = end
      BY <2>1
    <3>2. f[end] = del[end]
      BY <3>1, <1>2
    <3>3. f[i] = DelOne(del[end], buckets, end)
      BY <2>1, <1>2
    <3>4. g[i] = DelOne(f[i - 1], buckets, i - 1)
      BY <3>1
    <3> QED
      BY <3>1, <3>2, <3>3, <3>4
  <2>2. CASE i = 0
    <3>1. i # end + 1 /\ i \in 0..end
      BY <2>2
    <3> QED
      BY <2>2, <3>1, <1>1, <1>2
  <2>3. CASE i # 0 /\ i # end + 1
    <3>1. i \in 0..end /\ i - 1 \in 0..(end + 1) /\ i - 1 # end + 1
      BY <2>3
    <3>2. f[i - 1] = del[i - 1] /\ f[i] = del[i]
      BY <2>3, <3>1, <1>2
    <3>3. del[i] = DelOne(del[i - 1], buckets, i - 1)
      BY <2>3, <3>1, <1>1
    <3>4. g[i] = DelOne(f[i - 1], buckets, i - 1)
      BY <2>3
    <3> QED
      BY <3>2, <3>3, <3>4
  <2> QED
    BY <2>1, <2>2, <2>3
<1>5. f = g
  BY <1>3, <1>4
<1> QED
  BY <1>5 DEF IsDel

LEMMA DelExists ==
  ASSUME NEW t, NEW buckets, NEW end \in Nat
  PROVE  \E del : IsDel(del, t, buckets, end)
<1> DEFINE S == {n \in Nat : \E del : IsDel(del, t, buckets, n)}
<1>1. 0 \in S
  <2> DEFINE f == [i \in 0..0 |-> t]
  <2>1. f = [i \in 0..0 |-> IF i = 0 THEN t ELSE DelOne(f[i - 1], buckets, i - 1)]
    <3>1. \A i \in 0..0 : i = 0
      OBVIOUS
    <3> QED
      BY <3>1
  <2>2. IsDel(f, t, buckets, 0)
    BY <2>1 DEF IsDel
  <2> QED
    BY <2>2
<1>2. ASSUME NEW n \in Nat, n \in S PROVE n + 1 \in S
  BY <1>2, LongerDel
<1> HIDE DEF S
<1>3. \A n \in Nat : n \in S
  BY <1>1, <1>2, NatSetInduction
<1> QED
  BY <1>3 DEF S

\* DelBuckets, bucket by bucket.
LEMMA DelBucketsIs ==
  ASSUME NEW t, t.main.n \in Nat, NEW buckets
  PROVE  \E del : /\ DelBuckets(t, buckets) = del[t.main.n]
                  /\ del[0] = t
                  /\ \A i \in 0..(t.main.n - 1) : del[i + 1] = DelOne(del[i], buckets, i)
<1> DEFINE n == t.main.n
           d == CHOOSE del : IsDel(del, t, buckets, n)
<1>1. DelBuckets(t, buckets) = d[n]
  BY DEF DelBuckets, IsDel, DelOne
<1>2. IsDel(d, t, buckets, n)
  BY DelExists
<1> HIDE DEF d, n
<1>3. \A i \in 0..n : d[i] = IF i = 0 THEN t ELSE DelOne(d[i - 1], buckets, i - 1)
  BY <1>2 DEF IsDel
<1>4. n \in Nat
  BY DEF n
<1>5. d[0] = t
  BY <1>3, <1>4
<1>6. ASSUME NEW i \in 0..(n - 1) PROVE d[i + 1] = DelOne(d[i], buckets, i)
  <2>1. i + 1 \in 0..n /\ i + 1 # 0 /\ (i + 1) - 1 = i
    BY <1>4
  <2> QED
    BY <2>1, <1>3
<1> QED
  BY <1>1, <1>5, <1>6 DEF n

\* What is left of an array when a bucket is emptied.
LEMMA EraseKeeps ==
  ASSUME NEW b, Sound(b), NEW i \in 0..b.n, NEW c, c = Erase(b, i)
  PROVE  /\ Existing(c) = Existing(b) \ {i} /\ c.n = b.n
         /\ \A k \in Existing(c) : c.at[k] = b.at[k]
<1>1. i \in Existing(b) <=> ~(i = b.n \/ ~Exist(b, i))
  <2>1. /\ i \in Existing(b) <=> i \in 0..(b.n - 1) /\ b.at[i] # Unused
        /\ b.n \in Nat
    BY SoundFacts
  <2> QED
    BY <2>1 DEF Exist
<1>2. CASE i \notin Existing(b)
  <2>1. c = b
    BY <1>1, <1>2 DEF Erase
  <2> QED
    BY <1>2, <2>1
<1>3. CASE i \in Existing(b)
  <2> DEFINE key == b.at[i]
  <2>1. /\ Sound(c) /\ c.n = b.n
        /\ Elements(c) = Elements(b) \ {key}
        /\ c.nDirty =< b.nDirty
        /\ c.at = [b.at EXCEPT ![i] = Unused]
        /\ Existing(c) = Existing(b) \ {i}
    BY <1>3, EraseIsSound
  <2>2. \A k \in Existing(b) : k \in 0..(b.n - 1)
    BY SoundFacts
  <2>3. b.at \in [0..(b.n - 1) -> Cells]
    BY DEF Sound
  <2> QED
    BY <2>1, <2>2, <2>3
<1> QED
  BY <1>2, <1>3

\* The loop keeps the invariant and adds nothing; in a table that is not being
\* resized it empties the collected buckets and no other.
LEMMA DelBucketsIsOK ==
  ASSUME NEW t, TableOK(t), NEW buckets, NEW u, u = DelBuckets(t, buckets)
  PROVE  /\ TableOK(u) /\ Elements(u.main) \subseteq Elements(t.main)
         /\ t.position = 0 =>
              /\ u.position = 0
              /\ Elements(u.main) =
                   {t.main.at[i] : i \in Existing(t.main) \ buckets}
<1> DEFINE n == t.main.n
<1>1. n \in Nat /\ Sound(t.main)
  BY WholeFacts DEF TableOK, Whole
<1>2. PICK del : /\ DelBuckets(t, buckets) = del[n] /\ del[0] = t
                 /\ \A i \in 0..(n - 1) : del[i + 1] = DelOne(del[i], buckets, i)
  BY <1>1, DelBucketsIs
<1> DEFINE Left(i) == {k \in Existing(t.main) : ~(k \in buckets /\ k < i)}
           Good(i) ==
             /\ TableOK(del[i]) /\ n =< del[i].main.n
             /\ Elements(del[i].main) \subseteq Elements(t.main)
             /\ t.position = 0 =>
                  /\ del[i].position = 0 /\ del[i].main.n = n
                  /\ Existing(del[i].main) = Left(i)
                  /\ \A k \in Left(i) : del[i].main.at[k] = t.main.at[k]
           S == {i \in Nat : i =< n => Good(i)}
<1>3. \A k \in Existing(t.main) : k \in Nat /\ k < n
  BY <1>1, SoundFacts
<1> HIDE DEF n
<1>4. 0 \in S
  <2>1. Left(0) = Existing(t.main)
    BY <1>3
  <2>2. n =< t.main.n
    BY <1>1 DEF n
  <2> QED
    BY <1>2, <2>1, <2>2 DEF n
<1>5. ASSUME NEW i \in Nat, i \in S PROVE i + 1 \in S
  <2> SUFFICES ASSUME i + 1 =< n PROVE Good(i + 1)
    OBVIOUS
  <2> DEFINE d == del[i]
             e == del[i + 1]
  <2>1. i \in 0..(n - 1) /\ i =< n
    BY <1>1
  <2>2. Good(i)
    BY <1>5, <2>1
  <2>3. e = DelOne(d, buckets, i)
    BY <1>2, <2>1
  <2>4. Sound(d.main) /\ d.main.n \in Nat
    BY <2>2, WholeFacts DEF TableOK, Whole
  <2>5. CASE i \notin buckets
    <3>1. e = d
      BY <2>3, <2>5 DEF DelOne
    <3>2. Left(i + 1) = Left(i)
      BY <1>3, <2>5
    <3> QED
      BY <2>2, <3>1, <3>2
  <2>6. CASE i \in buckets
    <3>1. e = Del(d, i)
      BY <2>3, <2>6 DEF DelOne
    <3>2. i \in 0..d.main.n
      BY <1>1, <2>1, <2>2, <2>4
    <3> HIDE DEF d, e
    <3>3. TableOK(d) /\ n =< d.main.n /\ Elements(d.main) \subseteq Elements(t.main)
      BY <2>2 DEF d
    <3>4. /\ TableOK(e) /\ d.main.n =< e.main.n
          /\ i \notin Existing(d.main) => e = d
          /\ i \in Existing(d.main) => Elements(e.main) = Elements(d.main) \ {d.main.at[i]}
          /\ d.position = 0 => e.position = 0 /\ e.main = Erase(d.main, i)
      BY <3>1, <3>2, <3>3, DelIsOK
    <3>5. n =< e.main.n
      <4>1. e.main.n \in Nat
        BY <3>4, WholeFacts DEF TableOK
      <4> QED
        BY <1>1, <2>4, <3>3, <3>4, <4>1
    <3>6. Elements(e.main) \subseteq Elements(t.main)
      BY <3>3, <3>4
    <3>7. ASSUME t.position = 0
          PROVE  /\ e.position = 0 /\ e.main.n = n
                 /\ Existing(e.main) = Left(i + 1)
                 /\ \A k \in Left(i + 1) : e.main.at[k] = t.main.at[k]
      <4>1. /\ d.position = 0 /\ d.main.n = n /\ Existing(d.main) = Left(i)
            /\ \A k \in Left(i) : d.main.at[k] = t.main.at[k]
        BY <2>2, <3>7 DEF d
      <4>2. e.position = 0 /\ e.main = Erase(d.main, i)
        BY <3>4, <4>1
      <4>3. /\ Existing(e.main) = Existing(d.main) \ {i} /\ e.main.n = d.main.n
            /\ \A k \in Existing(e.main) : e.main.at[k] = d.main.at[k]
        BY <2>4, <3>2, <4>2, EraseKeeps
      <4>4. Left(i + 1) = Left(i) \ {i}
        <5>1. \A k \in Existing(t.main) : k < i + 1 <=> k < i \/ k = i
          BY <1>3
        <5> QED
          BY <2>6, <5>1
      <4> HIDE DEF Left
      <4>5. Existing(e.main) = Left(i + 1)
        BY <4>1, <4>3, <4>4
      <4> QED
        BY <4>1, <4>2, <4>3, <4>4, <4>5
    <3> QED
      BY <3>4, <3>5, <3>6, <3>7 DEF e
  <2> QED
    BY <2>5, <2>6
<1> HIDE DEF S
<1>6. \A i \in Nat : i \in S
  BY <1>4, <1>5, NatSetInduction
<1>7. Good(n) /\ u = del[n]
  BY <1>1, <1>2, <1>6 DEF S
<1>8. Left(n) = Existing(t.main) \ buckets
  BY <1>3
<1> HIDE DEF Left
<1>9. ASSUME t.position = 0
      PROVE  u.position = 0 /\ Elements(u.main) = {t.main.at[i] : i \in Existing(t.main) \ buckets}
  <2>1. /\ u.position = 0 /\ Existing(u.main) = Existing(t.main) \ buckets
        /\ \A k \in Existing(t.main) \ buckets : u.main.at[k] = t.main.at[k]
    BY <1>7, <1>8, <1>9
  <2> QED
    BY <2>1 DEF Elements
<1> QED
  BY <1>7, <1>9

-----------------------------------------------------------------------------
(* The specification.                                                      *)

TableInv == TableOK(table)

LEMMA PreparedIsOK ==
  ASSUME NEW t, Prepared(t)
  PROVE  TableOK(t)
BY DEF Prepared, TableOK

LEMMA NewIsOK ==
  ASSUME NEW new, new = [main |-> Buckets(Primes[1]), shadow |-> Buckets(0),
                         prime |-> 1, position |-> 0, batch |-> 0, aborted |-> FALSE]
  PROVE  /\ Whole(new) /\ Settled(new) /\ TableOK(new) /\ Elements(new.main) = {}
         /\ new.main.n = Primes[1] /\ new.main.size = 0 /\ new.prime = 1
         /\ new.position = 0
<1> DEFINE main == Buckets(Primes[1])
           shadow == Buckets(0)
<1>1. 1 \in DOMAIN Primes /\ 1 \in 1..1
  BY TableAssumption
<1>2. Primes[1] \in Nat /\ 0 \in Nat
  BY <1>1, PrimeIs
<1>3. /\ Sound(main) /\ main.n = Primes[1] /\ main.nDirty = 0 /\ main.size = 0
      /\ Elements(main) = {} /\ Sound(shadow)
  BY <1>2, EmptyIsSound
<1>4. main \in Arrays /\ shadow \in Arrays
  BY <1>3 DEF Sound
<1>5. UpperBound(main) \in Nat
  BY <1>2, <1>3, UpperBoundIs DEF UpperBound
<1>6. Settled(new)
  BY <1>3, <1>5 DEF Settled
<1> HIDE DEF main, shadow
<1>7. new = [main |-> main, shadow |-> shadow, prime |-> 1, position |-> 0,
             batch |-> 0, aborted |-> FALSE]
  BY DEF main, shadow
<1>8. /\ new \in Tables /\ new.main = main /\ new.prime = 1 /\ new.position = 0
  BY <1>1, <1>2, <1>4, <1>7 DEF Tables
<1>9. Whole(new)
  BY <1>1, <1>3, <1>8 DEF Whole
<1> QED
  BY <1>3, <1>6, <1>8, <1>9 DEF TableOK

\* The first table, which mh_events_reserve may replace at once, is empty and
\* is not being resized.
LEMMA FirstTable ==
  ASSUME TableInit
  PROVE  TableInv /\ table.position = 0 /\ Elements(table.main) = {}
<1> DEFINE new == [main |-> Buckets(Primes[1]), shadow |-> Buckets(0),
                   prime |-> 1, position |-> 0, batch |-> 0, aborted |-> FALSE]
           wanted == (10 * BuffersCount) \div 7
           p == NextPrime(1, wanted)
           w == Begun(new, p)
<1>1. table = StartResize(new, wanted, 0, TRUE)
  BY DEF TableInit
<1>2. wanted \in Nat
  BY TableAssumption
<1>3. 1 \in DOMAIN Primes /\ Primes[1] =< MinBatch /\ MinBatch \in Nat
      /\ 3 * MinBatch >= 10
  BY TableAssumption, PrimesAssumption
<1> HIDE DEF new, wanted
<1>4. /\ Whole(new) /\ Settled(new) /\ TableOK(new) /\ Elements(new.main) = {}
      /\ new.main.n = Primes[1] /\ new.main.size = 0 /\ new.prime = 1
      /\ new.position = 0
  BY NewIsOK DEF new
<1>5. Primes[1] \in Nat /\ Primes[1] > 2
  BY <1>3, PrimeIs
<1>6. CASE wanted < new.main.n
  <2>1. table = new
    BY <1>1, <1>6 DEF StartResize
  <2> QED
    BY <1>4, <2>1 DEF TableInv
<1>7. CASE ~(wanted < new.main.n)
  <2>1. table = Resize([[new EXCEPT !.prime = NextPrime(@, wanted),
                                    !.batch = Batch(0, new.main.n)]
                     EXCEPT !.shadow = Buckets(Primes[[new EXCEPT
                              !.prime = NextPrime(@, wanted),
                              !.batch = Batch(0, new.main.n)].prime])])
    BY <1>1, <1>4, <1>7 DEF StartResize
  <2>2. table = Resize(w)
    BY <1>4, <2>1 DEF Begun, Tables, Whole
  <2>3. p \in DOMAIN Primes /\ 1 =< p
    BY <1>2, <1>3, NextPrimeIs
  <2> HIDE DEF p
  <2>4. p \in Nat
    BY <2>3, TableAssumption
  <2>5. /\ new.main.n =< Primes[p]
        /\ new.main.size + (new.main.n - 1) \div MinBatch < UpperBoundOf(Primes[p])
    <3> DEFINE n == Primes[1]
               d == (n - 1) \div MinBatch
               r == (n - 1) % MinBatch
               u == UpperBoundOf(n)
               v == UpperBoundOf(Primes[p])
    <3>1. u \in Nat /\ 7 * n =< 10 * u + 9
      BY <1>5, UpperBoundIs
    <3>2. d \in Int /\ r \in 0..(MinBatch - 1) /\ n - 1 = MinBatch * d + r
      <4>1. MinBatch \in Nat \ {0} /\ n - 1 \in Int
        BY <1>3, <1>5
      <4> QED
        BY <4>1, Division
    <3> HIDE DEF d, r, u, v, n
    <3>3. n \in Nat /\ n > 2 /\ n =< MinBatch
      BY <1>3, <1>5 DEF n
    <3>4. d = 0
      <4>1. MinBatch * d =< n - 1 /\ MinBatch * d > n - 1 - MinBatch
        <5>1. MinBatch * d \in Int
          BY <1>3, <3>2, ProductType
        <5> QED
          BY <1>3, <3>2, <3>3, <5>1
      <4>2. CASE d >= 1
        <5>1. MinBatch * d = MinBatch + MinBatch * (d - 1)
          BY <1>3, <3>2
        <5>2. d - 1 \in Nat
          BY <3>2, <4>2
        <5>3. MinBatch * (d - 1) \in Nat
          BY <1>3, <5>2, NatProduct
        <5> QED
          BY <1>3, <3>3, <4>1, <5>1, <5>3
      <4>3. CASE d =< -1
        <5>1. MinBatch * d = - MinBatch - MinBatch * (- d - 1)
          BY <1>3, <3>2
        <5>2. - d - 1 \in Nat
          BY <3>2, <4>3
        <5>3. MinBatch * (- d - 1) \in Nat
          BY <1>3, <5>2, NatProduct
        <5> QED
          BY <1>3, <3>3, <4>1, <5>1, <5>3
      <4> QED
        BY <3>2, <4>2, <4>3
    <3>5. d < u
      BY <3>1, <3>3, <3>4
    <3>6. CASE p = 1
      BY <1>4, <1>5, <3>4, <3>5, <3>6 DEF n, d, u
    <3>7. CASE p # 1
      <4>1. 1 < p
        BY <2>3, <2>4, <3>7
      <4>2. Primes[1] < Primes[p]
        BY <1>3, <2>3, <4>1, TableAssumption
      <4>3. UpperBoundOf(Primes[1]) + (Primes[1] - 1) \div MinBatch
              < UpperBoundOf(Primes[p])
        BY <1>3, <2>3, <4>1, PrimesAssumption
      <4>4. u + d < v
        BY <4>3 DEF u, d, v, n
      <4>5. Primes[p] \in Nat /\ v \in Nat
        BY <2>3, PrimeIs, UpperBoundIs DEF v
      <4>6. d < v
        BY <3>1, <3>4, <4>4, <4>5
      <4>7. new.main.size + d < v
        BY <1>4, <3>4, <4>6
      <4> QED
        BY <1>4, <1>5, <4>2, <4>5, <4>7 DEF n, d, v
    <3> QED
      BY <3>6, <3>7
  <2>6. new.main.nDirty =< UpperBound(new.main)
    BY <1>4 DEF Settled
  <2>7. w = Begun(new, p)
    OBVIOUS
  <2> HIDE DEF w
  <2>8. Whole(w) /\ Moving(w, new.main.size, 0) /\ w.main = new.main
    BY <1>4, <2>3, <2>5, <2>6, <2>7, BegunIsMoving
  <2>9. 0 \in Nat /\ new.main.size \in Nat
    BY <1>4
  <2>10. Prepared(table) /\ Elements(table.main) = Elements(w.main)
    BY <2>2, <2>8, <2>9, ResizePrepares
  <2>11. table.position = 0
    <3>1. w.batch >= MinBatch /\ w.batch \in Nat /\ w.position = 0
      <4>1. w.position = new.position
        BY <1>4, <2>7 DEF Begun, Whole, Tables
      <4> QED
        BY <1>4, <2>8, <4>1, WholeFacts DEF Moving
    <3>2. \/ Settled(table)
          \/ /\ Moving(table, new.main.size, 0) /\ table.main = w.main
             /\ table.position = w.position + w.batch
      BY <2>2, <2>8, <2>9, ResizeIsOK
    <3>3. ASSUME /\ Moving(table, new.main.size, 0) /\ table.main = w.main
                 /\ table.position = w.position + w.batch
          PROVE FALSE
      <4>1. table.position \in 0..(Primes[1] - 1)
        BY <1>4, <2>8, <3>3 DEF Moving
      <4> QED
        BY <1>3, <1>5, <3>1, <3>3, <4>1
    <3> QED
      BY <3>2, <3>3 DEF Settled
  <2> QED
    BY <1>4, <2>8, <2>10, <2>11, PreparedIsOK DEF TableInv
<1> QED
  BY <1>6, <1>7

\* What mh_find returns is a bucket, or mh_end.
LEMMA FindIsBucket ==
  ASSUME NEW t, TableOK(t), NEW key \in Keys
  PROVE  /\ Find(t.main, key) \in 0..t.main.n
         /\ key \in Elements(t.main) =>
              /\ Find(t.main, key) \in Existing(t.main)
              /\ t.main.at[Find(t.main, key)] = key
         /\ key \notin Elements(t.main) => Find(t.main, key) = t.main.n
<1>1. Roomed(t.main) /\ Sound(t.main) /\ t.main.n \in PrimeSizes /\ t.main.n \in Nat
  BY TableHasRoom, SizesArePrime DEF Roomed
<1>2. CASE key \in Elements(t.main)
  <2>1. PICK i \in Existing(t.main) : t.main.at[i] = key
    BY <1>2 DEF Elements
  <2>2. Find(t.main, key) = i
    BY <1>1, <2>1, FindHolds
  <2>3. i \in 0..t.main.n
    <3>1. i \in Nat /\ i < t.main.n
      BY <1>1, <2>1, SoundFacts
    <3> QED
      BY <1>1, <3>1
  <2> QED
    BY <1>2, <2>1, <2>2, <2>3
<1>3. CASE key \notin Elements(t.main)
  <2>1. Find(t.main, key) = t.main.n
    BY <1>1, <1>3, FindMisses
  <2> QED
    BY <1>1, <1>3, <2>1
<1> QED
  BY <1>2, <1>3

\* One step of the worker keeps the invariant.
LEMMA StepKeepsInv ==
  TableInv /\ Roomy /\ [TableNext]_table => TableInv'
<1> SUFFICES ASSUME TableInv, Roomy, [TableNext]_table
             PROVE  TableInv'
  OBVIOUS
<1> USE DEF TableInv
<1>1. ASSUME NEW key \in Keys, NEW memory \in BOOLEAN, AddEvent(key, memory)
      PROVE  TableInv'
  BY <1>1, PutIsOK DEF AddEvent, Roomy
<1>2. ASSUME NEW key \in Keys, RemoveEvent(key)
      PROVE  TableInv'
  <2>1. Find(table.main, key) \in 0..table.main.n
    BY FindIsBucket
  <2> QED
    BY <1>2, <2>1, DelIsOK DEF RemoveEvent
<1>3. ASSUME NEW buckets, DeleteAll(buckets)
      PROVE  TableInv'
  BY <1>3, DelBucketsIsOK DEF DeleteAll
<1>4. ASSUME NEW fd \in Fds, CancelByFd(fd)
      PROVE  TableInv'
  BY <1>3, <1>4 DEF CancelByFd
<1>5. ASSUME CheckEventTimeouts
      PROVE  TableInv'
  BY <1>3, <1>5 DEF CheckEventTimeouts
<1>6. CASE UNCHANGED table
  BY <1>6
<1> QED
  BY <1>1, <1>2, <1>4, <1>5, <1>6 DEF TableNext

\* The invariant says what the runs check of a state.
LEMMA InvIsType == TableInv => TableTypeOK
<1> SUFFICES ASSUME TableInv PROVE TableTypeOK
  OBVIOUS
<1>1. /\ Whole(table) /\ Sound(table.main) /\ table \in Tables
      /\ table.main.n \in Nat /\ table.main.n > 2
      /\ table.prime \in DOMAIN Primes /\ table.position \in Nat
      /\ table.batch \in Nat /\ table.aborted = FALSE
  BY WholeFacts DEF TableInv, TableOK, Whole
<1>2. Sound(table.shadow) /\ table.position \in 0..(table.main.n - 1)
  <2>1. CASE Settled(table)
    <3>1. 0 \in Nat
      OBVIOUS
    <3> QED
      BY <1>1, <2>1, <3>1, EmptyIsSound DEF Settled
  <2>2. CASE ~Settled(table)
    <3>1. PICK start \in Nat, steps \in Nat : Moving(table, start, steps)
      BY <2>2 DEF TableInv, TableOK
    <3> QED
      BY <3>1 DEF Moving, Follows
  <2> QED
    BY <2>1, <2>2
<1>3. ASSUME NEW b, Sound(b)
      PROVE  /\ BucketsOK(b) /\ b.size = Cardinality(Existing(b))
             /\ b.nDirty = Cardinality(Existing(b) \cup b.dirty)
  BY <1>3, SoundFacts DEF BucketsOK, Sound, Cells
<1> QED
  BY <1>1, <1>2, <1>3 DEF TableTypeOK

LEMMA InvFinds == TableInv => EntriesAreFound
<1> SUFFICES ASSUME TableInv PROVE EntriesAreFound
  OBVIOUS
<1>1. Sound(table.main) /\ table.main.n \in PrimeSizes
  BY WholeFacts DEF TableInv, TableOK, Whole
<1>2. \/ Existing(table.shadow) = {}
      \/ Sound(table.shadow) /\ table.shadow.n \in PrimeSizes
  <2>1. CASE Settled(table)
    <3>1. 0 \in Nat
      OBVIOUS
    <3> QED
      BY <2>1, <3>1, EmptyIsSound DEF Settled
  <2>2. CASE ~Settled(table)
    <3>1. PICK start \in Nat, steps \in Nat : Moving(table, start, steps)
      BY <2>2 DEF TableInv, TableOK
    <3> QED
      BY <3>1 DEF Moving, Follows
  <2> QED
    BY <2>1, <2>2
<1>3. ASSUME NEW b, Sound(b), b.n \in PrimeSizes, NEW i \in Existing(b)
      PROVE  Stops(b, b.at[i]) # {} /\ Find(b, b.at[i]) = i
  BY <1>3, FindHolds
<1> QED
  BY <1>1, <1>2, <1>3 DEF EntriesAreFound

LEMMA InvEndsWalks == TableInv => WalksEnd
<1> SUFFICES ASSUME TableInv PROVE WalksEnd
  OBVIOUS
<1>1. /\ Roomed(table.main)
      /\ table.position > 0 => table.shadow.nDirty < UpperBound(table.shadow)
  BY TableHasRoom DEF TableInv
<1>2. Sound(table.main) /\ table.main.n \in PrimeSizes /\ table.main.n \in Nat
      /\ table.main.n > 2
  BY <1>1, SizesArePrime DEF Roomed
<1>3. ASSUME NEW key \in Keys
      PROVE  \E j \in Walk(table.main) :
               LET i == Bucket(table.main, key, j)
               IN  i \notin table.main.dirty /\ ~Exist(table.main, i)
  <2>1. PICK j \in Walk(table.main) :
          Bucket(table.main, key, j) \notin Existing(table.main) \cup table.main.dirty
    BY <1>1, <1>2, SoundFacts, WalkLeaves DEF Roomed, Sound
  <2>2. Bucket(table.main, key, j) \in 0..(table.main.n - 1)
    BY <1>2, BucketType DEF Walk
  <2>3. ~Exist(table.main, Bucket(table.main, key, j))
    BY <1>2, <2>1, <2>2, SoundFacts DEF Exist
  <2> QED
    BY <2>1, <2>3
<1> QED
  BY <1>1, <1>3 DEF WalksEnd, Resizing

LEMMA InvFollows == TableInv => ShadowFollows
<1> SUFFICES ASSUME TableInv PROVE ShadowFollows
  OBVIOUS
<1>1. /\ Sound(table.main) /\ table.main.n \in Nat /\ table.position \in Nat
      /\ table.aborted = FALSE
  BY WholeFacts DEF TableInv, TableOK, Whole
<1> DEFINE shadow == {table.shadow.at[i] : i \in Existing(table.shadow)}
           main(to) == {table.main.at[i] : i \in Existing(table.main) \cap (0..to)}
<1>2. ASSUME table.position > 0
      PROVE  main(table.position - 1) \subseteq shadow
             /\ shadow \subseteq main(table.main.n - 1)
  <2>1. PICK start \in Nat, steps \in Nat : Moving(table, start, steps)
    BY <1>2 DEF TableInv, TableOK, Settled
  <2>2. Behind(table.main, table.position) \subseteq Elements(table.shadow)
        /\ Elements(table.shadow) \subseteq Elements(table.main)
    BY <2>1 DEF Moving, Follows
  <2>3. \A i \in Existing(table.main) : i \in Nat /\ i < table.main.n
    BY <1>1, SoundFacts
  <2>4. Existing(table.main) \cap (0..(table.position - 1))
          = {l \in Existing(table.main) : l < table.position}
        /\ Existing(table.main) \cap (0..(table.main.n - 1)) = Existing(table.main)
    BY <1>1, <2>3
  <2> QED
    BY <2>2, <2>4 DEF Behind, Elements
<1> QED
  BY <1>1, <1>2 DEF ShadowFollows, Resizing

LEMMA InvKeepsAdded == TableInv /\ Roomy => AddedIsKept
<1> SUFFICES ASSUME TableInv, Roomy, NEW key \in Keys
             PROVE  Find(Put(table, key, TRUE).main, key) # Put(table, key, TRUE).main.n
  BY DEF AddedIsKept
<1> DEFINE u == Put(table, key, TRUE)
<1>1. PICK memory \in BOOLEAN : memory = TRUE
  OBVIOUS
<1>2. TableOK(u) /\ Elements(u.main) = Elements(table.main) \cup {key}
  <2>1. TableOK(table) /\ table.main.size =< Capacity
    BY DEF TableInv, Roomy
  <2>2. /\ TableOK(u)
        /\ \/ Elements(u.main) = Elements(table.main) \cup {key}
           \/ /\ Crowded(table) /\ ~memory /\ u.position = 0
              /\ Elements(u.main) = Elements(table.main)
    <3>1. u = Put(table, key, memory)
      BY <1>1
    <3> HIDE DEF u
    <3> QED
      BY <2>1, <3>1, PutIsOK
  <2> QED
    BY <1>1, <2>2
<1> HIDE DEF u
<1>3. Find(u.main, key) \in Existing(u.main)
  BY <1>2, FindIsBucket
<1>4. Sound(u.main)
  BY <1>2 DEF TableOK, Whole
<1>5. Find(u.main, key) \in Nat /\ Find(u.main, key) < u.main.n /\ u.main.n \in Nat
  BY <1>3, <1>4, SoundFacts
<1>6. Find(u.main, key) # u.main.n
  BY <1>5
<1> QED
  BY <1>6 DEF u

\* One step of the worker is one operation of the map.
LEMMA StepImplements ==
  TableInv /\ Roomy /\ [TableNext]_table => [Map!Next]_(Map!mapVars)
<1> SUFFICES ASSUME TableInv, Roomy, [TableNext]_table
             PROVE  Map!Next \/ UNCHANGED Map!mapVars
  OBVIOUS
<1>1. TableOK(table) /\ Entries = Elements(table.main)
      /\ Entries' = Elements(table'.main)
  BY DEF TableInv, Entries, Elements
<1>2. (~Resizing)' \in BOOLEAN /\ Map!Keys = Keys
  BY DEF Map!Keys, Keys
<1>3. /\ Sound(table.main) /\ table.position \in Nat
      /\ \A i \in Existing(table.main) : table.main.at[i] \in Keys
  <2>1. Whole(table) /\ Sound(table.main)
    BY <1>1 DEF TableOK, Whole
  <2> QED
    BY <2>1, WholeFacts, SoundFacts
<1>4. ASSUME NEW key \in Keys, NEW memory \in BOOLEAN, AddEvent(key, memory)
      PROVE  Map!Next \/ UNCHANGED Map!mapVars
  <2>1. \/ Elements(table'.main) = Elements(table.main) \cup {key}
        \/ /\ table.position = 0 /\ table'.position = 0
           /\ Elements(table'.main) = Elements(table.main)
    BY <1>1, <1>4, PutIsOK DEF AddEvent, Roomy, Crowded
  <2>2. CASE Elements(table'.main) = Elements(table.main) \cup {key}
    <3>1. Map!Add(key)
      BY <1>1, <2>2 DEF Map!Add
    <3> QED
      BY <1>2, <3>1 DEF Map!Next
  <2>3. CASE /\ table.position = 0 /\ table'.position = 0
             /\ Elements(table'.main) = Elements(table.main)
    BY <1>1, <2>3 DEF Map!mapVars, Resizing
  <2> QED
    BY <2>1, <2>2, <2>3
<1>5. ASSUME NEW key \in Keys, RemoveEvent(key)
      PROVE  Map!Next \/ UNCHANGED Map!mapVars
  <2> DEFINE i == Find(table.main, key)
  <2>1. /\ i \in 0..table.main.n
        /\ key \in Elements(table.main) =>
             i \in Existing(table.main) /\ table.main.at[i] = key
        /\ key \notin Elements(table.main) => i = table.main.n
    BY <1>1, FindIsBucket
  <2> HIDE DEF i
  <2>2. table' = Del(table, i)
    BY <1>5 DEF RemoveEvent, i
  <2>3. /\ i \notin Existing(table.main) => table' = table
        /\ i \in Existing(table.main) =>
             Elements(table'.main) = Elements(table.main) \ {table.main.at[i]}
    BY <1>1, <2>1, <2>2, DelIsOK
  <2>4. CASE key \in Elements(table.main)
    <3>1. Map!Remove(key)
      BY <1>1, <2>1, <2>3, <2>4 DEF Map!Remove
    <3> QED
      BY <1>2, <3>1 DEF Map!Next
  <2>5. CASE key \notin Elements(table.main)
    <3>1. i \notin Existing(table.main)
      <4>1. \A k \in Existing(table.main) : k \in Nat /\ k < table.main.n
        BY <1>3, SoundFacts
      <4> QED
        BY <2>1, <2>5, <4>1
    <3>2. table' = table
      BY <2>3, <3>1
    <3> QED
      BY <3>2 DEF Map!mapVars, Entries, Existing, Exist, Resizing
  <2> QED
    BY <2>4, <2>5
<1>6. ASSUME NEW buckets, DeleteAll(buckets)
      PROVE  /\ Entries' \subseteq Entries
             /\ ~Resizing => Entries' = {table.main.at[i] : i \in Existing(table.main) \ buckets}
  <2>1. /\ Elements(table'.main) \subseteq Elements(table.main)
        /\ table.position = 0 =>
             Elements(table'.main) = {table.main.at[i] : i \in Existing(table.main) \ buckets}
    BY <1>1, <1>6, DelBucketsIsOK DEF DeleteAll
  <2> QED
    BY <1>1, <1>3, <2>1 DEF Resizing
<1>7. ASSUME Entries' \subseteq Entries, Resizing
      PROVE  Map!Next
  <2>1. Map!DeleteUnsettled
    BY <1>7 DEF Map!DeleteUnsettled
  <2> QED
    BY <1>2, <2>1 DEF Map!Next
<1>8. ASSUME NEW fd \in Fds, CancelByFd(fd)
      PROVE  Map!Next
  <2> DEFINE buckets == {i \in Existing(table.main) : table.main.at[i][1] = fd}
  <2>1. DeleteAll(buckets)
    BY <1>8 DEF CancelByFd
  <2>2. CASE Resizing
    BY <1>6, <1>7, <2>1, <2>2
  <2>3. CASE ~Resizing
    <3>1. Entries' = {table.main.at[i] : i \in Existing(table.main) \ buckets}
      BY <1>6, <2>1, <2>3
    <3>2. \A key \in Keys : key \in {fd} \X Ops <=> key[1] = fd
      BY DEF Keys
    <3>3. Entries' = Entries \ ({fd} \X Ops)
      BY <1>3, <3>1, <3>2 DEF Entries
    <3>4. Map!Cancel(fd)
      BY <2>3, <3>3 DEF Map!Cancel
    <3> QED
      BY <1>2, <3>4 DEF Map!Next
  <2> QED
    BY <2>2, <2>3
<1>9. ASSUME CheckEventTimeouts
      PROVE  Map!Next
  <2>1. PICK expired \in SUBSET {i \in Existing(table.main) : table.main.at[i] \in Timed} :
          DeleteAll(expired)
    BY <1>9 DEF CheckEventTimeouts
  <2>2. CASE Resizing
    BY <1>6, <1>7, <2>1, <2>2
  <2>3. CASE ~Resizing
    <3>1. Entries' = {table.main.at[i] : i \in Existing(table.main) \ expired}
      BY <1>6, <2>1, <2>3
    <3>2. Entries' \subseteq Entries /\ Entries \ Entries' \subseteq Timed
      BY <2>1, <3>1 DEF Entries
    <3>3. Map!Expire
      BY <2>3, <3>2 DEF Map!Expire
    <3> QED
      BY <1>2, <3>3 DEF Map!Next
  <2> QED
    BY <2>2, <2>3
<1>10. CASE UNCHANGED table
  BY <1>10 DEF Map!mapVars, Entries, Existing, Exist, Resizing
<1> QED
  BY <1>4, <1>5, <1>8, <1>9, <1>10 DEF TableNext

LEMMA CapacityType == Capacity \in Int
<1> DEFINE last == Primes[Len(Primes)]
           d == (last - 1) \div MinBatch
<1>1. Len(Primes) \in DOMAIN Primes /\ MinBatch \in Nat \ {0}
  BY TableAssumption
<1>2. last \in Nat /\ last - 1 \in Int
  BY <1>1, PrimeIs
<1>3. d \in Int
  BY <1>1, <1>2, Division
<1>4. UpperBoundOf(last) \in Nat
  BY <1>2, UpperBoundIs
<1> HIDE DEF d
<1>5. UpperBoundOf(last) - d - 1 \in Int
  BY <1>3, <1>4
<1> QED
  BY <1>5 DEF Capacity, d

-----------------------------------------------------------------------------
(* The theorems, for every list of primes, every hash, every batch and any *)
(* number of keys.  Roomy bounds the entries, not the keys: what the table *)
(* does beyond its largest size is left out.                               *)

\* The inductive invariant holds as long as the largest size is not exceeded.
THEOREM TableInvariant == TableSpec /\ []Roomy => []TableInv
<1>1. TableInit => TableInv
  BY FirstTable
<1>2. TableInv /\ Roomy /\ [TableNext]_table => TableInv'
  BY StepKeepsInv
<1> QED
  BY <1>1, <1>2, PTL DEF TableSpec

\* A table with fewer keys than its largest size can hold is always roomy, so
\* that the theorems below hold of the specification alone.
THEOREM FewKeysAreRoomy ==
  ASSUME IsFiniteSet(Keys), Cardinality(Keys) =< Capacity
  PROVE  TableSpec => []Roomy
<1>1. TableInv => Roomy
  <2> SUFFICES ASSUME TableInv PROVE Roomy
    OBVIOUS
  <2>1. Sound(table.main)
    BY DEF TableInv, TableOK, Whole
  <2>2. Elements(table.main) \subseteq Keys
        /\ Cardinality(Elements(table.main)) = table.main.size
    BY <2>1, ElementsAreCounted, SoundFacts
  <2>3. /\ Cardinality(Elements(table.main)) =< Cardinality(Keys)
        /\ Cardinality(Elements(table.main)) \in Nat /\ Cardinality(Keys) \in Nat
    BY <2>2, FS_Subset, FS_CardinalityType
  <2>4. Capacity \in Int
    BY CapacityType
  <2> HIDE DEF Capacity
  <2> QED
    BY <2>2, <2>3, <2>4 DEF Roomy
<1>2. TableInit => TableInv
  BY FirstTable
<1>3. TableInv /\ Roomy /\ [TableNext]_table => TableInv'
  BY StepKeepsInv
<1> QED
  BY <1>1, <1>2, <1>3, PTL DEF TableSpec

\* Type correctness of the two arrays and of the state of a resize, with the
\* counters of mhash.h: size is the number of nodes and n_dirty the number of
\* buckets used or dirty, after any puts, deletes and batches of a resize.
THEOREM TableTypeCorrect == TableSpec /\ []Roomy => []TableTypeOK
BY TableInvariant, InvIsType, PTL

\* mh_find reaches every node from its key, in the table and in the shadow,
\* whatever was deleted from the chain, and no key is in an array twice.
THEOREM EntriesFound == TableSpec /\ []Roomy => []EntriesAreFound
BY TableInvariant, InvFinds, PTL

\* No loop of mh_find or put_slot is endless, and the shadow of a resize never
\* reaches its upper bound, which mh_put would answer by resizing it in turn.
THEOREM WalksAreFinite == TableSpec /\ []Roomy => []WalksEnd
BY TableInvariant, InvEndsWalks, PTL

\* The shadow holds what was moved and nothing else, and mh_resize never
\* finds a different number of nodes in it: its abort() is not reached.
THEOREM ShadowIsFaithful == TableSpec /\ []Roomy => []ShadowFollows
BY TableInvariant, InvFollows, PTL

\* mh_put keeps the node it is given in every state that can be reached, when
\* there is memory for a larger table.
THEOREM AddedKept == TableSpec /\ []Roomy => []AddedIsKept
BY TableInvariant, InvKeepsAdded, PTL

\* The worker's table is a set of keys: transport_worker_add_event and
\* transport_worker_remove_event change one, and a cancellation or a timeout
\* check takes away exactly what it collected, unless a resize is under way.
THEOREM TableImplementsMap == TableSpec /\ []Roomy => ImplementsEventMap
<1>1. TableInit => Map!Init
  <2> SUFFICES ASSUME TableInit PROVE Map!Init
    OBVIOUS
  <2>1. table.position = 0 /\ Entries = {}
    BY FirstTable DEF Entries, Elements
  <2>2. Resizing = FALSE
    BY <2>1 DEF Resizing
  <2> QED
    BY <2>1, <2>2 DEF Map!Init
<1>2. TableInv /\ Roomy /\ [TableNext]_table => [Map!Next]_(Map!mapVars)
  BY StepImplements
<1> QED
  BY <1>1, <1>2, TableInvariant, PTL DEF TableSpec, ImplementsEventMap, Map!Spec

SettledTimeouts ==
  ~Resizing => \A key \in Entries \cap Timed : key \notin Entries' => Ends(key)

LEMMA StepKeepsTimeouts ==
  TableInv /\ Roomy /\ [TableNext]_table => SettledTimeouts
<1> SUFFICES ASSUME TableInv, Roomy, [TableNext]_table, ~Resizing,
                    NEW key \in Entries \cap Timed, key \notin Entries'
             PROVE  Ends(key)
  BY DEF SettledTimeouts
<1>1. TableOK(table) /\ Entries = Elements(table.main)
      /\ Entries' = Elements(table'.main)
  BY DEF TableInv, Entries, Elements
<1>2. Sound(table.main) /\ table.position \in Nat
  BY <1>1, WholeFacts DEF TableOK, Whole
<1>3. table.position = 0 /\ key \in Keys
  BY <1>2, TableAssumption DEF Resizing
<1>4. ASSUME NEW new \in Keys, NEW memory \in BOOLEAN, AddEvent(new, memory)
      PROVE  FALSE
  <2>1. \/ Elements(table'.main) = Elements(table.main) \cup {new}
        \/ /\ table.position = 0 /\ table'.position = 0
           /\ Elements(table'.main) = Elements(table.main)
    BY <1>1, <1>4, PutIsOK DEF AddEvent, Roomy, Crowded
  <2> QED
    BY <1>1, <2>1
<1>5. ASSUME NEW old \in Keys, RemoveEvent(old)
      PROVE  old = key
  <2> DEFINE i == Find(table.main, old)
  <2>1. /\ i \in 0..table.main.n
        /\ old \in Elements(table.main) =>
             i \in Existing(table.main) /\ table.main.at[i] = old
        /\ old \notin Elements(table.main) => i = table.main.n
    BY <1>1, FindIsBucket
  <2> HIDE DEF i
  <2>2. table' = Del(table, i)
    BY <1>5 DEF RemoveEvent, i
  <2>3. /\ i \notin Existing(table.main) => table' = table
        /\ i \in Existing(table.main) =>
             Elements(table'.main) = Elements(table.main) \ {table.main.at[i]}
    BY <1>1, <2>1, <2>2, DelIsOK
  <2>4. \A k \in Existing(table.main) : k \in Nat /\ k < table.main.n
    BY <1>2, SoundFacts
  <2> QED
    BY <1>1, <2>1, <2>3, <2>4
<1>6. ASSUME NEW buckets, DeleteAll(buckets)
      PROVE  \E i \in buckets \cap Existing(table.main) : table.main.at[i] = key
  <2>1. Elements(table'.main) = {table.main.at[i] : i \in Existing(table.main) \ buckets}
    BY <1>1, <1>3, <1>6, DelBucketsIsOK DEF DeleteAll
  <2> QED
    BY <1>1, <2>1 DEF Entries
<1>7. ASSUME NEW fd \in Fds, CancelByFd(fd)
      PROVE  Ends(key)
  <2>1. PICK i \in {i \in Existing(table.main) : table.main.at[i][1] = fd} :
          table.main.at[i] = key
    BY <1>6, <1>7 DEF CancelByFd
  <2> QED
    BY <1>7, <2>1 DEF Ends
<1>8. ASSUME CheckEventTimeouts
      PROVE  Ends(key)
  <2>1. PICK expired \in SUBSET {i \in Existing(table.main) : table.main.at[i] \in Timed} :
          DeleteAll(expired)
    BY <1>8 DEF CheckEventTimeouts
  <2>2. \E i \in expired : table.main.at[i] = key
    BY <1>6, <2>1
  <2> QED
    BY <2>1, <2>2 DEF Ends
<1>9. CASE UNCHANGED table
  BY <1>9 DEF Entries, Existing, Exist
<1> QED
  BY <1>3, <1>4, <1>5, <1>7, <1>8, <1>9 DEF TableNext, Ends

\* A resize under way is the only thing that makes TimeoutsSurvive untrue: in any
\* other state the entry of a request with a timeout goes only because that
\* request ends, is cancelled with its descriptor, or has been found expired.
THEOREM TimeoutsSurviveWhenSettled ==
  TableSpec /\ []Roomy => [][SettledTimeouts]_table
BY StepKeepsTimeouts, TableInvariant, PTL DEF TableSpec

-----------------------------------------------------------------------------
(* The handler tables.                                                      *)

\* The buffers whose entry in a handlers is of write w.
EntriesIn(handlers, w) == {b \in Buffers : handlers[b] = w}

\* The calls a counter has counted, n, and those that may still come.
Counts(w, out, handlers, n) ==
  /\ IsFiniteSet(EntriesIn(handlers, w))
  /\ out = <<>> => n = 0 /\ EntriesIn(handlers, w) = {}
  /\ w \in Singles => n = 0
  /\ w \in Batches => n + Cardinality(EntriesIn(handlers, w)) <= BatchSize

Outcomes == {"underWay", "done", "error", "refused", "dropped"}

HandlerTypes ==
  /\ stage \in {"open", "grace", "inactive"}
  /\ carries \in [Buffers -> Writes \cup {NoWrite, Kept}]
  /\ doneHandlers \in [Buffers -> Writes \cup {NoWrite}]
  /\ errorHandlers \in [Buffers -> Writes \cup {NoWrite}]
  /\ doneCounter \in [Writes -> Nat]
  /\ errorCounter \in [Writes -> Nat]
  /\ DOMAIN outcome = Writes /\ DOMAIN reported = Writes /\ DOMAIN given = Writes
  /\ \A w \in Writes : Issued(w) => outcome[w] \in [1..Size(w) -> Outcomes]

CounterInv ==
  /\ HandlerTypes
  /\ \A b \in Buffers : carries[b] \in Writes => Issued(carries[b])
  /\ \A w \in Writes : /\ Counts(w, outcome[w], doneHandlers, doneCounter[w])
                       /\ Counts(w, outcome[w], errorHandlers, errorCounter[w])

-----------------------------------------------------------------------------
(* The entries of one handlers.                                               *)

LEMMA Sizes ==
  /\ \A w \in Writes : Size(w) \in Nat \ {0}
  /\ \A w \in Batches : Size(w) = BatchSize
  /\ \A w \in Singles : Size(w) = 1 /\ w \notin Batches
  /\ \A w \in Writes : w # NoWrite /\ w # Kept
BY OutboundAssumption DEF Size, Writes

\* A write replaces entries of others by its own, one for each request.
LEMMA WriteCounts ==
  ASSUME NEW handlers \in [Buffers -> Writes \cup {NoWrite}], NEW w \in Writes,
         NEW used \in SUBSET Buffers, IsFiniteSet(used), Cardinality(used) = Size(w),
         NEW handles \in BOOLEAN, NEW out, NEW out2, NEW v \in Writes, NEW n \in Nat,
         v = w => out = <<>> /\ out2 # <<>>,
         v # w => out2 = out,
         Counts(v, out, handlers, n)
  PROVE  Counts(v, out2, [b \in Buffers |-> IF b \in used /\ handles THEN w ELSE handlers[b]], n)
<1> DEFINE table2 == [b \in Buffers |-> IF b \in used /\ handles THEN w ELSE handlers[b]]
<1>1. CASE v # w
  <2>1. EntriesIn(table2, v) \subseteq EntriesIn(handlers, v)
    BY <1>1 DEF EntriesIn
  <2>2. /\ IsFiniteSet(EntriesIn(table2, v))
        /\ Cardinality(EntriesIn(table2, v)) <= Cardinality(EntriesIn(handlers, v))
    BY <2>1, FS_Subset DEF Counts
  <2>3. /\ Cardinality(EntriesIn(table2, v)) \in Nat
        /\ Cardinality(EntriesIn(handlers, v)) \in Nat
    BY <2>2, FS_CardinalityType DEF Counts
  <2> HIDE DEF table2
  <2>4. v \in Batches => n + Cardinality(EntriesIn(table2, v)) <= BatchSize
    <3>1. v \in Batches => n + Cardinality(EntriesIn(handlers, v)) <= BatchSize
      BY DEF Counts
    <3> QED
      BY <2>2, <2>3, <3>1, OutboundAssumption
  <2>5. out2 = <<>> => n = 0 /\ EntriesIn(table2, v) = {}
    BY <1>1, <2>1 DEF Counts
  <2>6. Counts(v, out2, table2, n)
    BY <2>2, <2>4, <2>5 DEF Counts
  <2> QED
    BY <2>6 DEF table2
<1>2. CASE v = w
  <2>1. n = 0 /\ EntriesIn(handlers, w) = {}
    BY <1>2 DEF Counts
  <2>2. EntriesIn(table2, w) = IF handles THEN used ELSE {}
    BY <2>1 DEF EntriesIn
  <2>3. /\ IsFiniteSet(EntriesIn(table2, w))
        /\ Cardinality(EntriesIn(table2, w)) <= Size(w)
    <3>1. CASE handles
      BY <2>2, <3>1, Sizes
    <3>2. CASE ~handles
      <4>1. EntriesIn(table2, w) = {}
        BY <2>2, <3>2
      <4>2. IsFiniteSet({}) /\ Cardinality({}) = 0
        BY FS_EmptySet
      <4>3. Size(w) \in Nat
        BY Sizes
      <4> HIDE DEF table2
      <4> QED
        BY <4>1, <4>2, <4>3
    <3> QED
      BY <3>1, <3>2
  <2>4. w \in Batches => Cardinality(EntriesIn(table2, w)) <= BatchSize
    BY <2>3, Sizes
  <2>5. Cardinality(EntriesIn(table2, w)) \in Nat
    BY <2>3, FS_CardinalityType
  <2> HIDE DEF table2
  <2>6. w \in Batches => n + Cardinality(EntriesIn(table2, w)) <= BatchSize
    BY <2>1, <2>4, <2>5, OutboundAssumption
  <2>7. Counts(v, out2, table2, n)
    BY <1>2, <2>1, <2>3, <2>6 DEF Counts
  <2> QED
    BY <2>7 DEF table2
<1> QED
  BY <1>1, <1>2

\* A call uses up the entry it was made for, and may be counted.
LEMMA CallCounts ==
  ASSUME NEW handlers \in [Buffers -> Writes \cup {NoWrite}], NEW b \in Buffers,
         NEW v \in Writes, NEW out, NEW out2, NEW n \in Nat, NEW m \in Nat,
         out # <<>> => out2 # <<>>,
         m = n \/ (handlers[b] = v /\ v \notin Singles /\ m = n + 1),
         Counts(v, out, handlers, n)
  PROVE  Counts(v, out2, [handlers EXCEPT ![b] = NoWrite], m)
<1> DEFINE old == EntriesIn(handlers, v)
           new == EntriesIn([handlers EXCEPT ![b] = NoWrite], v)
<1>1. new = old \ {b} /\ (b \in old <=> handlers[b] = v)
  BY Sizes DEF EntriesIn
<1>2. IsFiniteSet(old)
  BY DEF Counts
<1>3. /\ IsFiniteSet(new)
      /\ Cardinality(new) = IF b \in old THEN Cardinality(old) - 1 ELSE Cardinality(old)
  <2> HIDE DEF old, new
  <2> QED
    BY <1>1, <1>2, FS_RemoveElement
<1>4. Cardinality(new) \in Nat /\ Cardinality(old) \in Nat
  BY <1>2, <1>3, FS_CardinalityType
<1>5. v \in Batches => n + Cardinality(old) <= BatchSize
  BY DEF Counts
<1>6. v \in Singles => m = 0
  BY DEF Counts
<1>7. out2 = <<>> => out = <<>> /\ n = 0 /\ old = {}
  BY DEF Counts
<1> HIDE DEF old, new
<1>8. v \in Batches => m + Cardinality(new) <= BatchSize
  BY <1>1, <1>3, <1>4, <1>5, OutboundAssumption
<1>9. out2 = <<>> => m = 0 /\ new = {}
  BY <1>1, <1>7
<1> QED
  BY <1>3, <1>6, <1>8, <1>9 DEF Counts, new

\* A sequence of results of at least one request is not empty.
LEMMA IssuedIsNotEmpty ==
  ASSUME NEW w \in Writes, NEW out \in [1..Size(w) -> Outcomes]
  PROVE  out # <<>>
<1>1. 1 \in DOMAIN out
  BY Sizes
<1>2. 1 \notin DOMAIN <<>>
  OBVIOUS
<1> QED
  BY <1>1, <1>2

-----------------------------------------------------------------------------
(* The steps, and the counters.                                            *)

LEMMA CounterInitial == Init => CounterInv
<1> SUFFICES ASSUME Init PROVE CounterInv
  OBVIOUS
<1>1. HandlerTypes
  BY DEF Init, HandlerTypes, Issued
<1>2. \A w \in Writes : EntriesIn(doneHandlers, w) = {} /\ EntriesIn(errorHandlers, w) = {}
  BY Sizes DEF Init, EntriesIn
<1>3. IsFiniteSet({}) /\ Cardinality({}) = 0
  BY FS_EmptySet
<1>4. \A w \in Writes : outcome[w] = <<>> /\ doneCounter[w] = 0 /\ errorCounter[w] = 0
  BY DEF Init
<1>5. \A w \in Writes : /\ Counts(w, outcome[w], doneHandlers, doneCounter[w])
                        /\ Counts(w, outcome[w], errorHandlers, errorCounter[w])
  <2> TAKE w \in Writes
  <2>1. /\ IsFiniteSet(EntriesIn(doneHandlers, w)) /\ Cardinality(EntriesIn(doneHandlers, w)) = 0
        /\ IsFiniteSet(EntriesIn(errorHandlers, w)) /\ Cardinality(EntriesIn(errorHandlers, w)) = 0
    BY <1>2, <1>3
  <2>2. 0 + 0 <= BatchSize
    BY OutboundAssumption
  <2> QED
    BY <1>2, <1>4, <2>1, <2>2 DEF Counts
<1> QED
  BY <1>1, <1>5, Sizes DEF CounterInv, Init

\* What a write changes, with the set of its buffers.
LEMMA WriteStep ==
  ASSUME CounterInv, NEW w \in Writes, Write(w)
  PROVE  \E buffer \in [1..Size(w) -> Free], used \in SUBSET Free,
            handlers \in SUBSET {"done", "error"} :
           /\ used = {buffer[i] : i \in 1..Size(w)}
           /\ IsFiniteSet(used) /\ Cardinality(used) = Size(w)
           /\ IF w \in Batches THEN handlers = {"done", "error"} ELSE handlers \in Handlers
           /\ carries' = [b \in Buffers |-> IF b \in used THEN w ELSE carries[b]]
           /\ part' = [b \in Buffers |->
                         IF b \in used THEN CHOOSE i \in 1..Size(w) : buffer[i] = b
                                       ELSE part[b]]
           /\ doneHandlers' = [b \in Buffers |->
                IF b \in used /\ "done" \in handlers THEN w ELSE doneHandlers[b]]
           /\ errorHandlers' = [b \in Buffers |->
                IF b \in used /\ "error" \in handlers THEN w ELSE errorHandlers[b]]
<1>1. PICK buffer \in [1..Size(w) -> Free], handlers \in SUBSET {"done", "error"} :
        LET used == {buffer[i] : i \in 1..Size(w)}
        IN  /\ Cardinality(used) = Size(w)
            /\ IF w \in Batches THEN handlers = {"done", "error"} ELSE handlers \in Handlers
            /\ carries' = [b \in Buffers |-> IF b \in used THEN w ELSE carries[b]]
            /\ part' = [b \in Buffers |->
                          IF b \in used THEN CHOOSE i \in 1..Size(w) : buffer[i] = b
                                        ELSE part[b]]
            /\ doneHandlers' = [b \in Buffers |->
                 IF b \in used /\ "done" \in handlers THEN w ELSE doneHandlers[b]]
            /\ errorHandlers' = [b \in Buffers |->
                 IF b \in used /\ "error" \in handlers THEN w ELSE errorHandlers[b]]
  BY DEF Write
<1> DEFINE used == {buffer[i] : i \in 1..Size(w)}
<1>2. buffer \in Surjection(1..Size(w), used)
  BY DEF Surjection
<1>3. IsFiniteSet(1..Size(w))
  BY Sizes, FS_Interval
<1>4. IsFiniteSet(used)
  BY <1>2, <1>3, FS_Surjection
<1>5. used \in SUBSET Free
  OBVIOUS
<1> WITNESS buffer \in [1..Size(w) -> Free], used \in SUBSET Free,
            handlers \in SUBSET {"done", "error"}
<1> QED
  BY <1>1, <1>4

LEMMA WriteKeepsCounters ==
  ASSUME CounterInv, NEW w \in Writes, Write(w)
  PROVE  CounterInv'
<1>1. PICK buffer \in [1..Size(w) -> Free], used \in SUBSET Free,
           handlers \in SUBSET {"done", "error"} :
        /\ IsFiniteSet(used) /\ Cardinality(used) = Size(w)
        /\ carries' = [b \in Buffers |-> IF b \in used THEN w ELSE carries[b]]
        /\ doneHandlers' = [b \in Buffers |->
             IF b \in used /\ "done" \in handlers THEN w ELSE doneHandlers[b]]
        /\ errorHandlers' = [b \in Buffers |->
             IF b \in used /\ "error" \in handlers THEN w ELSE errorHandlers[b]]
  BY WriteStep
<1>2. used \in SUBSET Buffers
  BY DEF Free
<1>3. /\ outcome' = [outcome EXCEPT ![w] = [i \in 1..Size(w) |-> "underWay"]]
      /\ stage' = stage /\ \E g : given' = [given EXCEPT ![w] = g]
      /\ doneCounter' = doneCounter /\ errorCounter' = errorCounter /\ reported' = reported
      /\ outcome[w] = <<>>
  BY DEF Write, counters, Issued
<1> DEFINE out2 == [i \in 1..Size(w) |-> "underWay"]
<1>4. out2 \in [1..Size(w) -> Outcomes] /\ out2 # <<>>
  <2>1. out2 \in [1..Size(w) -> Outcomes]
    BY DEF Outcomes
  <2> HIDE DEF out2
  <2> QED
    BY <2>1, IssuedIsNotEmpty
<1> HIDE DEF out2
<1>5. DOMAIN outcome' = Writes /\ \A v \in Writes : outcome'[v] = IF v = w THEN out2 ELSE outcome[v]
  BY <1>3 DEF CounterInv, HandlerTypes, out2
<1>6. HandlerTypes'
  BY <1>1, <1>3, <1>4, <1>5 DEF CounterInv, HandlerTypes, Issued
<1>7. \A b \in Buffers : carries'[b] \in Writes => Issued(carries[b])'
  BY <1>1, <1>4, <1>5 DEF CounterInv, HandlerTypes, Issued
<1>8. ASSUME NEW v \in Writes
      PROVE  /\ Counts(v, outcome'[v], doneHandlers', doneCounter'[v])
             /\ Counts(v, outcome'[v], errorHandlers', errorCounter'[v])
  <2>1. /\ v = w => outcome[v] = <<>> /\ outcome'[v] # <<>>
        /\ v # w => outcome'[v] = outcome[v]
    BY <1>3, <1>4, <1>5
  <2>2. /\ doneHandlers \in [Buffers -> Writes \cup {NoWrite}]
        /\ errorHandlers \in [Buffers -> Writes \cup {NoWrite}]
        /\ doneCounter[v] \in Nat /\ errorCounter[v] \in Nat
        /\ Counts(v, outcome[v], doneHandlers, doneCounter[v])
        /\ Counts(v, outcome[v], errorHandlers, errorCounter[v])
    BY DEF CounterInv, HandlerTypes
  <2> DEFINE done == "done" \in handlers
             error == "error" \in handlers
  <2>3. done \in BOOLEAN /\ error \in BOOLEAN
    OBVIOUS
  <2>4. /\ doneHandlers' = [b \in Buffers |-> IF b \in used /\ done THEN w ELSE doneHandlers[b]]
        /\ errorHandlers' = [b \in Buffers |-> IF b \in used /\ error THEN w ELSE errorHandlers[b]]
    BY <1>1
  <2> HIDE DEF done, error
  <2>5. Counts(v, outcome'[v], doneHandlers', doneCounter[v])
    BY <1>1, <1>2, <2>1, <2>2, <2>3, <2>4, WriteCounts
  <2>6. Counts(v, outcome'[v], errorHandlers', errorCounter[v])
    BY <1>1, <1>2, <2>1, <2>2, <2>3, <2>4, WriteCounts
  <2> QED
    BY <1>3, <2>5, <2>6
<1> QED
  BY <1>6, <1>7, <1>8 DEF CounterInv, Counts, EntriesIn

\* What the completion of a request changes: it is the request of the buffer,
\* and a callback, if any, is that of the write the handler is of.
LEMMA NotifyStep ==
  ASSUME CounterInv, NEW b \in Buffers, NEW result \in {"done", "error"},
         Notify(b, result)
  PROVE  /\ carries[b] \in Writes /\ Issued(carries[b])
         /\ carries' = [carries EXCEPT ![b] = NoWrite]
         /\ DOMAIN outcome' = Writes
         /\ outcome' = [outcome EXCEPT ![carries[b]][part[b]] = result]
         /\ outcome'[carries[b]] = [outcome[carries[b]] EXCEPT ![part[b]] = result]
         /\ outcome'[carries[b]] \in [1..Size(carries[b]) -> Outcomes]
         /\ \A v \in Writes : v # carries[b] => outcome'[v] = outcome[v]
<1>1. carries[b] \in Writes /\ Issued(carries[b])
  BY DEF CounterInv, HandlerTypes, Notify
<1>2. /\ carries' = [carries EXCEPT ![b] = NoWrite]
      /\ outcome' = [outcome EXCEPT ![carries[b]][part[b]] = result]
  BY DEF Notify
<1> DEFINE w == carries[b]
           out2 == [outcome[w] EXCEPT ![part[b]] = result]
<1>3. outcome[w] \in [1..Size(w) -> Outcomes]
  BY <1>1 DEF CounterInv, HandlerTypes
<1>4. out2 \in [1..Size(w) -> Outcomes]
  BY <1>3 DEF Outcomes
<1>5. outcome' = [outcome EXCEPT ![w] = out2]
  BY <1>2
<1>6. DOMAIN outcome = Writes
  BY DEF CounterInv, HandlerTypes
<1>7. outcome'[w] = out2
  <2> HIDE DEF out2
  <2> QED
    BY <1>1, <1>5, <1>6
<1>8. /\ DOMAIN outcome' = Writes
      /\ \A v \in Writes : v # w => outcome'[v] = outcome[v]
  <2> HIDE DEF out2
  <2> QED
    BY <1>1, <1>5, <1>6
<1> QED
  BY <1>1, <1>2, <1>4, <1>7, <1>8

\* A counter moves only for the batch whose entry is used up.
LEMMA CallsMove ==
  ASSUME CounterInv, NEW b \in Buffers, NEW result \in {"done", "error"},
         Notify(b, result), NEW v \in Writes
  PROVE  /\ doneCounter' \in [Writes -> Nat] /\ errorCounter' \in [Writes -> Nat]
         /\ DOMAIN reported' = Writes
         /\ \/ doneCounter'[v] = doneCounter[v]
            \/ /\ result = "done" /\ doneHandlers[b] = v /\ v \notin Singles
               /\ doneCounter'[v] = doneCounter[v] + 1
         /\ \/ errorCounter'[v] = errorCounter[v]
            \/ /\ result = "error" /\ errorHandlers[b] = v /\ v \notin Singles
               /\ errorCounter'[v] = errorCounter[v] + 1
<1> USE DEF CounterInv, HandlerTypes
<1>1. CASE result = "done" /\ doneHandlers[b] # NoWrite
  <2>1. doneHandlers[b] \in Writes /\ CallDone(doneHandlers[b])
    BY <1>1 DEF Notify
  <2>2. DOMAIN reported' = Writes /\ errorCounter' = errorCounter
    BY <2>1 DEF CallDone, Report, counters
  <2>3. \/ doneCounter' = doneCounter
        \/ /\ doneHandlers[b] \notin Singles
           /\ doneCounter' = [doneCounter EXCEPT ![doneHandlers[b]] = @ + 1]
    BY <2>1 DEF CallDone, counters
  <2>4. errorCounter' \in [Writes -> Nat] /\ errorCounter'[v] = errorCounter[v]
    BY <2>2
  <2>5. doneCounter' \in [Writes -> Nat]
    <3>1. doneCounter \in [Writes -> Nat]
      OBVIOUS
    <3>2. [doneCounter EXCEPT ![doneHandlers[b]] = @ + 1] \in [Writes -> Nat]
      <4> HIDE DEF CounterInv, HandlerTypes
      <4> QED
        BY <2>1, <3>1
    <3> QED
      BY <2>3, <3>1, <3>2
  <2>6. \/ doneCounter'[v] = doneCounter[v]
        \/ /\ doneHandlers[b] = v /\ v \notin Singles
           /\ doneCounter'[v] = doneCounter[v] + 1
    BY <2>1, <2>3
  <2> QED
    BY <1>1, <2>2, <2>4, <2>5, <2>6
<1>2. CASE result = "error" /\ errorHandlers[b] # NoWrite
  <2>1. errorHandlers[b] \in Writes /\ CallError(errorHandlers[b])
    BY <1>2 DEF Notify
  <2>2. DOMAIN reported' = Writes /\ doneCounter' = doneCounter
    BY <2>1 DEF CallError, Report, counters
  <2>3. \/ errorCounter' = errorCounter
        \/ /\ errorHandlers[b] \notin Singles
           /\ errorCounter' = [errorCounter EXCEPT ![errorHandlers[b]] = @ + 1]
    BY <2>1 DEF CallError, counters
  <2>4. doneCounter' \in [Writes -> Nat] /\ doneCounter'[v] = doneCounter[v]
    BY <2>2
  <2>5. errorCounter' \in [Writes -> Nat]
    <3>1. errorCounter \in [Writes -> Nat]
      OBVIOUS
    <3>2. [errorCounter EXCEPT ![errorHandlers[b]] = @ + 1] \in [Writes -> Nat]
      <4> HIDE DEF CounterInv, HandlerTypes
      <4> QED
        BY <2>1, <3>1
    <3> QED
      BY <2>3, <3>1, <3>2
  <2>6. \/ errorCounter'[v] = errorCounter[v]
        \/ /\ errorHandlers[b] = v /\ v \notin Singles
           /\ errorCounter'[v] = errorCounter[v] + 1
    BY <2>1, <2>3
  <2> QED
    BY <1>2, <2>2, <2>4, <2>5, <2>6
<1>3. CASE (IF result = "done" THEN doneHandlers ELSE errorHandlers)[b] = NoWrite
  BY <1>3 DEF Notify, NoCall, counters
<1> QED
  BY <1>1, <1>2, <1>3

LEMMA NotifyKeepsCounters ==
  ASSUME CounterInv, NEW b \in Buffers, NEW result \in {"done", "error"},
         Notify(b, result)
  PROVE  CounterInv'
<1> DEFINE w == carries[b]
<1>1. /\ w \in Writes /\ Issued(w)
      /\ carries' = [carries EXCEPT ![b] = NoWrite]
      /\ DOMAIN outcome' = Writes
      /\ outcome'[w] \in [1..Size(w) -> Outcomes]
      /\ \A v \in Writes : v # w => outcome'[v] = outcome[v]
  BY NotifyStep, ZenonT(30)
<1>2. outcome'[w] # <<>>
  BY <1>1, IssuedIsNotEmpty
<1>3. /\ doneHandlers' \in {doneHandlers, [doneHandlers EXCEPT ![b] = NoWrite]}
      /\ errorHandlers' \in {errorHandlers, [errorHandlers EXCEPT ![b] = NoWrite]}
      /\ result = "done" => doneHandlers' = [doneHandlers EXCEPT ![b] = NoWrite]
      /\ result = "error" => errorHandlers' = [errorHandlers EXCEPT ![b] = NoWrite]
  BY DEF Notify
<1>4. /\ doneCounter' \in [Writes -> Nat] /\ errorCounter' \in [Writes -> Nat]
      /\ DOMAIN reported' = Writes
  BY <1>1, CallsMove
<1> HIDE DEF w
<1>5. HandlerTypes'
  <2>1. UNCHANGED <<stage, given>>
    BY DEF Notify
  <2> QED
    BY <1>1, <1>3, <1>4, <2>1 DEF CounterInv, HandlerTypes, Issued
<1>6. \A c \in Buffers : carries'[c] \in Writes => Issued(carries[c])'
  BY <1>1, <1>2, Sizes DEF CounterInv, HandlerTypes, Issued
<1>7. ASSUME NEW v \in Writes
      PROVE  /\ Counts(v, outcome'[v], doneHandlers', doneCounter'[v])
             /\ Counts(v, outcome'[v], errorHandlers', errorCounter'[v])
  <2>1. outcome[v] # <<>> => outcome'[v] # <<>>
    BY <1>1, <1>2
  <2>2. /\ doneHandlers \in [Buffers -> Writes \cup {NoWrite}]
        /\ errorHandlers \in [Buffers -> Writes \cup {NoWrite}]
        /\ doneCounter[v] \in Nat /\ errorCounter[v] \in Nat
        /\ doneCounter'[v] \in Nat /\ errorCounter'[v] \in Nat
        /\ Counts(v, outcome[v], doneHandlers, doneCounter[v])
        /\ Counts(v, outcome[v], errorHandlers, errorCounter[v])
    BY <1>4 DEF CounterInv, HandlerTypes
  <2>3. /\ \/ doneCounter'[v] = doneCounter[v]
           \/ /\ result = "done" /\ doneHandlers[b] = v /\ v \notin Singles
              /\ doneCounter'[v] = doneCounter[v] + 1
        /\ \/ errorCounter'[v] = errorCounter[v]
           \/ /\ result = "error" /\ errorHandlers[b] = v /\ v \notin Singles
              /\ errorCounter'[v] = errorCounter[v] + 1
    BY CallsMove
  <2>4. ASSUME outcome'[v] = <<>> PROVE outcome[v] = <<>>
    BY <2>1, <2>4
  <2>5. Counts(v, outcome'[v], doneHandlers', doneCounter'[v])
    <3>1. CASE doneHandlers' = [doneHandlers EXCEPT ![b] = NoWrite]
      BY <2>1, <2>2, <2>3, <3>1, CallCounts
    <3>2. CASE doneHandlers' = doneHandlers /\ result # "done"
      BY <2>2, <2>3, <2>4, <3>2 DEF Counts
    <3> QED
      BY <1>3, <3>1, <3>2
  <2>6. Counts(v, outcome'[v], errorHandlers', errorCounter'[v])
    <3>1. CASE errorHandlers' = [errorHandlers EXCEPT ![b] = NoWrite]
      BY <2>1, <2>2, <2>3, <3>1, CallCounts
    <3>2. CASE errorHandlers' = errorHandlers /\ result # "error"
      BY <2>2, <2>3, <2>4, <3>2 DEF Counts
    <3> QED
      BY <1>3, <3>1, <3>2
  <2> QED
    BY <2>5, <2>6
<1> QED
  BY <1>5, <1>6, <1>7 DEF CounterInv, Counts, EntriesIn

\* The entries stay, and what was issued stays issued.
LEMMA CountsStay ==
  ASSUME NEW v \in Writes, NEW out, NEW out2, NEW handlers, NEW n,
         Counts(v, out, handlers, n), out2 = <<>> => out = <<>>
  PROVE  Counts(v, out2, handlers, n)
BY DEF Counts

\* What a refused write changes.
LEMMA RefuseKeepsCounters ==
  ASSUME CounterInv, NEW w \in Writes, Refuse(w)
  PROVE  /\ CounterInv'
         /\ stage # "open" /\ ~Issued(w) /\ Issued(w)'
         /\ UNCHANGED <<stage, part, doneHandlers, errorHandlers, counters>>
         /\ \A i \in 1..Size(w) : outcome'[w][i] = "refused"
         /\ reported'[w] = IF "error" \in given'[w] THEN Append(reported[w], "error")
                                                  ELSE reported[w]
         /\ \A v \in Writes : v # w => /\ outcome'[v] = outcome[v]
                                      /\ reported'[v] = reported[v]
                                      /\ given'[v] = given[v]
         /\ \A b \in Buffers : carries'[b] \in Writes => carries'[b] = carries[b]
<1> DEFINE out2 == [i \in 1..Size(w) |-> "refused"]
<1>1. PICK used \in SUBSET Free, handlers \in SUBSET {"done", "error"} :
        /\ carries' = [b \in Buffers |-> IF b \in used THEN Kept ELSE carries[b]]
        /\ given' = [given EXCEPT ![w] = handlers]
        /\ IF "error" \in handlers THEN Report(w, "error") ELSE UNCHANGED reported
  BY DEF Refuse
<1>2. /\ stage # "open" /\ ~Issued(w)
      /\ outcome' = [outcome EXCEPT ![w] = out2]
      /\ UNCHANGED <<stage, part, doneHandlers, errorHandlers, counters>>
  BY DEF Refuse
<1>3. out2 \in [1..Size(w) -> Outcomes] /\ \A i \in 1..Size(w) : out2[i] = "refused"
  BY DEF Outcomes
<1> HIDE DEF out2
<1>4. out2 # <<>>
  BY <1>3, IssuedIsNotEmpty
<1>5. HandlerTypes
  BY DEF CounterInv
<1>6. /\ DOMAIN outcome' = Writes /\ outcome'[w] = out2
      /\ \A v \in Writes : v # w => outcome'[v] = outcome[v]
  BY <1>2, <1>5 DEF HandlerTypes
<1>7. /\ DOMAIN given' = Writes /\ given'[w] = handlers
      /\ \A v \in Writes : v # w => given'[v] = given[v]
  BY <1>1, <1>5 DEF HandlerTypes
<1>8. /\ DOMAIN reported' = Writes
      /\ reported'[w] = IF "error" \in handlers THEN Append(reported[w], "error") ELSE reported[w]
      /\ \A v \in Writes : v # w => reported'[v] = reported[v]
  BY <1>1, <1>5 DEF HandlerTypes, Report
<1>9. \A b \in Buffers : /\ carries'[b] \in Writes \cup {NoWrite, Kept}
                         /\ carries'[b] \in Writes => carries'[b] = carries[b]
  BY <1>1, <1>5, Sizes DEF HandlerTypes
<1>10. Issued(w)'
  BY <1>4, <1>6 DEF Issued
<1>11. HandlerTypes'
  <2>1. carries' \in [Buffers -> Writes \cup {NoWrite, Kept}]
    BY <1>1, <1>9
  <2>2. \A v \in Writes : Issued(v)' => outcome'[v] \in [1..Size(v) -> Outcomes]
    BY <1>3, <1>5, <1>6 DEF HandlerTypes, Issued
  <2> QED
    BY <1>2, <1>5, <1>6, <1>7, <1>8, <2>1, <2>2 DEF HandlerTypes, counters
<1>12. \A b \in Buffers : carries'[b] \in Writes => Issued(carries[b])'
  BY <1>6, <1>9, <1>10 DEF CounterInv, Issued
<1>13. ASSUME NEW v \in Writes
       PROVE  /\ Counts(v, outcome'[v], doneHandlers', doneCounter'[v])
              /\ Counts(v, outcome'[v], errorHandlers', errorCounter'[v])
  <2>1. outcome'[v] = <<>> => outcome[v] = <<>>
    BY <1>4, <1>6
  <2>2. /\ Counts(v, outcome[v], doneHandlers, doneCounter[v])
        /\ Counts(v, outcome[v], errorHandlers, errorCounter[v])
    BY DEF CounterInv
  <2> QED
    BY <1>2, <2>1, <2>2, CountsStay DEF counters
<1>14. CounterInv'
  BY <1>2, <1>11, <1>12, <1>13 DEF CounterInv, Counts, EntriesIn, counters
<1> QED
  BY <1>2, <1>3, <1>6, <1>7, <1>8, <1>9, <1>10, <1>14

\* What a dropped result changes.
LEMMA DropKeepsCounters ==
  ASSUME CounterInv, NEW b \in Buffers, NotifyInactive(b)
  PROVE  /\ CounterInv'
         /\ carries[b] \in Writes /\ Issued(carries[b]) /\ stage = "inactive"
         /\ UNCHANGED <<stage, part, given, doneHandlers, errorHandlers, counters, reported>>
         /\ carries' = [carries EXCEPT ![b] = NoWrite]
         /\ outcome[carries[b]] \in [1..Size(carries[b]) -> Outcomes]
         /\ outcome'[carries[b]] = [outcome[carries[b]] EXCEPT ![part[b]] = "dropped"]
         /\ outcome'[carries[b]] # <<>>
         /\ \A v \in Writes : v # carries[b] => outcome'[v] = outcome[v]
<1> DEFINE w == carries[b]
           out2 == [outcome[w] EXCEPT ![part[b]] = "dropped"]
<1>1. /\ w \in Writes /\ stage = "inactive"
      /\ carries' = [carries EXCEPT ![b] = NoWrite]
      /\ outcome' = [outcome EXCEPT ![w] = out2]
      /\ UNCHANGED <<stage, part, given, doneHandlers, errorHandlers, counters, reported>>
  BY DEF NotifyInactive
<1>2. HandlerTypes /\ Issued(w)
  BY <1>1 DEF CounterInv
<1>3. outcome[w] \in [1..Size(w) -> Outcomes]
  BY <1>1, <1>2 DEF HandlerTypes
<1>4. out2 \in [1..Size(w) -> Outcomes]
  BY <1>3 DEF Outcomes
<1>5. out2 # <<>>
  <2> HIDE DEF w, out2
  <2> QED
    BY <1>1, <1>4, IssuedIsNotEmpty
<1>6. /\ DOMAIN outcome' = Writes /\ outcome'[w] = out2
      /\ \A v \in Writes : v # w => outcome'[v] = outcome[v]
  <2> HIDE DEF out2
  <2> QED
    BY <1>1, <1>2 DEF HandlerTypes
<1>7. HandlerTypes'
  <2>1. carries' \in [Buffers -> Writes \cup {NoWrite, Kept}]
    BY <1>1, <1>2 DEF HandlerTypes
  <2>2. \A v \in Writes : Issued(v)' => outcome'[v] \in [1..Size(v) -> Outcomes]
    <3> HIDE DEF w, out2
    <3> QED
      BY <1>2, <1>4, <1>6 DEF HandlerTypes, Issued
  <2> QED
    BY <1>1, <1>2, <1>6, <2>1, <2>2 DEF HandlerTypes, counters
<1>8. \A c \in Buffers : carries'[c] \in Writes => Issued(carries[c])'
  <2> TAKE c \in Buffers
  <2>1. carries'[c] = IF c = b THEN NoWrite ELSE carries[c]
    BY <1>1, <1>2 DEF HandlerTypes
  <2> HIDE DEF w, out2
  <2> QED
    BY <1>5, <1>6, <2>1, Sizes DEF CounterInv, Issued
<1>9. ASSUME NEW v \in Writes
      PROVE  /\ Counts(v, outcome'[v], doneHandlers', doneCounter'[v])
             /\ Counts(v, outcome'[v], errorHandlers', errorCounter'[v])
  <2>1. outcome'[v] = <<>> => outcome[v] = <<>>
    <3> HIDE DEF w, out2
    <3> QED
      BY <1>5, <1>6
  <2>2. /\ Counts(v, outcome[v], doneHandlers, doneCounter[v])
        /\ Counts(v, outcome[v], errorHandlers, errorCounter[v])
    BY DEF CounterInv
  <2> QED
    BY <1>1, <2>1, <2>2, CountsStay DEF counters
<1>10. CounterInv'
  BY <1>1, <1>7, <1>8, <1>9 DEF CounterInv, Counts, EntriesIn, counters
<1> QED
  BY <1>1, <1>2, <1>3, <1>5, <1>6, <1>10

\* A step of the tables that changes nothing: one of the stage, or none.
LEMMA CountersStutter ==
  ASSUME CounterInv, UNCHANGED vars \/ Close \/ GraceEnds PROVE CounterInv'
<1>0. /\ UNCHANGED <<carries, part, doneHandlers, errorHandlers, given, counters,
                     outcome, reported>>
      /\ stage' \in {stage, "grace", "inactive"}
  BY DEF vars, counters, Close, GraceEnds
<1>1. HandlerTypes'
  BY <1>0 DEF counters, CounterInv, HandlerTypes, Issued
<1>2. \A b \in Buffers : carries'[b] \in Writes => Issued(carries[b])'
  BY <1>0 DEF CounterInv, Issued
<1>3. ASSUME NEW w \in Writes
      PROVE  /\ Counts(w, outcome[w], doneHandlers, doneCounter[w])'
             /\ Counts(w, outcome[w], errorHandlers, errorCounter[w])'
  <2>1. /\ EntriesIn(doneHandlers, w)' = EntriesIn(doneHandlers, w)
        /\ EntriesIn(errorHandlers, w)' = EntriesIn(errorHandlers, w)
    BY <1>0 DEF EntriesIn
  <2> QED
    BY <1>0, <2>1 DEF counters, CounterInv, Counts
<1> QED
  BY <1>1, <1>2, <1>3 DEF CounterInv

\* The counters, for any handlers and linked or not.
THEOREM CounterInvariant == Spec => []CounterInv
<1>1. CounterInv /\ [Next]_vars => CounterInv'
  <2> SUFFICES ASSUME CounterInv, [Next]_vars PROVE CounterInv'
    OBVIOUS
  <2>1. ASSUME NEW w \in Writes, Write(w) PROVE CounterInv'
    BY <2>1, WriteKeepsCounters
  <2>2. ASSUME NEW b \in Buffers, NEW result \in {"done", "error"}, Notify(b, result)
        PROVE  CounterInv'
    BY <2>2, NotifyKeepsCounters
  <2>3. CASE UNCHANGED vars \/ Close \/ GraceEnds
    BY <2>3, CountersStutter
  <2>4. ASSUME NEW w \in Writes, Refuse(w) PROVE CounterInv'
    BY <2>4, RefuseKeepsCounters
  <2>5. ASSUME NEW b \in Buffers, NotifyInactive(b) PROVE CounterInv'
    BY <2>5, DropKeepsCounters
  <2> QED
    BY <2>1, <2>2, <2>3, <2>4, <2>5 DEF Next
<1> QED
  BY <1>1, CounterInitial, PTL DEF Spec

\* The counters of a batch never exceed its size, although a handler left by
\* an earlier write may be called for a later one.
THEOREM HandlersTypeCorrect == Spec => []TypeOK
<1>1. CounterInv => TypeOK
  <2> SUFFICES ASSUME CounterInv PROVE TypeOK
    OBVIOUS
  <2>1. ASSUME NEW w \in Writes
        PROVE  doneCounter[w] \in 0..BatchSize /\ errorCounter[w] \in 0..BatchSize
    <3>1. /\ doneCounter[w] \in Nat /\ errorCounter[w] \in Nat
          /\ Counts(w, outcome[w], doneHandlers, doneCounter[w])
          /\ Counts(w, outcome[w], errorHandlers, errorCounter[w])
      BY DEF CounterInv, HandlerTypes
    <3>2. /\ Cardinality(EntriesIn(doneHandlers, w)) \in Nat
          /\ Cardinality(EntriesIn(errorHandlers, w)) \in Nat
      BY <3>1, FS_CardinalityType DEF Counts
    <3>3. CASE w \in Singles
      BY <3>1, <3>3, OutboundAssumption DEF Counts
    <3>4. CASE w \in Batches
      <4>1. /\ doneCounter[w] + Cardinality(EntriesIn(doneHandlers, w)) <= BatchSize
            /\ errorCounter[w] + Cardinality(EntriesIn(errorHandlers, w)) <= BatchSize
        BY <3>1, <3>4 DEF Counts
      <4> QED
        BY <3>1, <3>2, <4>1, OutboundAssumption
    <3> QED
      BY <3>3, <3>4 DEF Writes
  <2> QED
    BY <2>1 DEF CounterInv, HandlerTypes, TypeOK
<1> QED
  BY <1>1, CounterInvariant, PTL

-----------------------------------------------------------------------------
(* With both handlers always given and batches linked.                     *)

\* A buffer under way has the handlers of its write, and it alone stands for
\* one request of it, which has no result yet.
OwnHandlers ==
  /\ \A b \in Buffers : carries[b] \in Writes =>
       /\ doneHandlers[b] = carries[b] /\ errorHandlers[b] = carries[b]
       /\ part[b] \in 1..Size(carries[b])
       /\ outcome[carries[b]][part[b]] = "underWay"
  /\ \A b, c \in Buffers :
       carries[b] \in Writes /\ carries[b] = carries[c] /\ part[b] = part[c] => b = c

\* A refused write is reported once, if it gave an onError.
Refused(w) == Issued(w) /\ \A i \in 1..Size(w) : outcome[w][i] = "refused"
RefusalTold(w) == reported[w] = IF "error" \in given[w] THEN <<"error">> ELSE <<>>

\* What a request without a result yet may have come to.
Rest == IF stage = "inactive" THEN {"underWay", "dropped"} ELSE {"underWay"}

\* A write that was not issued has reported nothing; a single one reports its
\* result with it.
SingleTold(w) ==
  /\ ~Issued(w) => reported[w] = <<>>
  /\ Refused(w) => RefusalTold(w)
  /\ Issued(w) /\ ~Refused(w) =>
       \/ outcome[w][1] \in Rest /\ reported[w] = <<>>
       \/ outcome[w][1] \in {"done", "error"} /\ reported[w] = <<outcome[w][1]>>

\* The results of a linked batch: successes, then errors, then nothing; it
\* is reported with the last.
InOrder(w) ==
  /\ ~Issued(w) => doneCounter[w] = 0 /\ errorCounter[w] = 0
  /\ doneCounter[w] + errorCounter[w] <= BatchSize
  /\ Refused(w) => doneCounter[w] = 0 /\ errorCounter[w] = 0 /\ RefusalTold(w)
  /\ Issued(w) /\ ~Refused(w) => \A i \in 1..BatchSize :
       IF i <= doneCounter[w] THEN outcome[w][i] = "done"
       ELSE IF i <= doneCounter[w] + errorCounter[w] THEN outcome[w][i] = "error"
       ELSE outcome[w][i] \in Rest
  /\ ~Refused(w) =>
       reported[w] = IF doneCounter[w] = BatchSize THEN <<"done">>
                     ELSE IF doneCounter[w] + errorCounter[w] = BatchSize THEN <<"error">>
                     ELSE <<>>

ReportInv ==
  /\ CounterInv
  /\ OwnHandlers
  /\ \A w \in Singles : SingleTold(w)
  /\ \A w \in Batches : InOrder(w)

LEMMA ReportInitial == Init => ReportInv
<1> SUFFICES ASSUME Init PROVE ReportInv
  OBVIOUS
<1>1. CounterInv /\ OwnHandlers
  BY CounterInitial, Sizes DEF Init, OwnHandlers
<1>2. \A w \in Writes : /\ outcome[w] = <<>> /\ reported[w] = <<>>
                        /\ doneCounter[w] = 0 /\ errorCounter[w] = 0
  BY DEF Init
<1>3. \A w \in Singles : SingleTold(w)
  BY <1>2 DEF Writes, SingleTold, Refused, Issued
<1>4. \A w \in Batches : InOrder(w)
  BY <1>2, OutboundAssumption DEF Writes, InOrder, Refused, Issued
<1> QED
  BY <1>1, <1>3, <1>4 DEF ReportInv

\* A step that leaves a write alone, and does not make the channel active.
LEMMA LeftAlone ==
  ASSUME NEW v \in Writes, outcome'[v] = outcome[v], reported'[v] = reported[v],
         given'[v] = given[v], doneCounter'[v] = doneCounter[v],
         errorCounter'[v] = errorCounter[v],
         stage' = stage \/ stage \in {"open", "grace"}
  PROVE  /\ SingleTold(v) => SingleTold(v)'
         /\ InOrder(v) => InOrder(v)'
<1>1. /\ Refused(v)' = Refused(v) /\ RefusalTold(v)' = RefusalTold(v)
      /\ Issued(v)' = Issued(v)
  BY DEF Refused, RefusalTold, Issued
<1>2. Rest \subseteq Rest'
  BY DEF Rest
<1> QED
  BY <1>1, <1>2 DEF SingleTold, InOrder

LEMMA WriteKeepsReports ==
  ASSUME Handlers \subseteq {{"done", "error"}}, ReportInv, NEW w \in Writes, Write(w)
  PROVE  ReportInv'
<1>1. CounterInv /\ CounterInv'
  BY WriteKeepsCounters DEF ReportInv
<1>2. PICK buffer \in [1..Size(w) -> Free], used \in SUBSET Free,
           handlers \in SUBSET {"done", "error"} :
        /\ used = {buffer[i] : i \in 1..Size(w)}
        /\ IsFiniteSet(used) /\ Cardinality(used) = Size(w)
        /\ IF w \in Batches THEN handlers = {"done", "error"} ELSE handlers \in Handlers
        /\ carries' = [b \in Buffers |-> IF b \in used THEN w ELSE carries[b]]
        /\ part' = [b \in Buffers |->
                      IF b \in used THEN CHOOSE i \in 1..Size(w) : buffer[i] = b
                                    ELSE part[b]]
        /\ doneHandlers' = [b \in Buffers |->
             IF b \in used /\ "done" \in handlers THEN w ELSE doneHandlers[b]]
        /\ errorHandlers' = [b \in Buffers |->
             IF b \in used /\ "error" \in handlers THEN w ELSE errorHandlers[b]]
  BY <1>1, WriteStep
<1>3. /\ ~Issued(w) /\ doneCounter' = doneCounter /\ errorCounter' = errorCounter
      /\ reported' = reported /\ stage' = stage
      /\ \A v \in Writes : v # w => given'[v] = given[v]
      /\ outcome' = [outcome EXCEPT ![w] = [i \in 1..Size(w) |-> "underWay"]]
  BY DEF Write, counters
<1> DEFINE out2 == [i \in 1..Size(w) |-> "underWay"]
<1>4. out2 \in [1..Size(w) -> Outcomes] /\ \A i \in 1..Size(w) : out2[i] = "underWay"
  BY DEF Outcomes
<1> HIDE DEF out2
<1>5. out2 # <<>>
  BY <1>4, IssuedIsNotEmpty
<1>6. outcome'[w] = out2 /\ \A v \in Writes : v # w => outcome'[v] = outcome[v]
  BY <1>1, <1>3 DEF CounterInv, HandlerTypes, out2
<1>7. "done" \in handlers /\ "error" \in handlers
  BY <1>2
<1>8. \A b \in used : part'[b] \in 1..Size(w) /\ buffer[part'[b]] = b
  <2> TAKE b \in used
  <2>1. \E i \in 1..Size(w) : buffer[i] = b
    BY <1>2
  <2>2. part'[b] = CHOOSE i \in 1..Size(w) : buffer[i] = b
    BY <1>2 DEF Free
  <2> QED
    BY <2>1, <2>2
<1>9. \A b \in Buffers : /\ b \in used => carries[b] = NoWrite /\ carries'[b] = w
                         /\ b \notin used => carries'[b] = carries[b] /\ part'[b] = part[b]
                         /\ carries[b] # w
  <2> TAKE b \in Buffers
  <2>1. b \in used => carries[b] = NoWrite /\ carries'[b] = w
    BY <1>2 DEF Free
  <2>2. b \notin used => carries'[b] = carries[b] /\ part'[b] = part[b]
    BY <1>2
  <2>3. carries[b] # w
    BY <1>1, <1>3, Sizes DEF CounterInv
  <2> QED
    BY <2>1, <2>2, <2>3
<1>10. ASSUME NEW b \in Buffers, carries'[b] \in Writes
       PROVE  /\ doneHandlers'[b] = carries'[b] /\ errorHandlers'[b] = carries'[b]
              /\ part'[b] \in 1..Size(carries'[b])
              /\ outcome'[carries'[b]][part'[b]] = "underWay"
  <2>1. CASE b \in used
    BY <1>2, <1>4, <1>6, <1>7, <1>8, <1>9, <2>1
  <2>2. CASE b \notin used
    <3>1. /\ carries'[b] = carries[b] /\ part'[b] = part[b] /\ carries[b] # w
          /\ doneHandlers'[b] = doneHandlers[b] /\ errorHandlers'[b] = errorHandlers[b]
      BY <1>2, <1>9, <2>2
    <3>2. carries[b] \in Writes
      BY <1>10, <3>1
    <3> QED
      BY <1>6, <1>10, <3>1, <3>2 DEF ReportInv, OwnHandlers
  <2> QED
    BY <2>1, <2>2
<1>11. ASSUME NEW b \in Buffers, NEW c \in Buffers, carries'[b] \in Writes,
              carries'[b] = carries'[c], part'[b] = part'[c]
       PROVE  b = c
  <2>1. CASE b \in used /\ c \in used
    BY <1>8, <1>11, <2>1
  <2>2. CASE b \notin used /\ c \notin used
    BY <1>9, <1>11, <2>2 DEF ReportInv, OwnHandlers
  <2>3. CASE ~(b \in used <=> c \in used)
    BY <1>9, <1>11, <2>3
  <2> QED
    BY <2>1, <2>2, <2>3
<1>12. Issued(w)' /\ ~Refused(w)'
  <2>1. outcome'[w][1] = "underWay" /\ 1 \in 1..Size(w)
    BY <1>4, <1>6, Sizes
  <2> QED
    BY <1>5, <1>6, <2>1 DEF Issued, Refused
<1>13. ASSUME NEW v \in Singles PROVE SingleTold(v)'
  <2>1. CASE v = w
    <3>1. reported[w] = <<>>
      BY <1>3, <2>1 DEF ReportInv, SingleTold
    <3>2. outcome'[w][1] = "underWay"
      BY <1>4, <1>6, <2>1, Sizes
    <3> QED
      BY <1>3, <1>12, <2>1, <3>1, <3>2 DEF SingleTold, Rest
  <2>2. CASE v # w
    BY <1>3, <1>6, <2>2, LeftAlone DEF ReportInv, Writes
  <2> QED
    BY <2>1, <2>2
<1>14. ASSUME NEW v \in Batches PROVE InOrder(v)'
  <2>1. CASE v = w
    <3>1. doneCounter[w] = 0 /\ errorCounter[w] = 0
      BY <1>3, <2>1 DEF ReportInv, InOrder
    <3>2. \A i \in 1..BatchSize : outcome'[w][i] = "underWay"
      BY <1>4, <1>6, <2>1, Sizes
    <3> QED
      <4>1. 0 + 0 = 0 /\ 0 <= BatchSize /\ 0 # BatchSize /\ \A i \in 1..BatchSize : ~(i <= 0)
        BY OutboundAssumption
      <4>2. reported[w] = <<>>
        BY <1>3, <2>1, <3>1, <4>1 DEF ReportInv, InOrder, Refused
      <4>3. doneCounter'[v] = 0 /\ errorCounter'[v] = 0 /\ reported'[v] = <<>>
        BY <1>3, <2>1, <3>1, <4>2
      <4>4. /\ Issued(v)' /\ ~Refused(v)'
            /\ \A j \in 1..BatchSize : outcome'[v][j] \in Rest'
        BY <1>12, <2>1, <3>2 DEF Rest
      <4> QED
        BY <4>1, <4>3, <4>4 DEF InOrder
  <2>2. CASE v # w
    BY <1>3, <1>6, <2>2, LeftAlone DEF ReportInv, Writes
  <2> QED
    BY <2>1, <2>2
<1> QED
  BY <1>1, <1>10, <1>11, <1>13, <1>14 DEF ReportInv, OwnHandlers

LEMMA NotifyKeepsReports ==
  ASSUME Linked, ReportInv, NEW b \in Buffers, NEW result \in {"done", "error"},
         Notify(b, result), NEW w \in Writes, NEW i, carries[b] = w, part[b] = i
  PROVE  ReportInv'
<1>1. CounterInv /\ CounterInv'
  BY NotifyKeepsCounters DEF ReportInv
<1>2. /\ w \in Writes /\ Issued(w)
      /\ carries' = [carries EXCEPT ![b] = NoWrite]
      /\ DOMAIN outcome' = Writes
      /\ outcome'[w] = [outcome[w] EXCEPT ![i] = result]
      /\ outcome'[w] \in [1..Size(w) -> Outcomes]
      /\ \A v \in Writes : v # w => outcome'[v] = outcome[v]
  <2>1. /\ carries[b] \in Writes /\ Issued(carries[b])
        /\ carries' = [carries EXCEPT ![b] = NoWrite]
        /\ DOMAIN outcome' = Writes
        /\ outcome'[carries[b]] = [outcome[carries[b]] EXCEPT ![part[b]] = result]
        /\ outcome'[carries[b]] \in [1..Size(carries[b]) -> Outcomes]
        /\ \A v \in Writes : v # carries[b] => outcome'[v] = outcome[v]
    BY <1>1, NotifyStep, ZenonT(60)
  <2>2. carries[b] = w /\ part[b] = i
    OBVIOUS
  <2> QED
    BY <2>1, <2>2, Zenon
<1>3. outcome[w] \in [1..Size(w) -> Outcomes]
  BY <1>1, <1>2 DEF CounterInv, HandlerTypes
<1>4. /\ doneHandlers[b] = w /\ errorHandlers[b] = w
      /\ i \in 1..Size(w) /\ outcome[w][i] = "underWay"
  BY <1>2, Sizes DEF ReportInv, OwnHandlers
<1>5. w # NoWrite
  BY <1>2, Sizes
<1>6. outcome'[w] # <<>>
  BY <1>2, IssuedIsNotEmpty
<1>7. /\ result = "done" => CallDone(w)
      /\ result = "error" => CallError(w)
      /\ LinkAllows(w, i, result)
      /\ part' = part /\ stage' = stage /\ stage # "inactive" /\ given' = given
      /\ doneHandlers' = IF result = "done" THEN [doneHandlers EXCEPT ![b] = NoWrite]
                         ELSE doneHandlers
      /\ errorHandlers' = IF result = "error" THEN [errorHandlers EXCEPT ![b] = NoWrite]
                          ELSE errorHandlers
  BY <1>4, <1>5 DEF Notify
<1>8. /\ \A j \in 1..Size(w) : j # i => outcome'[w][j] = outcome[w][j]
      /\ outcome'[w][i] = result
  BY <1>2, <1>3, <1>4
<1>9. /\ doneCounter \in [Writes -> Nat] /\ errorCounter \in [Writes -> Nat]
      /\ DOMAIN reported = Writes
      /\ carries \in [Buffers -> Writes \cup {NoWrite, Kept}]
      /\ doneHandlers \in [Buffers -> Writes \cup {NoWrite}]
      /\ errorHandlers \in [Buffers -> Writes \cup {NoWrite}]
  BY <1>1 DEF CounterInv, HandlerTypes
<1>10. \A v \in Writes : v # w =>
         /\ reported'[v] = reported[v] /\ doneCounter'[v] = doneCounter[v]
         /\ errorCounter'[v] = errorCounter[v] /\ outcome'[v] = outcome[v]
  BY <1>2, <1>7, <1>9 DEF CallDone, CallError, Report, counters
<1>11. /\ Rest = {"underWay"} /\ Rest' = {"underWay"}
      /\ Issued(w) /\ ~Refused(w) /\ Issued(w)' /\ ~Refused(w)'
  <2>1. ~Refused(w) /\ ~Refused(w)'
    BY <1>4, <1>8 DEF Refused
  <2> QED
    BY <1>2, <1>6, <1>7, <2>1 DEF Rest, Issued
<1>12. OwnHandlers'
  <2>1. ASSUME NEW c \in Buffers, carries'[c] \in Writes
        PROVE  /\ doneHandlers'[c] = carries'[c] /\ errorHandlers'[c] = carries'[c]
               /\ part'[c] \in 1..Size(carries'[c])
               /\ outcome'[carries'[c]][part'[c]] = "underWay"
    <3>1. c # b /\ carries'[c] = carries[c] /\ carries[c] \in Writes
      BY <1>2, <1>9, <2>1, Sizes
    <3>2. doneHandlers'[c] = doneHandlers[c] /\ errorHandlers'[c] = errorHandlers[c]
      BY <1>7, <1>9, <3>1
    <3>3. /\ doneHandlers[c] = carries[c] /\ errorHandlers[c] = carries[c]
          /\ part[c] \in 1..Size(carries[c])
          /\ outcome[carries[c]][part[c]] = "underWay"
      BY <2>1, <3>1 DEF ReportInv, OwnHandlers
    <3>4. carries[c] = w => part[c] # i
      BY <1>5, <3>1 DEF ReportInv, OwnHandlers
    <3>5. outcome'[carries[c]][part[c]] = "underWay"
      BY <1>8, <1>10, <3>1, <3>3, <3>4
    <3> QED
      BY <1>7, <3>1, <3>2, <3>3, <3>5
  <2>2. ASSUME NEW c \in Buffers, NEW d \in Buffers, carries'[c] \in Writes,
               carries'[c] = carries'[d], part'[c] = part'[d]
        PROVE  c = d
    BY <1>2, <1>7, <1>9, <2>2, Sizes DEF ReportInv, OwnHandlers
  <2> QED
    BY <2>1, <2>2 DEF OwnHandlers
<1>13. ASSUME NEW v \in Singles PROVE SingleTold(v)'
  <2>1. CASE v # w
    BY <1>7, <1>10, <2>1, LeftAlone DEF ReportInv, Writes
  <2>2. CASE v = w
    <3>1. i = 1
      BY <1>4, <2>2, Sizes
    <3>2. reported[w] = <<>>
      BY <1>4, <1>11, <2>2, <3>1 DEF ReportInv, SingleTold
    <3>3. reported' = [reported EXCEPT ![w] = Append(@, result)]
      BY <1>7, <2>2 DEF CallDone, CallError, Report
    <3>4. reported'[w] = <<result>>
      BY <1>2, <1>9, <3>2, <3>3
    <3> QED
      BY <1>4, <1>8, <1>11, <2>2, <3>1, <3>4 DEF SingleTold
  <2> QED
    BY <2>1, <2>2
<1>14. ASSUME NEW v \in Batches PROVE InOrder(v)'
  <2>1. CASE v # w
    BY <1>7, <1>10, <2>1, LeftAlone DEF ReportInv, Writes
  <2>2. CASE v = w
    <3> DEFINE d == doneCounter[w]
               e == errorCounter[w]
    <3>1. Size(w) = BatchSize /\ BatchSize \in Nat \ {0} /\ w \notin Singles
      BY <2>2, Sizes, OutboundAssumption DEF Writes
    <3>2. d \in Nat /\ e \in Nat /\ d + e <= BatchSize
      BY <1>2, <1>9, <2>2 DEF ReportInv, InOrder
    <3>3. \A j \in 1..BatchSize : outcome[w][j] =
            IF j <= d THEN "done" ELSE IF j <= d + e THEN "error" ELSE "underWay"
      BY <1>11, <2>2 DEF ReportInv, InOrder
    <3>4. /\ \A j \in 1..(i - 1) : outcome[w][j] # "underWay"
          /\ (\E j \in 1..(i - 1) : outcome[w][j] = "error") => result = "error"
      BY <1>7, <2>2 DEF LinkAllows
    <3>5. i \in 1..BatchSize /\ i > d + e
      BY <1>4, <3>1, <3>2, <3>3
    <3>6. i = d + e + 1
      <4>1. CASE i > d + e + 1
        <5>1. d + e + 1 \in 1..(i - 1) /\ d + e + 1 \in 1..BatchSize
          BY <3>1, <3>2, <3>5, <4>1
        <5>2. outcome[w][d + e + 1] = "underWay"
          BY <3>2, <3>3, <5>1
        <5> QED
          BY <3>4, <5>1, <5>2
      <4> QED
        BY <3>2, <3>5, <4>1
    <3>7. result = "done" => e = 0
      <4> SUFFICES ASSUME e # 0 PROVE result = "error"
        OBVIOUS
      <4>1. d + e \in 1..(i - 1) /\ d + e \in 1..BatchSize
        BY <3>1, <3>2, <3>5, <3>6
      <4>2. outcome[w][d + e] = "error"
        BY <3>2, <3>3, <4>1
      <4> QED
        BY <3>4, <4>1, <4>2
    <3>8. reported[w] = <<>>
      <4>1. d + e # BatchSize /\ d # BatchSize
        BY <3>2, <3>5
      <4> QED
        BY <1>11, <2>2, <4>1 DEF ReportInv, InOrder
    <3>9. CASE result = "done"
      <4>1. /\ doneCounter' = [doneCounter EXCEPT ![w] = @ + 1]
            /\ errorCounter' = errorCounter
            /\ IF d + 1 = BatchSize THEN Report(w, "done") ELSE reported' = reported
        BY <1>7, <3>1, <3>7, <3>9 DEF CallDone
      <4>2. doneCounter'[w] = d + 1 /\ errorCounter'[w] = 0
        BY <1>2, <1>9, <3>7, <3>9, <4>1
      <4>3. reported'[w] = IF d + 1 = BatchSize THEN <<"done">> ELSE <<>>
        BY <1>2, <1>9, <3>8, <4>1 DEF Report
      <4>4. \A j \in 1..BatchSize :
              outcome'[w][j] = IF j <= d + 1 THEN "done" ELSE "underWay"
        BY <1>8, <3>1, <3>2, <3>3, <3>6, <3>7, <3>9
      <4> HIDE DEF d, e
      <4>5. d + 1 <= BatchSize
        BY <3>1, <3>2, <3>7, <3>9, <3>5, <3>6
      <4>6. doneCounter'[w] + errorCounter'[w] = d + 1
        BY <3>2, <4>2
      <4> QED
        <5>1. reported'[w] = IF d + 1 = BatchSize THEN <<"done">>
                             ELSE IF d + 1 = BatchSize THEN <<"error">> ELSE <<>>
          BY <4>3
        <5> QED
          BY <1>11, <2>2, <3>2, <4>2, <4>4, <4>5, <4>6, <5>1 DEF InOrder
    <3>10. CASE result = "error"
      <4>1. /\ errorCounter' = [errorCounter EXCEPT ![w] = @ + 1]
            /\ doneCounter' = doneCounter
            /\ IF e + 1 + d = BatchSize THEN Report(w, "error") ELSE reported' = reported
        BY <1>7, <3>1, <3>10 DEF CallError
      <4>2. doneCounter'[w] = d /\ errorCounter'[w] = e + 1
        BY <1>2, <1>9, <4>1
      <4>3. reported'[w] = IF d + (e + 1) = BatchSize THEN <<"error">> ELSE <<>>
        <5>1. e + 1 + d = d + (e + 1)
          BY <3>2
        <5>2. Append(<<>>, "error") = <<"error">>
          OBVIOUS
        <5> HIDE DEF d, e
        <5> QED
          BY <1>2, <1>9, <3>8, <4>1, <5>1, <5>2 DEF Report
      <4>4. \A j \in 1..BatchSize : outcome'[w][j] =
              IF j <= d THEN "done" ELSE IF j <= d + (e + 1) THEN "error" ELSE "underWay"
        BY <1>8, <3>1, <3>2, <3>3, <3>6, <3>10
      <4> HIDE DEF d, e
      <4>5. d + (e + 1) <= BatchSize /\ d # BatchSize
        BY <3>1, <3>2, <3>5, <3>6
      <4> QED
        BY <1>11, <2>2, <4>2, <4>3, <4>4, <4>5 DEF InOrder
    <3> QED
      BY <3>9, <3>10
  <2> QED
    BY <2>1, <2>2
<1> QED
  BY <1>1, <1>12, <1>13, <1>14 DEF ReportInv

\* A refused write is reported at once, and has no buffer under way.
LEMMA RefuseKeepsReports ==
  ASSUME ReportInv, NEW w \in Writes, Refuse(w)
  PROVE  ReportInv'
<1>1. /\ CounterInv /\ CounterInv'
      /\ stage # "open" /\ ~Issued(w) /\ Issued(w)'
      /\ UNCHANGED <<stage, part, doneHandlers, errorHandlers, counters>>
      /\ \A i \in 1..Size(w) : outcome'[w][i] = "refused"
      /\ reported'[w] = IF "error" \in given'[w] THEN Append(reported[w], "error")
                                               ELSE reported[w]
      /\ \A v \in Writes : v # w => /\ outcome'[v] = outcome[v]
                                   /\ reported'[v] = reported[v]
                                   /\ given'[v] = given[v]
      /\ \A b \in Buffers : carries'[b] \in Writes => carries'[b] = carries[b]
  BY RefuseKeepsCounters DEF ReportInv
<1>2. Refused(w)'
  BY <1>1 DEF Refused
<1>3. OwnHandlers'
  <2>1. ASSUME NEW b \in Buffers, carries'[b] \in Writes
        PROVE  /\ doneHandlers'[b] = carries'[b] /\ errorHandlers'[b] = carries'[b]
               /\ part'[b] \in 1..Size(carries'[b])
               /\ outcome'[carries'[b]][part'[b]] = "underWay"
    <3>1. carries'[b] = carries[b] /\ carries[b] # w
      BY <1>1, <2>1 DEF CounterInv
    <3> QED
      BY <1>1, <2>1, <3>1 DEF ReportInv, OwnHandlers
  <2>2. ASSUME NEW b \in Buffers, NEW c \in Buffers, carries'[b] \in Writes,
               carries'[b] = carries'[c], part'[b] = part'[c]
        PROVE  b = c
    BY <1>1, <2>2 DEF ReportInv, OwnHandlers
  <2> QED
    BY <2>1, <2>2 DEF OwnHandlers
<1>4. ASSUME reported[w] = <<>> PROVE RefusalTold(w)'
  <2>1. Append(<<>>, "error") = <<"error">>
    OBVIOUS
  <2> QED
    BY <1>1, <1>4, <2>1 DEF RefusalTold
<1>5. ASSUME NEW v \in Singles PROVE SingleTold(v)'
  <2>1. CASE v = w
    BY <1>1, <1>2, <1>4, <2>1 DEF ReportInv, SingleTold
  <2>2. CASE v # w
    BY <1>1, <1>5, <2>2, LeftAlone DEF ReportInv, Writes, counters
  <2> QED
    BY <2>1, <2>2
<1>6. ASSUME NEW v \in Batches PROVE InOrder(v)'
  <2>1. CASE v = w
    <3>1. /\ doneCounter[w] = 0 /\ errorCounter[w] = 0
          /\ doneCounter'[w] = 0 /\ errorCounter'[w] = 0
      BY <1>1, <1>6, <2>1 DEF ReportInv, InOrder, counters
    <3>2. 0 + 0 = 0 /\ 0 <= BatchSize /\ 0 # BatchSize
      BY OutboundAssumption
    <3>3. reported[w] = <<>>
      BY <1>1, <1>6, <2>1, <3>1, <3>2 DEF ReportInv, InOrder, Refused
    <3> QED
      BY <1>1, <1>2, <1>4, <2>1, <3>1, <3>2, <3>3 DEF InOrder
  <2>2. CASE v # w
    BY <1>1, <1>6, <2>2, LeftAlone DEF ReportInv, Writes, counters
  <2> QED
    BY <2>1, <2>2
<1> QED
  BY <1>1, <1>3, <1>5, <1>6 DEF ReportInv

\* A result that is dropped was the one of a request that had none, so that it
\* lies behind the runs of the counters.
LEMMA DropKeepsReports ==
  ASSUME ReportInv, NEW b \in Buffers, NotifyInactive(b),
         NEW w \in Writes, NEW i, carries[b] = w, part[b] = i
  PROVE  ReportInv'
<1>1. /\ CounterInv /\ CounterInv'
      /\ w \in Writes /\ Issued(w) /\ stage = "inactive"
      /\ UNCHANGED <<stage, part, given, doneHandlers, errorHandlers, counters, reported>>
      /\ carries' = [carries EXCEPT ![b] = NoWrite]
      /\ outcome[w] \in [1..Size(w) -> Outcomes]
      /\ outcome'[w] = [outcome[w] EXCEPT ![i] = "dropped"]
      /\ outcome'[w] # <<>>
      /\ \A v \in Writes : v # w => outcome'[v] = outcome[v]
  BY DropKeepsCounters, ZenonT(30) DEF ReportInv
<1>2. i \in 1..Size(w) /\ outcome[w][i] = "underWay"
  BY <1>1 DEF ReportInv, OwnHandlers
<1>3. /\ \A j \in 1..Size(w) : j # i => outcome'[w][j] = outcome[w][j]
      /\ outcome'[w][i] = "dropped"
  BY <1>1, <1>2
<1>4. \A c \in Buffers : /\ carries'[c] \in Writes => c # b /\ carries'[c] = carries[c]
                         /\ carries[c] = w /\ c # b => part[c] # i
  <2> TAKE c \in Buffers
  <2>1. carries'[c] \in Writes => c # b /\ carries'[c] = carries[c]
    BY <1>1, Sizes DEF CounterInv, HandlerTypes
  <2>2. carries[c] = w /\ c # b => part[c] # i
    BY <1>1 DEF ReportInv, OwnHandlers
  <2> QED
    BY <2>1, <2>2
<1>5. /\ Rest = {"underWay", "dropped"} /\ Rest' = {"underWay", "dropped"}
      /\ ~Refused(w) /\ Issued(w)' /\ ~Refused(w)'
  <2>1. ~Refused(w) /\ ~Refused(w)'
    BY <1>2, <1>3 DEF Refused
  <2> QED
    BY <1>1, <2>1 DEF Rest, Issued
<1>6. OwnHandlers'
  <2>1. ASSUME NEW c \in Buffers, carries'[c] \in Writes
        PROVE  /\ doneHandlers'[c] = carries'[c] /\ errorHandlers'[c] = carries'[c]
               /\ part'[c] \in 1..Size(carries'[c])
               /\ outcome'[carries'[c]][part'[c]] = "underWay"
    <3>1. /\ carries'[c] = carries[c] /\ carries[c] \in Writes
          /\ carries[c] = w => part[c] # i
          /\ doneHandlers[c] = carries[c] /\ errorHandlers[c] = carries[c]
          /\ part[c] \in 1..Size(carries[c])
          /\ outcome[carries[c]][part[c]] = "underWay"
      BY <1>4, <2>1 DEF ReportInv, OwnHandlers
    <3>2. PICK v \in Writes : carries[c] = v /\ carries'[c] = v
      BY <3>1
    <3>3. part'[c] = part[c] /\ doneHandlers'[c] = v /\ errorHandlers'[c] = v
      BY <1>1, <3>1, <3>2
    <3>4. part[c] \in 1..Size(v) /\ outcome[v][part[c]] = "underWay"
      BY <3>1, <3>2
    <3>5. outcome'[v][part[c]] = "underWay"
      <4>1. CASE v = w
        BY <1>3, <3>1, <3>2, <3>4, <4>1
      <4>2. CASE v # w
        BY <1>1, <3>4, <4>2
      <4> QED
        BY <4>1, <4>2
    <3> QED
      BY <3>2, <3>3, <3>4, <3>5
  <2>2. ASSUME NEW c \in Buffers, NEW d \in Buffers, carries'[c] \in Writes,
               carries'[c] = carries'[d], part'[c] = part'[d]
        PROVE  c = d
    BY <1>1, <1>4, <2>2 DEF ReportInv, OwnHandlers
  <2> QED
    BY <2>1, <2>2 DEF OwnHandlers
<1>7. ASSUME NEW v \in Singles PROVE SingleTold(v)'
  <2>1. CASE v = w
    <3>1. i = 1 /\ reported[w] = <<>>
      BY <1>1, <1>2, <1>5, <2>1, Sizes DEF ReportInv, SingleTold
    <3> QED
      BY <1>1, <1>3, <1>5, <2>1, <3>1 DEF SingleTold
  <2>2. CASE v # w
    BY <1>1, <1>7, <2>2, LeftAlone DEF ReportInv, Writes, counters
  <2> QED
    BY <2>1, <2>2
<1>8. ASSUME NEW v \in Batches PROVE InOrder(v)'
  <2>1. CASE v = w
    <3>1. /\ Size(w) = BatchSize /\ InOrder(w)
          /\ doneCounter'[w] = doneCounter[w] /\ errorCounter'[w] = errorCounter[w]
          /\ reported'[w] = reported[w]
      BY <1>1, <1>8, <2>1, Sizes DEF ReportInv, counters
    <3>2. \A j \in 1..BatchSize :
            IF j <= doneCounter[w] THEN outcome[w][j] = "done"
            ELSE IF j <= doneCounter[w] + errorCounter[w] THEN outcome[w][j] = "error"
            ELSE outcome[w][j] \in Rest
      BY <1>1, <1>5, <3>1 DEF InOrder
    <3>3. \A j \in 1..BatchSize :
            IF j <= doneCounter[w] THEN outcome'[w][j] = "done"
            ELSE IF j <= doneCounter[w] + errorCounter[w] THEN outcome'[w][j] = "error"
            ELSE outcome'[w][j] \in Rest'
      <4> TAKE j \in 1..BatchSize
      <4>1. CASE j = i
        BY <1>2, <1>3, <1>5, <3>1, <3>2, <4>1
      <4>2. CASE j # i
        BY <1>3, <1>5, <3>1, <3>2, <4>2
      <4> QED
        BY <4>1, <4>2
    <3> QED
      BY <1>1, <1>5, <2>1, <3>1, <3>3 DEF InOrder
  <2>2. CASE v # w
    BY <1>1, <1>8, <2>2, LeftAlone DEF ReportInv, Writes, counters
  <2> QED
    BY <2>1, <2>2
<1> QED
  BY <1>1, <1>6, <1>7, <1>8 DEF ReportInv

\* With both handlers always given and batches linked, the reports stay in
\* step with the results.
THEOREM ReportInvariant ==
  ASSUME Linked, Handlers \subseteq {{"done", "error"}}
  PROVE  Spec => []ReportInv
<1>1. ReportInv /\ [Next]_vars => ReportInv'
  <2> SUFFICES ASSUME ReportInv, [Next]_vars PROVE ReportInv'
    OBVIOUS
  <2>1. ASSUME NEW w \in Writes, Write(w) PROVE ReportInv'
    BY <2>1, WriteKeepsReports
  <2>2. ASSUME NEW b \in Buffers, NEW result \in {"done", "error"}, Notify(b, result)
        PROVE  ReportInv'
    BY <2>2, NotifyKeepsReports DEF Notify
  <2>3. CASE UNCHANGED vars \/ Close \/ GraceEnds
    <3>1. CounterInv'
      BY <2>3, CountersStutter DEF ReportInv
    <3>2. /\ UNCHANGED <<carries, part, doneHandlers, errorHandlers, given, doneCounter,
                         errorCounter, outcome, reported>>
          /\ stage' = stage \/ stage \in {"open", "grace"}
      BY <2>3 DEF vars, counters, Close, GraceEnds
    <3>3. OwnHandlers'
      BY <3>2 DEF ReportInv, OwnHandlers
    <3>4. ASSUME NEW w \in Singles PROVE SingleTold(w)'
      BY <3>2, <3>4, LeftAlone DEF ReportInv, Writes
    <3>5. ASSUME NEW w \in Batches PROVE InOrder(w)'
      BY <3>2, <3>5, LeftAlone DEF ReportInv, Writes
    <3> QED
      BY <3>1, <3>3, <3>4, <3>5 DEF ReportInv
  <2>4. ASSUME NEW w \in Writes, Refuse(w) PROVE ReportInv'
    BY <2>4, RefuseKeepsReports
  <2>5. ASSUME NEW b \in Buffers, NotifyInactive(b) PROVE ReportInv'
    BY <2>5, DropKeepsReports DEF NotifyInactive
  <2> QED
    BY <2>1, <2>2, <2>3, <2>4, <2>5 DEF Next
<1> QED
  BY <1>1, ReportInitial, PTL DEF Spec

\* Then nothing is reported twice, early, for the wrong result, for another
\* write, or for one with a dropped result.
THEOREM NothingFalseIsReported ==
  ASSUME Linked, Handlers \subseteq {{"done", "error"}}
  PROVE  Spec => []NoFalseReport
<1>1. ReportInv => NoFalseReport
  <2> SUFFICES ASSUME ReportInv, NEW w \in Writes, reported[w] # <<>>
               PROVE  Over(w) /\ ~Dropped(w) /\ reported[w] = <<Verdict(w)>>
    BY DEF NoFalseReport
  <2>1. Size(w) \in Nat \ {0} /\ 1 \in 1..Size(w)
    BY Sizes
  <2>2. CASE Refused(w)
    <3>1. reported[w] = <<"error">>
      BY <2>2 DEF ReportInv, SingleTold, InOrder, RefusalTold, Writes
    <3> QED
      BY <2>1, <2>2, <3>1 DEF Refused, Over, Dropped, Verdict
  <2>3. CASE ~Refused(w) /\ w \in Singles
    <3>1. Issued(w) /\ outcome[w][1] \in {"done", "error"} /\ reported[w] = <<outcome[w][1]>>
      BY <2>3 DEF ReportInv, SingleTold
    <3>2. \A i \in 1..Size(w) : i = 1
      BY <2>3, Sizes
    <3> QED
      BY <2>1, <3>1, <3>2 DEF Over, Dropped, Verdict
  <2>4. CASE ~Refused(w) /\ w \in Batches
    <3>1. InOrder(w) /\ Size(w) = BatchSize /\ BatchSize \in Nat \ {0}
      BY <2>4, Sizes, OutboundAssumption DEF ReportInv
    <3>2. doneCounter[w] \in Nat /\ errorCounter[w] \in Nat
      BY DEF ReportInv, CounterInv, HandlerTypes
    <3>3. CASE doneCounter[w] = BatchSize
      <4>1. Issued(w) /\ \A i \in 1..BatchSize : outcome[w][i] = "done"
        BY <2>4, <3>1, <3>2, <3>3 DEF InOrder
      <4> QED
        BY <2>4, <3>1, <3>3, <4>1 DEF InOrder, Over, Dropped, Verdict
    <3>4. CASE doneCounter[w] # BatchSize /\ doneCounter[w] + errorCounter[w] = BatchSize
      <4>1. Issued(w) /\ \A i \in 1..BatchSize : outcome[w][i] \in {"done", "error"}
        BY <2>4, <3>1, <3>2, <3>4 DEF InOrder
      <4>2. BatchSize \in 1..BatchSize /\ outcome[w][BatchSize] = "error"
        BY <2>4, <3>1, <3>2, <3>4, <4>1 DEF InOrder
      <4> QED
        BY <2>4, <3>1, <3>4, <4>1, <4>2 DEF InOrder, Over, Dropped, Verdict
    <3> QED
      BY <2>4, <3>1, <3>3, <3>4 DEF InOrder
  <2> QED
    BY <2>2, <2>3, <2>4 DEF Writes
<1> QED
  BY <1>1, ReportInvariant, PTL

\* And every write that is over has been reported, a refused one included,
\* unless the inactive channel dropped a result of it.
THEOREM NothingIsUnreported ==
  ASSUME Linked, Handlers \subseteq {{"done", "error"}}
  PROVE  Spec => []NoLostReport
<1>1. ReportInv => NoLostReport
  <2> SUFFICES ASSUME ReportInv, NEW w \in Writes, Over(w), Verdict(w) \in given[w],
                      reported[w] = <<>>
               PROVE  stage = "inactive" /\ Dropped(w)
    BY DEF NoLostReport
  <2>1. /\ Issued(w) /\ Size(w) \in Nat \ {0}
        /\ \A i \in 1..Size(w) : outcome[w][i] # "underWay"
    BY Sizes DEF Over
  <2>2. ~Refused(w)
    <3> SUFFICES ASSUME Refused(w) PROVE FALSE
      OBVIOUS
    <3>1. 1 \in 1..Size(w) /\ outcome[w][1] = "refused"
      BY <2>1 DEF Refused
    <3>2. Verdict(w) = "error"
      BY <3>1 DEF Verdict
    <3>3. RefusalTold(w)
      BY DEF ReportInv, SingleTold, InOrder, Writes
    <3> QED
      BY <3>2, <3>3 DEF RefusalTold
  <2>3. PICK i \in 1..Size(w) : outcome[w][i] \in Rest
    <3>1. CASE w \in Singles
      BY <2>1, <2>2, <3>1, Sizes DEF ReportInv, SingleTold
    <3>2. CASE w \in Batches
      <4>1. InOrder(w) /\ Size(w) = BatchSize /\ BatchSize \in Nat \ {0}
        BY <3>2, Sizes, OutboundAssumption DEF ReportInv
      <4>2. doneCounter[w] \in Nat /\ errorCounter[w] \in Nat
        BY DEF ReportInv, CounterInv, HandlerTypes
      <4>3. doneCounter[w] + errorCounter[w] < BatchSize
        BY <2>2, <4>1, <4>2 DEF InOrder
      <4> QED
        BY <2>1, <2>2, <4>1, <4>2, <4>3 DEF InOrder
    <3> QED
      BY <3>1, <3>2 DEF Writes
  <2> QED
    BY <2>1, <2>3 DEF Rest, Dropped
<1> QED
  BY <1>1, ReportInvariant, PTL
================================================================================
