--------------------------- MODULE BufferOwnership ---------------------------
(***************************************************************************)
(* What the buffer pool of a worker promises to its callers, without the   *)
(* stack of ids, the completers and the microtask queue: a set of free     *)
(* buffers, the buffers each call holds, and how many it still wants.      *)
(*                                                                         *)
(* The promise of buffers.dart: a call takes a buffer whenever one is free *)
(* and waits only when none is; it keeps what it already took while it     *)
(* waits for the rest (allocateArray); a buffer goes back only from the    *)
(* call that holds it, and a call that waits gives nothing back.           *)
(***************************************************************************)
EXTENDS Integers, FiniteSets

CONSTANTS Callers,       \* the calls of get/allocate/allocateArray
          BuffersCount,  \* configuration.buffersCount
          Sizes          \* Sizes[c]: how many buffers call c may ask for

Ids == 0..(BuffersCount - 1)

VARIABLES free,  \* the buffers nobody holds
          held,  \* held[c]: the buffers call c holds
          need   \* need[c]: the buffers call c still waits for

ownershipVars == <<free, held, need>>

OwnershipInit ==
  /\ free = Ids
  /\ held = [c \in Callers |-> {}]
  /\ need = [c \in Callers |-> 0]

\* Call c, wanting n buffers, takes as many of them as are free.
Take(c, n) ==
  \E taken \in SUBSET free :
    /\ Cardinality(taken) = n \/ (taken = free /\ Cardinality(free) < n)
    /\ free' = free \ taken
    /\ held' = [held EXCEPT ![c] = @ \cup taken]
    /\ need' = [need EXCEPT ![c] = n - Cardinality(taken)]

Ask(c) ==
  /\ need[c] = 0 /\ held[c] = {}
  /\ \E n \in Sizes[c] : Take(c, n)

Continue(c) ==
  /\ need[c] > 0
  /\ Take(c, need[c])

Return(c) ==
  /\ need[c] = 0
  /\ \E b \in held[c] :
       /\ free' = free \cup {b}
       /\ held' = [held EXCEPT ![c] = @ \ {b}]
  /\ UNCHANGED need

OwnershipNext == \E c \in Callers : Ask(c) \/ Continue(c) \/ Return(c)

OwnershipSpec == OwnershipInit /\ [][OwnershipNext]_ownershipVars
=============================================================================
