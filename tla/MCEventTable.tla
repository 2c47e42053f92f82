---- MODULE MCEventTable ----
(* Small tables: three operations on two descriptors, and short primes. *)
EXTENDS EventTable

OpValues == [o \in Ops |-> CASE o = "read" -> 1 [] o = "write" -> 2 [] OTHER -> 6]
TimedReads == Fds \X {"read"}
SmallPrimes == <<3, 5, 11, 23>>
====
