------------------------------- MODULE EventMap -------------------------------
(***************************************************************************)
(* What the event table of a worker promises: a set of keys.  A key is the *)
(* user_data of a request, <<descriptor, operation>>; some have a timeout. *)
(* While the table is being resized (settled is FALSE) an operation that   *)
(* deletes many keys promises only to add none.                            *)
(***************************************************************************)
CONSTANTS Fds, Ops, Timed

VARIABLES entries, settled

mapVars == <<entries, settled>>

Keys == Fds \X Ops

Add(key) == entries' = entries \cup {key}

Remove(key) == entries' = entries \ {key}

\* All keys of one descriptor go together.
Cancel(fd) == settled /\ entries' = entries \ ({fd} \X Ops)

\* Any keys that have a timeout go together.
Expire ==
  /\ settled
  /\ entries' \subseteq entries
  /\ entries \ entries' \subseteq Timed

DeleteUnsettled == ~settled /\ entries' \subseteq entries

Init == entries = {} /\ settled = TRUE

Next ==
  /\ settled' \in BOOLEAN
  /\ \/ \E key \in Keys : Add(key) \/ Remove(key)
     \/ \E fd \in Fds : Cancel(fd)
     \/ Expire
     \/ DeleteUnsettled

Spec == Init /\ [][Next]_mapVars
=============================================================================
