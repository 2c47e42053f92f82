-------------------------- MODULE ChannelLifecycle --------------------------
(***************************************************************************)
(* What a channel promises about its descriptor, without the event table,  *)
(* the counters and the completers: operations start only while it is      *)
(* open, close() lets the ones under way end, and the descriptor goes only *)
(* when none is left, exactly once.                                        *)
(***************************************************************************)
CONSTANT Operations

VARIABLES stage,  \* "open", "closing" or "closed"
          under   \* the operations under way

lifecycleVars == <<stage, under>>

LifecycleInit == stage = "open" /\ under = {}

Start ==
  /\ stage = "open"
  /\ \E ops \in SUBSET (Operations \ under) : under' = under \cup ops
  /\ UNCHANGED stage

\* An operation ends; what it reports may make the channel close itself.
Finish ==
  /\ \E op \in under : under' = under \ {op}
  /\ \/ UNCHANGED stage
     \/ stage = "open" /\ stage' = "closing"
     \/ stage = "open" /\ under' = {} /\ stage' = "closed"

BeginClose ==
  /\ stage = "open"
  /\ stage' = "closing" \/ (under = {} /\ stage' = "closed")
  /\ UNCHANGED under

EndClose ==
  /\ stage = "closing" /\ under = {}
  /\ stage' = "closed"
  /\ UNCHANGED under

LifecycleNext == Start \/ Finish \/ BeginClose \/ EndClose

LifecycleSpec == LifecycleInit /\ [][LifecycleNext]_lifecycleVars
=============================================================================
