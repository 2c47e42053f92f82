------------------------- MODULE MCTransportBuffers -------------------------
(***************************************************************************)
(* TransportBuffers for TLC: all callers but those of ArrayCallers want    *)
(* one buffer, those want one or ArraySize.                                *)
(***************************************************************************)
EXTENDS TransportBuffers

CONSTANTS ArrayCallers, ArraySize

SingleOrArray ==
  [c \in Callers |-> IF c \in ArrayCallers THEN {1, ArraySize} ELSE {1}]
=============================================================================
