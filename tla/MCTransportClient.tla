-------------------------- MODULE MCTransportClient --------------------------
(***************************************************************************)
(* TransportClient for TLC.  The buffers and the calls of the user are     *)
(* interchangeable in every safety property; the liveness runs use no      *)
(* symmetry.                                                               *)
(***************************************************************************)
EXTENDS TransportClient, TLC

InterchangeableBuffersAndCalls == Permutations(Buffers) \cup Permutations(Calls)
=============================================================================
