------------------------- MODULE MCTransportWorkers -------------------------
(* Two workers: one with clients and servers, one with clients and files. *)
EXTENDS TransportWorkers

CONSTANTS w1, w2

OpensChannels == (w1 :> {"clients", "servers"}) @@ (w2 :> {"files", "clients"})
=============================================================================
