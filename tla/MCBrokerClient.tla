--------------------------- MODULE MCBrokerClient ---------------------------
(* Two requests in one batch. *)
EXTENDS BrokerClient

CONSTANTS ta, tb

MCBatch == <<ta, tb>>
=============================================================================
