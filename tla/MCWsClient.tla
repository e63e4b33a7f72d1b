----------------------------- MODULE MCWsClient -----------------------------
(***************************************************************************)
(* WsClient on small instances.                                            *)
(***************************************************************************)
EXTENDS WsClient

=============================================================================
