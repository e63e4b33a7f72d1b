----------------------------- MODULE MCWaitLoop -----------------------------
(***************************************************************************)
(* WaitLoop on small instances.                                            *)
(***************************************************************************)
EXTENDS WaitLoop

=============================================================================
