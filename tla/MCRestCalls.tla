---------------------------- MODULE MCRestCalls ----------------------------
(***************************************************************************)
(* RestCalls on small instances.                                           *)
(***************************************************************************)
EXTENDS RestCalls

=============================================================================
