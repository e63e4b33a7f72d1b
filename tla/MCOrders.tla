------------------------------ MODULE MCOrders ------------------------------
(***************************************************************************)
(* Orders on small instances.                                              *)
(***************************************************************************)
EXTENDS Orders

=============================================================================
