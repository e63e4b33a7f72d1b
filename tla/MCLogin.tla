------------------------------ MODULE MCLogin -------------------------------
(***************************************************************************)
(* Login on small instances.                                               *)
(***************************************************************************)
EXTENDS Login

MCOwner == [a |-> "alice", b |-> "bob"]
MCOneOwner == [a |-> "alice"]

=============================================================================
