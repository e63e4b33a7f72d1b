----------------------------- MODULE MCCandles ------------------------------
(***************************************************************************)
(* Candles on small instances.                                             *)
(***************************************************************************)
EXTENDS Candles

MCCharted == {[open |-> 2, high |-> 3, low |-> 1, close |-> 3],
              [open |-> 3, high |-> 3, low |-> 1, close |-> 1]}

=============================================================================
