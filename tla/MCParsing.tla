----------------------------- MODULE MCParsing ------------------------------
(***************************************************************************)
(* Parsing on small instances.                                             *)
(***************************************************************************)
EXTENDS Parsing

\* Ints at both ends of their range, ids beyond it, doubles with and without a
\* fraction.
MCValues ==
    [int : {0, IntMax, -IntMax - 1}, int64 : {IntMax + 1}, enum : {1},
     double : {2, 3, -5}, bool : BOOLEAN, string : {"text"}]

\* Up to two groups, with characters from both ends of the alphabet.
MCPayloads == UNION {[1..n -> {0, 77, 255}] : n \in 0..4}
MCTexts ==
    UNION {[1..n -> {0, 19, 63, Padding, Other}] : n \in 0..5}
      \cup [1..8 -> {19, Padding, Other}]

=============================================================================
