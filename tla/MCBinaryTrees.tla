---------------------------- MODULE MCBinaryTrees ----------------------------
(***************************************************************************)
(* BinaryTrees for TLC, with sizes that are in no order, one of them twice *)
(***************************************************************************)
EXTENDS BinaryTrees

Sizes == [k \in Keys |-> 1 + ((k * 3) % 5)]
=============================================================================
