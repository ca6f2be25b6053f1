------------------------------- MODULE MCHash -------------------------------
(***************************************************************************)
(* HashProps for TLC: of five keys and three buckets, four keys go to one  *)
(* bucket, one to another, and none to the last.                           *)
(***************************************************************************)
EXTENDS HashProps

KeysModSize == [k \in Keys |-> (k * k) % hash_size]
=============================================================================
