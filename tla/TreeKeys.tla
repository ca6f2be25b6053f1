------------------------------ MODULE TreeKeys ------------------------------
(***************************************************************************)
(* The keys of the nodes that callers of a search tree may insert, and the *)
(* sizes that their nodes have in the splay tree.                          *)
(***************************************************************************)
EXTENDS Integers

CONSTANTS Keys,     \* the keys: the code of the trees compares them as numbers
          Size      \* the size of the node of each key, for max_size

NULL == 0

ASSUME KeysAssumption == Keys \subseteq Nat \ {NULL} /\ Size \in [Keys -> Nat]
=============================================================================
