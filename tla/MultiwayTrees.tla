---------------------------- MODULE MultiwayTrees ----------------------------
(***************************************************************************)
(* The trees of libtree/ with many keys in a node: btree/btree.c,          *)
(* b+tree/b+tree.c and btree_blue/btree_blue.c, each against the same      *)
(* promise, KeySet.  kind says which of them the callers use.              *)
(***************************************************************************)
EXTENDS Integers

CONSTANTS Keys, Nodes,              \* keys inserted, addresses of nodes
          MIN_DEGREE,               \* of the B-tree
          ORDER,                    \* of the B+tree
          LEAF_SLOTS, NODE_SLOTS    \* of btree_blue

VARIABLES kind, node, root, op

vars == <<kind, node, root, op>>

BTree == INSTANCE BTreeProps
BPlus == INSTANCE BPlusProps
Blue == INSTANCE BtreeBlueProps

ASSUME SizesAssumption == BTree!SizesOK /\ BPlus!SizesOK /\ Blue!SizesOK

Init ==
    \/ kind = "btree" /\ BTree!Init
    \/ kind = "b+tree" /\ BPlus!Init
    \/ kind = "blue" /\ Blue!Init

Call(c, k) ==
    /\ \/ kind = "btree" /\ BTree!Call(c, k)
       \/ kind = "b+tree" /\ BPlus!Call(c, k)
       \/ kind = "blue" /\ Blue!Call(c, k)
    /\ UNCHANGED kind

Step ==
    /\ \/ kind = "btree" /\ BTree!Step
       \/ kind = "b+tree" /\ BPlus!Step
       \/ kind = "blue" /\ Blue!Step
    /\ UNCHANGED kind

InTree ==
    CASE kind = "btree" -> BTree!InTree
      [] kind = "b+tree" -> BPlus!InTree
      [] kind = "blue" -> Blue!InTree

-----------------------------------------------------------------------------
\* No BUG_ON is met, and a removal enters no node that could not lose a key.
NoBug ==
    CASE kind = "btree" -> BTree!NoBug
      [] kind = "b+tree" -> BPlus!NoBug
      [] kind = "blue" -> Blue!NoBug

\* Nodes are filled within the limits of each tree, leaves are equally deep, and
\* each node in use has one link to it.
Balanced ==
    CASE kind = "btree" -> BTree!Balanced
      [] kind = "b+tree" -> BPlus!Balanced
      [] kind = "blue" -> Blue!Balanced

\* Keys tell the sub-trees beside them apart, and the leaves that are linked to
\* each other are so in the order of their keys.
InOrder ==
    CASE kind = "btree" -> BTree!Ordered
      [] kind = "b+tree" -> BPlus!Ordered /\ BPlus!LeafListInOrder
      [] kind = "blue" -> Blue!Ordered /\ Blue!IteratesInOrder

\* A lookup of btree_blue finds exactly what is held, the smallest key excepted.
FindsAllButSmallest == kind = "blue" => Blue!FindsAllButSmallest

\* In btree_blue the removal of an absent key takes at most the next smaller one.
AbsentRemovalTakesNeighbour == kind = "blue" => Blue!AbsentRemovalTakesNeighbour

\* Each tree does for its callers what KeySet says.
Set == INSTANCE KeySet WITH
          Ops <- {"insert", "remove", "lookup"},
          keys <- InTree,
          call <- [op |-> op.call, key |-> op.key],
          ans <- op.ret

Implements == Set!Spec

\* Every call of the B-tree and of the B+tree comes to its end: descents, and the
\* removal of a key that goes on with another one.  A call of btree_blue is one
\* step here.
CallsReturn == kind # "blue" /\ op.pc # "idle" ~> op.pc = "idle"
=============================================================================
