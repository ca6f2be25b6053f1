----------------------------- MODULE BinaryTrees -----------------------------
(***************************************************************************)
(* The binary trees of libtree/: avltree/avl.c, bstree/bstree.c and        *)
(* splaytree/splay.c, each against the same promise, KeySet.  kind says    *)
(* which of them the callers use.                                          *)
(***************************************************************************)
EXTENDS TreeKeys

CONSTANTS AvlKeys       \* the keys inserted into the AVL tree

VARIABLES kind, node, root, op

vars == <<kind, node, root, op>>

Avl == INSTANCE AvlProps WITH Keys <- AvlKeys
Bst == INSTANCE BstProps
Splay == INSTANCE SplayProps

ASSUME TreesAssumption == Avl!KeysOK /\ Bst!KeysOK

Init ==
    \/ kind = "avl" /\ Avl!Init
    \/ kind = "bst" /\ Bst!Init
    \/ kind = "splay" /\ Splay!Init

Step ==
    /\ \/ kind = "avl" /\ Avl!Step
       \/ kind = "bst" /\ Bst!Step
       \/ kind = "splay" /\ Splay!Step
    /\ UNCHANGED kind

Next ==
    /\ \/ kind = "avl" /\ Avl!Next
       \/ kind = "bst" /\ Bst!Next
       \/ kind = "splay" /\ Splay!Next
    /\ UNCHANGED kind

\* A call that has started runs to its end.
Spec == Init /\ [][Next]_vars /\ WF_vars(Step)

-----------------------------------------------------------------------------
\* Smaller keys are left of a node, greater ones right of it; in the AVL tree no
\* two sub-trees of a node differ by more than a level between calls.
Ordered ==
    CASE kind = "avl" -> Avl!AvlShape
      [] kind = "bst" -> Bst!Ordered
      [] kind = "splay" -> Splay!Ordered

\* The parent links each tree follows lead where the child links come from: in
\* the AVL tree those on the path a climb takes, in the others all.
LinksAgree ==
    CASE kind = "avl" -> Avl!PathLinked
      [] kind = "bst" -> Bst!LinksAgree
      [] kind = "splay" -> Splay!LinksAgree

\* The balance factors of the AVL tree are exact at every step, no rotation meets
\* a BUG() or a node that is not there.
BalanceExact == kind = "avl" => Avl!BalanceExact /\ Avl!NoBug

\* max_size of the splay tree is the maximum of each sub-tree.
MaxSizeExact == kind = "splay" => Splay!MaxSizeExact

\* The keys the tree holds.
Held ==
    CASE kind = "avl" -> Avl!InTree
      [] kind = "bst" -> Bst!InTree
      [] kind = "splay" -> Splay!InTree

\* Each tree does for its callers what KeySet says.
Set == INSTANCE KeySet WITH
          Keys <- Keys \union AvlKeys,
          Ops <- {"insert", "remove", "lookup"},
          keys <- Held,
          call <- [op |-> op.call, key |-> op.key],
          ans <- op.ret

Implements == Set!Spec

\* Every call comes to its end.
CallsReturn == op.pc # "idle" ~> op.pc = "idle"
=============================================================================
