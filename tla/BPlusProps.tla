----------------------------- MODULE BPlusProps -----------------------------
(***************************************************************************)
(* What must hold of the B+tree, and the set of keys it stands for.        *)
(***************************************************************************)
EXTENDS BPlus

\* The nodes under x, itself included, and the keys of the leaves among them.
Under(x) ==
    LET u[y \in Nodes] == {y} \union UNION {u[z] : z \in Range(node[y].subl)}
    IN u[x]

Tree == Under(root.node)

KeysUnder(x) == UNION {Range(node[y].slot) : y \in {z \in Under(x) : ~IsInternal(z)}}

InTree == KeysUnder(root.node)

Depth(x) ==
    LET d[y \in Nodes] == IF node[y].subl = <<>> THEN 1
                          ELSE 1 + d[Head(node[y].subl)]
    IN d[x]

\* Every node but the root has at least its minimum of entries, and no node more
\* than MAX_ENTRIES; an internal node has one child more than separators, all
\* equally deep; each node in use has one link to it.
Balanced ==
    /\ Tree = Nodes \ FreeNodes(node)
    /\ \A x \in Tree \ {root.node} :
          Cardinality({y \in Tree : x \in Range(node[y].subl)}) = 1
    /\ \A x \in Tree :
          /\ Entries(x) <= MAX_ENTRIES
          /\ x # root.node => Entries(x) >= MinEntries(x)
          /\ IsInternal(x) =>
                /\ Entries(x) > 0
                /\ Len(node[x].subl) = Entries(x) + 1
                /\ IsInjective(node[x].subl)
                /\ \A y \in Range(node[x].subl) : Depth(x) = 1 + Depth(y)

\* At every step separators tell the keys of the sub-trees beside them apart,
\* those that are left of a removed key included.
Ordered ==
    \A x \in Tree :
      /\ \A i \in 2 .. Entries(x) : node[x].slot[i - 1] < node[x].slot[i]
      /\ \A i \in DOMAIN node[x].subl :
            \A k \in KeysUnder(node[x].subl[i]) :
               /\ i > 1 => node[x].slot[i - 1] <= k
               /\ i <= Entries(x) => k < node[x].slot[i]

\* At every step the list has the leaves of the tree, in the order of their keys.
LeafListInOrder ==
    LET all == FlattenSeq([i \in DOMAIN root.list |-> node[root.list[i]].slot])
    IN /\ Range(root.list) = {x \in Tree : ~IsInternal(x)}
       /\ IsInjective(root.list)
       /\ \A i \in 2 .. Len(all) : all[i - 1] < all[i]

\* No BUG_ON of b+tree.c is met: check_bpn_geometry() of the node searched has its
\* minimum, and two nodes that are merged fit into one.  A removal enters no node
\* it could not take an entry from, and only the root has no parent.
NoBug ==
    /\ op.cur # NULL /\ node[op.cur].parent => Entries(op.cur) >= MinEntries(op.cur)
    /\ Merging => Entries(LeftHere) + Entries(RightHere)
                    + (IF IsInternal(LeftHere) THEN 1 ELSE 0) <= MAX_ENTRIES
    /\ op.pc = "remove" /\ op.cur # root.node => IsGtMin(op.cur)
    /\ \A x \in Tree : x # root.node => node[x].parent
=============================================================================
