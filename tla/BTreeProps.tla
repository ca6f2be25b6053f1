----------------------------- MODULE BTreeProps -----------------------------
(***************************************************************************)
(* What must hold of the B-tree, and the set of keys it stands for.        *)
(***************************************************************************)
EXTENDS BTree

\* The nodes under x, itself included, and how many links lead to each.
Under(x) ==
    LET u[y \in Nodes] == {y} \union UNION {u[z] : z \in Range(node[y].links)}
    IN u[x]

KeysUnder(x) == UNION {Range(node[y].slot) : y \in Under(x)}

\* A key counts as held until its removal is over; once a neighbour has taken its
\* place the neighbour is there twice.
InTree ==
    KeysUnder(root)
      \union IF op.pc \in {"remove", "take"} /\ op.val # op.key THEN {op.key} ELSE {}

Depth(x) ==
    LET d[y \in Nodes] == IF node[y].links = <<>> THEN 1
                          ELSE 1 + d[Head(node[y].links)]
    IN d[x]

\* At every step, every node but the root has at least MIN_NODE_SLOTS keys, no
\* node more than MAX_NODE_SLOTS, a node with keys has one child more than keys,
\* or none, all children of a node are equally deep, and each node in use has
\* one link to it: nothing is leaked, or freed and still linked.
Balanced ==
    /\ Under(root) = {x \in Nodes : node[x].used}
    /\ \A x \in Under(root) \ {root} :
          Cardinality({y \in Under(root) : x \in Range(node[y].links)}) = 1
    /\ \A x \in Under(root) :
          /\ slot_len(x) <= MAX_NODE_SLOTS
          /\ x # root => slot_len(x) >= MIN_NODE_SLOTS
          /\ ~IsLeaf(node, x) =>
                /\ slot_len(x) > 0
                /\ Len(node[x].links) = slot_len(x) + 1
                /\ IsInjective(node[x].links)
                /\ \A y \in Range(node[x].links) : Depth(x) = 1 + Depth(y)

\* Between calls the keys of a node increase and are between those of the
\* children around them.
Ordered ==
    op.pc = "idle" =>
      \A x \in Under(root) :
        /\ \A i \in 2 .. slot_len(x) : node[x].slot[i - 1] < node[x].slot[i]
        /\ \A i \in DOMAIN node[x].links :
              \A k \in KeysUnder(node[x].links[i]) :
                 /\ i > 1 => node[x].slot[i - 1] < k
                 /\ i <= slot_len(x) => k < node[x].slot[i]

\* No BUG_ON of btree.c is met and the fixed numbers of entries it copies are
\* those the nodes have: two nodes are only merged with MIN_NODE_SLOTS keys each,
\* a removal enters no node it could not take a key from, and it finds the key
\* where it says it is.
NoBug ==
    LET MergesRightly(p, i) ==
            \A x \in {Child(p, MergeIndex(p, i)), Child(p, MergeIndex(p, i) + 1)} :
               slot_len(x) = MIN_NODE_SLOTS
    IN /\ MergesDown => MergesRightly(op.cur, Below)
       /\ MergesAround => MergesRightly(op.cur, op.idx)
       /\ op.pc \in {"remove", "take"} /\ op.cur # root => IsGtMin(op.cur)
       /\ op.pc = "take" => Has(op.cur, op.val) /\ Below = op.idx
       /\ op.pc = "remove" /\ op.val # op.key => op.val \in KeysUnder(op.cur)
=============================================================================
