--------------------------- MODULE BtreeBlueProps ---------------------------
(***************************************************************************)
(* What must hold of the tree of btree_blue.c between calls, and what does *)
(* not.                                                                    *)
(***************************************************************************)
EXTENDS BtreeBlue

InTree == KeysHeld

AtRest == op.pc = "idle"

RECURSIVE NodesUnder(_)
NodesUnder(x) == {x} \union UNION {NodesUnder(y) : y \in Range(node[x].val)}

InUse == IF root.node = NULL THEN {} ELSE NodesUnder(root.node)

KeysUnder(x) ==
    UNION {Range(node[y].key) : y \in {z \in NodesUnder(x) : node[z].val = <<>>}}

RECURSIVE Depth(_)
Depth(x) == IF node[x].val = <<>> THEN 1 ELSE 1 + Depth(node[x].val[1])

\* No BUG_ON of btree_blue.c is met: no key twice in a node, no empty inner node,
\* room in the node a slot goes to, one slot left in a root that goes, and a key
\* that leads a rebalancing to the node it came from.
NoBug == ~op.bug

\* Each node in use has one link to it, and none is leaked.  No node has more
\* slots than room, and none but a root leaf is empty although only the emptied
\* and the nearly empty are merged; an inner root has two children; all leaves
\* are at the bottom.
Balanced ==
    AtRest =>
      /\ InUse = {x \in Nodes : node[x].used}
      /\ root.node # NULL => Depth(root.node) = root.height
      /\ \A x \in InUse :
           /\ Slots(Tree, x) <= Volume(Depth(x))
           /\ Slots(Tree, x) = 0 => x = root.node /\ root.height = 1
           /\ \A y \in Range(node[x].val) : Depth(y) = Depth(x) - 1
           /\ node[x].val # <<>> => /\ Len(node[x].val) = Slots(Tree, x)
                                    /\ IsInjective(node[x].val)
                                    /\ x = root.node => Slots(Tree, x) > 1
           /\ x # root.node =>
                Cardinality({y \in InUse : x \in Range(node[y].val)}) = 1

\* Keys of a node decrease, and tell the keys under the children apart; only the
\* smallest key of all may be below the bound of the children it is under.
Ordered ==
    AtRest =>
      \A x \in InUse :
         /\ \A i \in 2 .. Slots(Tree, x) : node[x].key[i - 1] > node[x].key[i]
         /\ \A i \in DOMAIN node[x].val : \A k \in KeysUnder(node[x].val[i]) :
               /\ k >= node[x].key[i] \/ k = Min(InTree)
               /\ i > 1 => k < node[x].key[i - 1]

\* A lookup finds exactly the keys that were inserted and not removed, but may
\* miss the smallest.
FindsAllButSmallest ==
    AtRest =>
      \A k \in Keys :
         IF k \in InTree THEN IsFound(Tree, k) \/ k = Min(InTree)
                         ELSE ~IsFound(Tree, k)

\* From a key that is found, get_next goes to the next greater key and get_prev
\* to the next smaller, over the links between leaves that splits, merges and
\* dropped leaves have left.  Unless the tree is empty first and last go to the
\* smallest and the greatest key of all.
IteratesInOrder ==
    AtRest /\ InTree # {} =>
      /\ FirstKey(Tree) = Min(InTree)
      /\ LastKey(Tree) = Max(InTree)
      /\ \A k \in InTree :
         IsFound(Tree, k) =>
           LET Greater == {j \in InTree : j > k}
           IN /\ GetNext(Tree, k) = IF Greater = {} THEN NULL ELSE Min(Greater)
              /\ GetPrev(Tree, k) = Max({NULL} \union {j \in InTree : j < k})

\* The removal of a key that is not there, which btree_blue_remove() does not
\* refuse, meets no BUG_ON, and takes out nothing but, perhaps, the next smaller
\* key.
AbsentRemovalTakesNeighbour ==
    AtRest /\ root.height > 0 =>
      \A k \in Keys \ InTree :
         LET t == RemoveLevel(Tree, k, k, 1)
             left == UNION {Range(t.n[x].key) : x \in {y \in Nodes : t.n[y].val = <<>>}}
         IN /\ ~t.bug
            /\ left \subseteq InTree
            /\ InTree \ left \subseteq {Max({NULL} \union {j \in InTree : j < k})}

\* "right-most key is too large, update it" (find_level()): the bound of the last
\* child is not above the keys under it, so that a lookup gets there.
RightMostUpdated ==
    AtRest =>
      \A x \in InUse :
         node[x].val # <<>> => \A k \in KeysUnder(x) : k >= Last(node[x].key)
=============================================================================
