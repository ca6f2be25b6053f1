----------------------------- MODULE SplayProps -----------------------------
(***************************************************************************)
(* What must hold of the splay tree, and the set of keys it stands for.    *)
(***************************************************************************)
EXTENDS Splay

Ref == Keys \union {NULL}

AtRest == op.pc = "idle"

\* The keys under a node, itself included.
Under(x) ==
    LET u[y \in Ref] == IF y = NULL THEN {}
                        ELSE {y} \union u[node[y].link[0]] \union u[node[y].link[1]]
    IN u[x]

\* During a splay the tree is in three pieces, and a removal has a fourth.
InTree ==
    UNION {Under(x) : x \in {root, op.cur, op.victim,
                             node[HEAD].link[0], node[HEAD].link[1]}}

\* Between calls keys left of a node are smaller, keys right of it greater: a
\* splay takes the tree apart and puts it together with neither order nor any
\* key lost.
Ordered ==
    AtRest => \A x \in InTree :
                 /\ \A k \in Under(node[x].link[0]) : k < x
                 /\ \A k \in Under(node[x].link[1]) : k > x

\* Between calls each node is linked from its parent and the root has none,
\* although nodes hang under head and in three trees during a splay; a node that
\* was removed has no links.
LinksAgree ==
    AtRest =>
      /\ root # NULL => node[root].up = NULL
      /\ \A x \in InTree : \A s \in Side :
            node[x].link[s] # NULL => node[node[x].link[s]].up = x
      /\ \A x \in Keys \ InTree : node[x] = NewNode

\* Between calls max_size of every node is the greatest size in its sub-tree:
\* a rotation, the two climbs after the trees are put together, and what an
\* insert or a removal refreshes by hand reach every node whose sub-tree changed.
MaxSizeExact ==
    AtRest => \A x \in InTree : node[x].max = Max({Size[k] : k \in Under(x)})
=============================================================================
