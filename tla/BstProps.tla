------------------------------ MODULE BstProps ------------------------------
(***************************************************************************)
(* What must hold of the binary search tree.                               *)
(***************************************************************************)
EXTENDS Bst

\* The keys under a node, itself included.
Under(x) ==
    LET u[y \in Ref] == IF y = NULL THEN {}
                        ELSE {y} \union u[node[y].link[0]] \union u[node[y].link[1]]
    IN u[x]

InTree == Under(root)

\* At every step of every call, each node is linked from its parent, by the one
\* link, the root has no parent, and a node that is not in the tree has no links
\* left: the surgery of a removal has up to six of them to set, and the next
\* removal follows them.
LinksAgree ==
    /\ root # NULL => node[root].up = NULL
    /\ \A x \in InTree : \A s \in Side :
          node[x].link[s] # NULL => node[node[x].link[s]].up = x
    /\ \A x \in Keys \ InTree : node[x] = NewNode

\* Keys left of a node are smaller, keys right of it greater: the successor is
\* the only node that may take the place of one with two children.
Ordered ==
    \A x \in InTree :
       /\ \A k \in Under(node[x].link[0]) : k < x
       /\ \A k \in Under(node[x].link[1]) : k > x
=============================================================================
