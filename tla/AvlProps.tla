------------------------------ MODULE AvlProps ------------------------------
(***************************************************************************)
(* What must hold of the AVL tree.                                         *)
(***************************************************************************)
EXTENDS Avl, FiniteSetsExt

Ref == Keys \union {NULL}

AtRest == op.pc = "idle"

\* The keys under each node, itself included.
Under(x) ==
    LET u[y \in Ref] == IF y = NULL THEN {}
                        ELSE {y} \union u[node[y].link[0]] \union u[node[y].link[1]]
    IN u[x]

InTree == Under(root)

IsChild(x, p) == p # NULL /\ \E s \in Side : node[p].link[s] = x

\* The path from the root to the key of the call.
Path == {x \in InTree : op.key \in Under(x)}

-----------------------------------------------------------------------------
\* No BUG() of avl.c is reached, and no NULL is followed: a balance factor is
\* never beyond 2, and an unbalanced node has the nodes a rotation needs.
NoBug ==
    /\ op.pc = "fix" /\ op.from # root => Parent # NULL /\ NewBf \in -2 .. 2
    /\ op.pc = "pivot" =>
          /\ node[op.ub].bf # 0
          /\ Heavy # NULL
          /\ IsDouble => node[Heavy].link[1 - HeavySide] # NULL

\* While do_fix_balance() climbs and a rotation runs, parent links lead from
\* the new node to the root.  Double rotations leave stale links elsewhere; the
\* descent of the insert has put those on its path right.
PathLinked ==
    /\ root # NULL => node[root].up = NULL
    /\ op.pc \in {"fix", "pivot"} =>
          \A x \in Path \ {root} : IsChild(x, node[x].up)

\* The sub-tree that has just become one level higher and is not yet counted in
\* the balance of its ancestors.
Grown == CASE op.pc = "fix" -> op.from
           [] op.pc = "pivot" -> op.ub
           [] OTHER -> NULL

\* The height of x, for those who do not know that sub-tree g has grown.
HeightWithout(x, g) ==
    LET ht[y \in Ref] ==
            IF y = NULL THEN 0
            ELSE Max({ht[node[y].link[0]], ht[node[y].link[1]]})
                   + (IF y = g THEN 0 ELSE 1)
    IN ht[x]

Lean(x, g) ==
    HeightWithout(node[x].link[1], g) - HeightWithout(node[x].link[0], g)

\* At every step of a call bf is the difference of the heights, except that the
\* ancestors of the node the climb has reached do not know yet that it has
\* grown: the climb may stop at a node it balances, and after one rotation,
\* only because of this.
BalanceExact == \A x \in InTree : node[x].bf = Lean(x, Grown)

\* Between calls the tree is an AVL tree: keys are in order and the sub-trees
\* of no node differ by more than one level, so lookups are logarithmic.
AvlShape ==
    AtRest =>
      \A x \in InTree :
         /\ \A k \in Under(node[x].link[0]) : k < x
         /\ \A k \in Under(node[x].link[1]) : k > x
         /\ Lean(x, NULL) \in -1 .. 1
=============================================================================
