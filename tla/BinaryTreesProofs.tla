------------------------- MODULE BinaryTreesProofs -------------------------
(***************************************************************************)
(* Proofs about the binary trees, for every set of keys.  The links of the *)
(* binary search tree agree, its keys are in order, and it implements a    *)
(* set of keys; so does the splay tree, from what SplayProofs says of its  *)
(* steps, and its max_size is exact; and what holds of each of the three   *)
(* trees holds of whichever the callers use.                               *)
(***************************************************************************)
EXTENDS AvlProofs

BstNode == [link : [{0, 1} -> Keys \union {0}], up : Keys \union {0}]

\* The parent links agree with the links to the children in the tree of root r,
\* whose keys are T, and no other node has a link.
UpLinked(h, r, T) ==
    /\ r # 0 => h[r].up = 0
    /\ \A x \in T : \A s \in {0, 1} :
          h[x].link[s] # 0 => h[h[x].link[s]].up = x
    /\ \A x \in Keys \ T : h[x] = Bst!NewNode

BstTree(h, r, sub) ==
    /\ h \in [Keys -> BstNode]
    /\ r \in Keys \union {0}
    /\ SearchTree(Keys, h, sub)
    /\ UpLinked(h, r, sub[r])

\* What a call knows: where the key can still be, and, in a removal, which nodes
\* the surgery is about.
BstOp(o, h, r, sub) ==
    /\ o \in [pc : {"idle", "insert", "find", "unlink", "smallest", "swap", "done"},
              call : {"none", "insert", "remove", "lookup"},
              key : Keys \union {0}, cur : Keys \union {0},
              victim : Keys \union {0}, s : Keys \union {0},
              ret : {"none", "yes", "no"}]
    /\ o.pc = "idle" <=> o.call = "none"
    /\ o.pc = "idle" <=> o.key = 0
    /\ o.pc = "done" <=> o.ret # "none"
    /\ o.pc = "insert" =>
          /\ o.call = "insert"
          /\ IF r = 0 THEN o.cur = 0 ELSE OnWay(sub, r, o.key, o.cur)
    /\ o.pc = "find" =>
          /\ o.call \in {"remove", "lookup"}
          /\ IF o.cur = 0 THEN o.key \notin sub[r] ELSE OnWay(sub, r, o.key, o.cur)
    /\ o.pc \in {"unlink", "smallest", "swap"} =>
          o.call = "remove" /\ o.victim = o.key /\ o.key \in sub[r]
    /\ o.pc = "unlink" => \E s \in {0, 1} : h[o.key].link[s] = 0
    /\ o.pc \in {"smallest", "swap"} =>
          /\ h[o.key].link[0] # 0
          /\ o.s \in sub[h[o.key].link[1]]
          /\ \A x \in sub[h[o.key].link[1]] \ sub[o.s] : x > o.s
    /\ o.pc = "swap" => h[o.s].link[0] = 0

BstInv == \E sub : BstTree(node, root, sub) /\ BstOp(op, node, root, sub)

-----------------------------------------------------------------------------
(***************************************************************************)
(* The helpers of the surgery.                                             *)
(***************************************************************************)
LEMMA BstKeysFacts == Keys \subseteq Nat \ {0} /\ 0 \notin Keys
  BY TreesAssumption DEF Bst!KeysOK, Bst!NULL

\* A node that is linked nowhere is a new one.
LEMMA BstBlank ==
    ASSUME NEW n \in BstNode, n.up = 0, \A t \in {0, 1} : n.link[t] = 0
    PROVE  n = Bst!NewNode
<1>1. n.link = [t \in {0, 1} |-> n.link[t]]
      BY DEF BstNode
<1>2. n.link = [t \in {0, 1} |-> 0]
      BY <1>1
<1>3. n = [link |-> n.link, up |-> n.up]
      BY DEF BstNode
<1> QED BY <1>2, <1>3 DEF Bst!NewNode, Bst!NULL, Bst!Side

LEMMA BstNewNodeIs ==
    /\ Bst!NewNode \in BstNode
    /\ Bst!NewNode.up = 0
    /\ \A t \in {0, 1} : Bst!NewNode.link[t] = 0
  BY DEF Bst!NewNode, BstNode, Bst!NULL, Bst!Side

\* g is h but for the parent of x, if x is a node.
BstUpSet(h, x, p, g) ==
    /\ g \in [Keys -> BstNode]
    /\ \A y \in Keys :
          /\ g[y].link = h[y].link
          /\ g[y].up = IF y = x THEN p ELSE h[y].up

LEMMA BstSetUpIs ==
    ASSUME NEW h \in [Keys -> BstNode], NEW x \in Keys \union {0},
           NEW p \in Keys \union {0}
    PROVE  BstUpSet(h, x, p, Bst!SetUp(h, x, p))
  BY BstKeysFacts DEF BstUpSet, Bst!SetUp, BstNode, Bst!NULL

\* Only p links to x, if anything does, and by the link bst_remove() takes.
BstOnlyFrom(h, p, x) ==
    /\ p \in Keys \union {0}
    /\ \A y \in Keys, t \in {0, 1} : h[y].link[t] = x =>
          y = p /\ t = IF h[p].link[0] = x THEN 0 ELSE 1
    /\ p # 0 => \E t \in {0, 1} : h[p].link[t] = x

\* Where only the parent p links to x, new takes the place of x.
LEMMA BstReplaceIs ==
    ASSUME NEW h \in [Keys -> BstNode], NEW p, NEW x \in Keys,
           NEW new \in Keys \union {0}, BstOnlyFrom(h, p, x)
    PROVE  /\ Bst!Replace(h, p, x, new) \in [Keys -> BstNode]
           /\ \A y \in Keys :
                 /\ Bst!Replace(h, p, x, new)[y].up = h[y].up
                 /\ \A t \in {0, 1} : Bst!Replace(h, p, x, new)[y].link[t] =
                       IF h[y].link[t] = x THEN new ELSE h[y].link[t]
<1> USE DEF BstOnlyFrom
<1>1. CASE p = 0
  <2>1. Bst!Replace(h, p, x, new) = h
        BY <1>1 DEF Bst!Replace, Bst!NULL
  <2>2. \A y \in Keys, t \in {0, 1} : h[y].link[t] # x
        BY <1>1, BstKeysFacts
  <2> QED BY <2>1, <2>2
<1>2. CASE p # 0
  <2> DEFINE i == IF h[p].link[0] = x THEN 0 ELSE 1
             g == [h EXCEPT ![p].link[i] = new]
  <2>1. Bst!Replace(h, p, x, new) = g
        BY <1>2 DEF Bst!Replace, Bst!NULL
  <2>2. p \in Keys /\ i \in {0, 1} /\ h[p].link[i] = x
        BY <1>2
  <2> HIDE DEF i
  <2>3. /\ g \in [Keys -> BstNode]
        /\ \A y \in Keys : g[y].up = h[y].up
        /\ \A y \in Keys, t \in {0, 1} :
              g[y].link[t] = IF y = p /\ t = i THEN new ELSE h[y].link[t]
        BY <2>2 DEF BstNode
  <2>4. \A y \in Keys, t \in {0, 1} : h[y].link[t] = x => y = p /\ t = i
        BY DEF i
  <2> QED BY <2>1, <2>2, <2>3, <2>4
<1> QED BY <1>1, <1>2

\* A node of the tree is linked from its parent, and from nowhere else.
LEMMA ParentOf ==
    ASSUME NEW h, NEW r, NEW sub, BstTree(h, r, sub), NEW x \in sub[r]
    PROVE  /\ x \in Keys /\ r \in Keys /\ r \in sub[r]
           /\ h[x].up \in Keys \union {0}
           /\ h[x].up = 0 <=> x = r
           /\ h[x].up # 0 => /\ h[x].up \in sub[r] /\ h[x].up # x
                             /\ x \in sub[h[x].up]
           /\ BstOnlyFrom(h, h[x].up, x)
<1>1. /\ h \in [Keys -> BstNode] /\ SearchTree(Keys, h, sub)
      /\ UpLinked(h, r, sub[r]) /\ r \in Keys \union {0}
      BY DEF BstTree
<1>2. r \in Keys /\ x \in Keys /\ r # 0 /\ x # 0 /\ r \in sub[r]
  <2>1. sub[0] = {} BY <1>1 DEF SearchTree
  <2>2. r \in Keys BY <1>1, <2>1
  <2> QED BY <1>1, <2>2, NodeFacts
<1>3. h[x].up \in Keys \union {0}
      BY <1>1, <1>2 DEF BstNode
<1>4. \A y \in Keys, t \in {0, 1} : h[y].link[t] = x => y \in sub[r] /\ h[x].up = y
  <2>1. \A y \in Keys \ sub[r], t \in {0, 1} : h[y].link[t] = 0
        BY <1>1, BstNewNodeIs DEF UpLinked
  <2> QED BY <1>1, <1>2, <2>1 DEF UpLinked
<1>5. h[r].up = 0
      BY <1>1, <1>2 DEF UpLinked
<1>6. ASSUME x # r
      PROVE  /\ h[x].up \in sub[r] /\ h[x].up # x /\ x \in sub[h[x].up]
             /\ \E t \in {0, 1} : h[h[x].up].link[t] = x
             /\ h[x].up # 0
  <2>1. PICK p \in sub[r], t \in {0, 1} : h[p].link[t] = x
        BY <1>1, <1>2, <1>6, HasParent
  <2>2. p \in Keys
        BY <1>1, <1>2, NodeFacts
  <2>3. h[x].up = p
        BY <1>4, <2>1, <2>2
  <2>4. p # 0 /\ p # x /\ x \in sub[p]
        BY <1>1, <1>2, <2>1, <2>2, NodeFacts
  <2> QED BY <2>1, <2>3, <2>4
<1>7. ASSUME NEW y \in Keys, NEW t \in {0, 1}, h[y].link[t] = x
      PROVE  t = IF h[y].link[0] = x THEN 0 ELSE 1
  <2>1. h[y].link[0] = x /\ h[y].link[1] = x => FALSE
    <3> SUFFICES ASSUME h[y].link[0] = x, h[y].link[1] = x PROVE FALSE
        OBVIOUS
    <3>1. x \in sub[h[y].link[0]] /\ x \in sub[h[y].link[1]]
          BY <1>1, <1>2, NodeFacts
    <3> QED BY <1>1, <3>1, OneSide
  <2> QED BY <1>7, <2>1
<1>8. BstOnlyFrom(h, h[x].up, x)
      BY <1>3, <1>4, <1>5, <1>6, <1>7 DEF BstOnlyFrom
<1> QED BY <1>2, <1>3, <1>5, <1>6, <1>8

-----------------------------------------------------------------------------
(***************************************************************************)
(* The surgery on a victim v with at most one child.                       *)
(***************************************************************************)
Unlinked(h, v, kid) ==
    [Bst!SetUp(Bst!Replace(h, h[v].up, v, kid), kid, h[v].up)
       EXCEPT ![v] = Bst!NewNode]

\* What the nodes are after it.
LEMMA UnlinkNodes ==
    ASSUME NEW h \in [Keys -> BstNode], NEW v \in Keys, NEW kid \in Keys \union {0},
           BstOnlyFrom(h, h[v].up, v)
    PROVE  /\ Unlinked(h, v, kid) \in [Keys -> BstNode]
           /\ Unlinked(h, v, kid)[v] = Bst!NewNode
           /\ \A x \in Keys \ {v} :
                 /\ Unlinked(h, v, kid)[x].up = IF x = kid THEN h[v].up ELSE h[x].up
                 /\ \A t \in {0, 1} : Unlinked(h, v, kid)[x].link[t] =
                       IF h[x].link[t] = v THEN kid ELSE h[x].link[t]
<1> DEFINE f == Bst!Replace(h, h[v].up, v, kid)
           u == Bst!SetUp(f, kid, h[v].up)
<1>1. /\ f \in [Keys -> BstNode]
      /\ \A y \in Keys :
            /\ f[y].up = h[y].up
            /\ \A t \in {0, 1} : f[y].link[t] = IF h[y].link[t] = v THEN kid
                                                ELSE h[y].link[t]
      BY BstReplaceIs
<1>2. /\ u \in [Keys -> BstNode]
      /\ \A y \in Keys : u[y].link = f[y].link
                         /\ u[y].up = IF y = kid THEN h[v].up ELSE f[y].up
  <2>1. h[v].up \in Keys \union {0} BY DEF BstNode
  <2> HIDE DEF f
  <2> QED BY <1>1, <2>1, BstSetUpIs, SMTT(30) DEF BstUpSet
<1>3. Unlinked(h, v, kid) = [u EXCEPT ![v] = Bst!NewNode]
      BY DEF Unlinked
<1> HIDE DEF f, u
<1> QED BY <1>1, <1>2, <1>3, BstNewNodeIs

\* What the tree is after it.
LEMMA UnlinkTree ==
    ASSUME NEW h, NEW r, NEW sub, BstTree(h, r, sub), NEW v \in sub[r],
           NEW i \in {0, 1}, h[v].link[1 - i] = 0,
           NEW kid, kid = h[v].link[i],
           NEW q, q = IF h[v].up = 0 THEN kid ELSE r
    PROVE  /\ BstTree(Unlinked(h, v, kid), q, Without(sub, v))
           /\ Without(sub, v)[q] = sub[r] \ {v}
<1> DEFINE new == Without(sub, v)
           g == Unlinked(h, v, kid)
<1>1. /\ h \in [Keys -> BstNode] /\ SearchTree(Keys, h, sub)
      /\ v \in Keys /\ r \in Keys /\ r \in sub[r]
      /\ h[v].up \in Keys \union {0} /\ (h[v].up = 0 <=> v = r)
      /\ kid \in Keys \union {0} /\ kid # v
      /\ \A x \in Keys : h[x] \in BstNode
  <2>1. /\ v \in Keys /\ r \in Keys /\ r \in sub[r]
        /\ h[v].up \in Keys \union {0} /\ (h[v].up = 0 <=> v = r)
        BY ParentOf
  <2>2. h \in [Keys -> BstNode] /\ SearchTree(Keys, h, sub)
        BY DEF BstTree
  <2>3. kid \in Keys \union {0} /\ kid # v
        BY <2>1, <2>2, NodeFacts
  <2> QED BY <2>1, <2>2, <2>3
<1>2. /\ r # 0 => h[r].up = 0
      /\ \A x \in sub[r] : \A s \in {0, 1} :
            h[x].link[s] # 0 => h[h[x].link[s]].up = x
      /\ \A x \in Keys \ sub[r] : h[x] = Bst!NewNode
      BY DEF BstTree, UpLinked
<1>3. /\ g \in [Keys -> BstNode] /\ g[v] = Bst!NewNode
      /\ \A x \in Keys \ {v} :
            /\ g[x].up = IF x = kid THEN h[v].up ELSE h[x].up
            /\ \A t \in {0, 1} :
                  g[x].link[t] = IF h[x].link[t] = v THEN kid ELSE h[x].link[t]
      BY <1>1, ParentOf, UnlinkNodes
<1> HIDE DEF g
<1>4. SearchTree(Keys, g, new)
  <2>1. LinksCut(Keys, h, g, v, h[v].link[i])
        BY <1>3, BstNewNodeIs DEF LinksCut
  <2> QED BY <1>1, <2>1, CutOut
<1>5. kid # 0 => kid \in sub[r] /\ h[kid].up = v
  <2>1. kid # 0 => kid \in sub[h[v].link[i]] /\ sub[h[v].link[i]] \subseteq sub[v]
        BY <1>1, NodeFacts
  <2>2. sub[v] \subseteq sub[r]
        BY <1>1, SubTrans
  <2>3. kid # 0 => h[kid].up = v
        BY <1>2
  <2> QED BY <2>1, <2>2, <2>3
<1>6. new[q] = sub[r] \ {v} /\ q \in Keys \union {0} /\ q # v
  <2>1. DOMAIN sub = Keys \union {0} /\ sub[0] = {}
        BY <1>1 DEF SearchTree
  <2>2. CASE v = r
    <3>1. q = kid /\ new[q] = sub[kid] \ {v}
          BY <1>1, <2>1, <2>2, Zenon DEF Without
    <3>2. sub[r] = {v} \union sub[h[v].link[0]] \union sub[h[v].link[1]]
          BY <1>1, <2>2 DEF SearchTree
    <3>3. sub[r] = {v} \union sub[kid]
      <4>1. CASE i = 0 BY <2>1, <3>2, <4>1
      <4>2. CASE i = 1 BY <2>1, <3>2, <4>2
      <4> QED BY <4>1, <4>2
    <3> QED BY <1>1, <3>1, <3>3
  <2>3. CASE v # r
        BY <1>1, <2>1, <2>3, Zenon DEF Without
  <2> QED BY <2>2, <2>3
<1>7. q # 0 => g[q].up = 0
  <2>1. CASE v = r
        BY <1>1, <1>3, <1>6, <2>1
  <2>2. CASE v # r
    <3>1. r # 0 /\ h[r].up = 0 /\ q = r
          BY <1>1, <1>2, <2>2, BstKeysFacts
    <3>2. r # kid
          BY <1>1, <1>5, <3>1, BstKeysFacts
    <3> QED BY <1>1, <1>3, <3>1, <3>2, <2>2
  <2> QED BY <2>1, <2>2
<1>8. ASSUME NEW x \in sub[r] \ {v}, NEW t \in {0, 1}, g[x].link[t] # 0
      PROVE  g[g[x].link[t]].up = x
  <2>1. x \in Keys /\ h[x].link[t] \in Keys \union {0}
    <3>1. x \in Keys BY ParentOf
    <3> QED BY <1>1, <3>1, NodeFacts
  <2>2. CASE h[x].link[t] = v
    <3>1. g[x].link[t] = kid /\ kid \in Keys
          BY <1>1, <1>3, <1>8, <2>1, <2>2
    <3>2. h[v].up = x
          BY <1>1, <1>2, <2>2, BstKeysFacts
    <3> QED BY <1>1, <1>3, <3>1, <3>2
  <2>3. CASE h[x].link[t] # v
    <3>1. /\ g[x].link[t] = h[x].link[t] /\ h[x].link[t] \in Keys
          /\ h[x].link[t] # 0
          BY <1>3, <1>8, <2>1, <2>3
    <3>2. h[h[x].link[t]].up = x
          BY <1>2, <3>1
    <3>3. h[x].link[t] # kid
          BY <1>5, <3>1, <3>2
    <3> QED BY <1>3, <2>3, <3>1, <3>2, <3>3
  <2> QED BY <2>2, <2>3
<1>9. ASSUME NEW x \in Keys, x \notin sub[r] \ {v}
      PROVE  g[x] = Bst!NewNode
  <2>1. CASE x = v BY <1>3, <2>1
  <2>2. CASE x # v
    <3>1. /\ h[x].up = 0 /\ \A t \in {0, 1} : h[x].link[t] = 0
          BY <1>2, <1>9, <2>2, BstNewNodeIs
    <3>2. x # kid
          BY <1>5, <1>9, <2>2, BstKeysFacts
    <3>3. v # 0
          BY <1>1, BstKeysFacts
    <3>4. g[x].up = 0 /\ \A t \in {0, 1} : g[x].link[t] = 0
          BY <1>3, <2>2, <3>1, <3>2, <3>3
    <3>5. g[x] \in BstNode
          BY <1>3
    <3> QED BY <3>4, <3>5, BstBlank
  <2> QED BY <2>1, <2>2
<1>10. UpLinked(g, q, new[q])
  <2> HIDE DEF new
  <2> QED BY <1>6, <1>7, <1>8, <1>9 DEF UpLinked
<1>11. BstTree(g, q, new)
  <2> HIDE DEF new
  <2> QED BY <1>3, <1>4, <1>6, <1>10 DEF BstTree
<1> QED BY <1>6, <1>11 DEF g

-----------------------------------------------------------------------------
(***************************************************************************)
(* The surgery on a victim v with two children, where s is the smallest    *)
(* node of the right sub-tree.                                             *)
(***************************************************************************)
\* Detach, Attach and the rest of Swap, of any nodes.
SideIn(h, s) == IF h[h[s].up].link[1] = s THEN 1 ELSE 0

Detached(h, s) ==
    LET p == h[s].up
        right == h[s].link[1]
    IN IF right # 0
       THEN Bst!SetUp([h EXCEPT ![p].link[SideIn(h, s)] = right], right, p)
       ELSE IF h[p].up # 0 THEN [h EXCEPT ![p].link[SideIn(h, s)] = 0]
                           ELSE h

Attached(h, v, s) ==
    [h EXCEPT ![s] =
       [link |-> [x \in {0, 1} |->
                    IF x = 0 THEN h[v].link[0]
                    ELSE IF h[v].link[1] # s THEN h[v].link[1] ELSE h[s].link[1]],
        up |-> h[v].up]]

Joined(h, s) == Bst!SetUp(Bst!SetUp(h, h[s].link[0], s), h[s].link[1], s)

Swapped(h, v, s) ==
    LET a == Attached(Detached(h, s), v, s)
    IN [Bst!Replace(Joined(a, s), a[s].up, v, s) EXCEPT ![v] = Bst!NewNode]

\* What Swap is given.
Swappable(h, r, sub, v, s) ==
    /\ BstTree(h, r, sub)
    /\ v \in sub[r]
    /\ h[v].link[0] # 0
    /\ s \in sub[h[v].link[1]]
    /\ h[s].link[0] = 0
    /\ \A x \in sub[h[v].link[1]] \ sub[s] : x > s

LEMMA SwapFacts ==
    ASSUME NEW h, NEW r, NEW sub, NEW v, NEW s, Swappable(h, r, sub, v, s)
    PROVE  /\ h \in [Keys -> BstNode] /\ SearchTree(Keys, h, sub)
           /\ v \in Keys /\ s \in Keys /\ r \in Keys
           /\ v \in sub[r] /\ s \in sub[r] /\ s # v /\ s # r
           /\ h[v].link[0] \in Keys /\ h[v].link[1] \in Keys
           /\ h[v].link[0] # s /\ h[v].link[0] # v /\ h[v].link[1] # v
           /\ h[s].link[1] \in Keys \union {0}
           /\ h[s].link[1] # s /\ h[s].link[1] # v /\ h[s].link[0] = 0
           /\ h[v].up \in Keys \union {0} /\ h[v].up # v /\ h[v].up # s
           /\ h[v].up = 0 <=> v = r
           /\ h[s].up \in Keys /\ h[s].up # s
           /\ h[h[s].up].up = 0 => h[s].up = v
           /\ BstOnlyFrom(h, h[s].up, s) /\ BstOnlyFrom(h, h[v].up, v)
           /\ h[s].up = v <=> h[v].link[1] = s
           /\ h[h[v].link[0]].up = v /\ h[h[v].link[1]].up = v
           /\ h[s].link[1] # 0 => h[h[s].link[1]].up = s
           /\ h[v].link[0] \in sub[r] /\ h[v].link[1] \in sub[r]
           /\ h[s].link[1] # 0 => h[s].link[1] \in sub[r]
<1>1. /\ BstTree(h, r, sub) /\ v \in sub[r]
      /\ h[v].link[0] # 0
      /\ s \in sub[h[v].link[1]]
      /\ h[s].link[0] = 0
      BY DEF Swappable
<1>2. /\ h \in [Keys -> BstNode] /\ SearchTree(Keys, h, sub)
      /\ \A x \in sub[r] : \A t \in {0, 1} :
            h[x].link[t] # 0 => h[h[x].link[t]].up = x
      BY <1>1 DEF BstTree, UpLinked
<1>3. /\ v \in Keys /\ r \in Keys /\ r \in sub[r]
      /\ h[v].up \in Keys \union {0} /\ (h[v].up = 0 <=> v = r) /\ h[v].up # v
      /\ h[v].up # 0 => v \in sub[h[v].up]
      /\ BstOnlyFrom(h, h[v].up, v)
      BY <1>1, ParentOf, BstKeysFacts
<1>4. /\ h[v].link[0] \in Keys /\ h[v].link[0] \in sub[h[v].link[0]]
      /\ h[v].link[1] \in Keys \union {0}
      /\ h[v].link[0] # v /\ h[v].link[1] # v /\ v \notin sub[h[v].link[1]]
      /\ sub[h[v].link[1]] \subseteq sub[v] /\ sub[h[v].link[0]] \subseteq sub[v]
      /\ sub[h[v].link[1]] \subseteq Keys
      /\ sub[0] = {}
      BY <1>1, <1>2, <1>3, NodeFacts
<1>5. h[v].link[1] \in Keys /\ h[v].link[1] \in sub[h[v].link[1]]
      /\ s \in Keys /\ s # v
      BY <1>1, <1>2, <1>4, NodeFacts
<1>6. sub[v] \subseteq sub[r] /\ sub[s] \subseteq sub[h[v].link[1]]
      BY <1>1, <1>2, <1>3, <1>5, SubTrans
<1>7. s \in sub[r] /\ h[v].link[0] # s
  <2>1. s \notin sub[h[v].link[0]]
        BY <1>1, <1>2, <1>3, OneSide
  <2> QED BY <1>1, <1>4, <1>6, <2>1
<1>8. r \notin sub[h[v].link[1]]
  <2> SUFFICES ASSUME r \in sub[h[v].link[1]] PROVE FALSE
      OBVIOUS
  <2>1. sub[r] \subseteq sub[h[v].link[1]] BY <1>2, <1>5, SubTrans
  <2> QED BY <1>1, <1>4, <2>1
<1>9. /\ h[s].up \in Keys /\ h[s].up # s /\ BstOnlyFrom(h, h[s].up, s) /\ s # r
      /\ s \in sub[h[s].up] /\ h[s].up \in sub[r]
  <2>1. s # r BY <1>1, <1>8
  <2> QED BY <1>1, <1>7, <2>1, ParentOf
<1>10. /\ h[s].link[1] \in Keys \union {0} /\ h[s].link[1] # s
       /\ h[s].link[1] # 0 => h[s].link[1] \in sub[s]
       /\ h[s].link[1] # v
  <2>1. /\ h[s].link[1] \in Keys \union {0} /\ h[s].link[1] # s
        /\ h[s].link[1] # 0 => h[s].link[1] \in sub[s]
        BY <1>2, <1>5, NodeFacts
  <2> QED BY <1>3, <1>4, <1>6, <2>1, BstKeysFacts
<1>11. h[v].up # s
  <2>1. s # 0 BY <1>5, BstKeysFacts
  <2> QED BY <1>3, <1>4, <1>6, <2>1
<1>12. h[h[s].up].up = 0 => h[s].up = v
  <2> SUFFICES ASSUME h[h[s].up].up = 0, h[s].up # v PROVE FALSE
      OBVIOUS
  <2>1. h[s].up = r BY <1>1, <1>9, ParentOf
  <2>2. PICK t \in {0, 1} : h[h[s].up].link[t] = s
        BY <1>9, BstKeysFacts DEF BstOnlyFrom
  <2>3. s # h[v].link[1]
        BY <1>2, <1>1, <1>5, <2>1, BstKeysFacts
  <2>4. h[v].link[1] \in sub[r]
        BY <1>4, <1>5, <1>6
  <2>5. h[s].up \in sub[h[v].link[1]]
        BY <1>1, <1>2, <1>3, <1>9, <2>2, <2>3, <2>4, ParentUnder
  <2> QED BY <1>8, <2>1, <2>5
<1>13. h[s].up = v <=> h[v].link[1] = s
  <2>1. h[v].link[1] = s => h[s].up = v
        BY <1>1, <1>2, <1>5, BstKeysFacts
  <2>2. h[s].up = v => \E t \in {0, 1} : h[v].link[t] = s
        BY <1>3, <1>9, BstKeysFacts DEF BstOnlyFrom
  <2> QED BY <1>7, <2>1, <2>2
<1>14. /\ h[h[v].link[0]].up = v /\ h[h[v].link[1]].up = v
       /\ h[s].link[1] # 0 => h[h[s].link[1]].up = s
       BY <1>1, <1>2, <1>4, <1>5, <1>7, BstKeysFacts
<1>15. /\ h[v].link[0] \in sub[r] /\ h[v].link[1] \in sub[r]
       /\ h[s].link[1] # 0 => h[s].link[1] \in sub[r]
       BY <1>4, <1>5, <1>6, <1>10
<1> QED BY <1>1, <1>2, <1>3, <1>4, <1>5, <1>7, <1>9, <1>10, <1>11, <1>12, <1>13,
           <1>14, <1>15

\* The right child of s once it is in its new place.
RightOf(h, v, s) == IF h[v].link[1] = s THEN h[s].link[1] ELSE h[v].link[1]

\* What the nodes are after it.
SwapResult(h, v, s, g) ==
    /\ g \in [Keys -> BstNode]
    /\ g[v] = Bst!NewNode
    /\ g[s].up = h[v].up
    /\ g[s].link[0] = h[v].link[0]
    /\ g[s].link[1] = RightOf(h, v, s)
    /\ \A x \in Keys \ {v, s} :
          /\ g[x].up = IF x \in {h[v].link[0], RightOf(h, v, s)} THEN s
                       ELSE IF x = h[s].link[1] THEN h[s].up ELSE h[x].up
          /\ \A t \in {0, 1} : g[x].link[t] = IF h[x].link[t] = v THEN s
                                              ELSE IF h[x].link[t] = s THEN h[s].link[1]
                                              ELSE h[x].link[t]

LEMMA DetachedIs ==
    ASSUME NEW h, NEW r, NEW sub, NEW v, NEW s, Swappable(h, r, sub, v, s)
    PROVE  /\ Detached(h, s) \in [Keys -> BstNode]
           /\ \A x \in Keys :
                 Detached(h, s)[x].up = IF x = h[s].link[1] THEN h[s].up ELSE h[x].up
           /\ \A x \in Keys \ {v}, t \in {0, 1} :
                 Detached(h, s)[x].link[t] =
                    IF h[x].link[t] = s THEN h[s].link[1] ELSE h[x].link[t]
           /\ Detached(h, s)[v].link[0] = h[v].link[0]
           /\ IF h[v].link[1] = s THEN Detached(h, s)[v].link[1] \in {s, h[s].link[1]}
              ELSE Detached(h, s)[v].link[1] = h[v].link[1]
<1> DEFINE p == h[s].up
           right == h[s].link[1]
           i == SideIn(h, s)
           f == [h EXCEPT ![p].link[i] = right]
<1>1. /\ h \in [Keys -> BstNode] /\ v \in Keys /\ s \in Keys /\ s # v
      /\ p \in Keys /\ right \in Keys \union {0} /\ right # s
      /\ BstOnlyFrom(h, p, s) /\ p # 0
      /\ h[v].link[0] # s
      /\ (p = v <=> h[v].link[1] = s)
      /\ (h[p].up = 0 => p = v)
      BY SwapFacts, BstKeysFacts
<1>2. /\ i \in {0, 1}
      /\ \A x \in Keys, t \in {0, 1} : h[x].link[t] = s <=> x = p /\ t = i
      BY <1>1 DEF SideIn, BstOnlyFrom
<1>3. /\ f \in [Keys -> BstNode]
      /\ \A x \in Keys : f[x].up = h[x].up
      /\ \A x \in Keys, t \in {0, 1} :
            f[x].link[t] = IF h[x].link[t] = s THEN right ELSE h[x].link[t]
  <2> HIDE DEF i, right, p
  <2>1. /\ f \in [Keys -> BstNode]
        /\ \A x \in Keys : f[x].up = h[x].up
        /\ \A x \in Keys, t \in {0, 1} :
              f[x].link[t] = IF x = p /\ t = i THEN right ELSE h[x].link[t]
        BY <1>1, <1>2 DEF BstNode
  <2> HIDE DEF f
  <2> QED BY <1>2, <2>1
<1>4. CASE right # 0
  <2>1. Detached(h, s) = Bst!SetUp(f, right, p)
        BY <1>4 DEF Detached
  <2> HIDE DEF f, right, p
  <2>0. p \in Keys \union {0}
        BY <1>1
  <2>2. BstUpSet(f, right, p, Bst!SetUp(f, right, p))
        BY <1>1, <1>3, <2>0, BstSetUpIs
  <2>3. /\ Detached(h, s) \in [Keys -> BstNode]
        /\ \A y \in Keys : Detached(h, s)[y].up = IF y = right THEN p ELSE h[y].up
        /\ \A x \in Keys, t \in {0, 1} : Detached(h, s)[x].link[t] =
              IF h[x].link[t] = s THEN right ELSE h[x].link[t]
        BY <1>3, <2>1, <2>2 DEF BstUpSet
  <2> QED BY <1>1, <2>3 DEF right, p
<1>5. CASE right = 0 /\ h[p].up # 0
  <2>1. Detached(h, s) = f
        BY <1>5 DEF Detached
  <2> HIDE DEF f, right, p
  <2>2. /\ Detached(h, s) \in [Keys -> BstNode]
        /\ \A y \in Keys : Detached(h, s)[y].up = IF y = right THEN p ELSE h[y].up
        /\ \A x \in Keys, t \in {0, 1} : Detached(h, s)[x].link[t] =
              IF h[x].link[t] = s THEN right ELSE h[x].link[t]
        BY <1>3, <1>5, <2>1, BstKeysFacts
  <2> QED BY <1>1, <2>2 DEF right, p
<1>6. CASE right = 0 /\ h[p].up = 0
  <2>1. Detached(h, s) = h
        BY <1>6 DEF Detached
  <2>2. \A x \in Keys \ {v}, t \in {0, 1} : h[x].link[t] # s
        BY <1>1, <1>2, <1>6
  <2> HIDE DEF f, right, p
  <2>3. \A y \in Keys : h[y].up = IF y = right THEN p ELSE h[y].up
        BY <1>6, BstKeysFacts
  <2> QED BY <1>1, <2>1, <2>2, <2>3 DEF right, p
<1> QED BY <1>4, <1>5, <1>6

LEMMA SwapNodes ==
    ASSUME NEW h, NEW r, NEW sub, NEW v, NEW s, Swappable(h, r, sub, v, s)
    PROVE  /\ SwapResult(h, v, s, Swapped(h, v, s))
           /\ Attached(Detached(h, s), v, s)[s].up = h[v].up
<1> DEFINE d == Detached(h, s)
           a == Attached(d, v, s)
           j == Joined(a, s)
           p == h[v].up
           m == Bst!Replace(j, p, v, s)
<1>1. /\ h \in [Keys -> BstNode] /\ v \in Keys /\ s \in Keys /\ s # v
      /\ p \in Keys \union {0} /\ p # v /\ p # s
      /\ h[v].link[0] \in Keys /\ h[v].link[1] \in Keys
      /\ h[v].link[0] # v /\ h[v].link[1] # v
      /\ h[v].link[0] # s
      /\ h[s].link[1] \in Keys \union {0} /\ h[s].link[1] # s /\ h[s].link[1] # v
      /\ BstOnlyFrom(h, p, v)
      BY SwapFacts
<1>2. /\ d \in [Keys -> BstNode]
      /\ \A x \in Keys : d[x].up = IF x = h[s].link[1] THEN h[s].up ELSE h[x].up
      /\ \A x \in Keys \ {v}, t \in {0, 1} :
            d[x].link[t] = IF h[x].link[t] = s THEN h[s].link[1] ELSE h[x].link[t]
      /\ d[v].link[0] = h[v].link[0]
      /\ IF h[v].link[1] = s THEN d[v].link[1] \in {s, h[s].link[1]}
         ELSE d[v].link[1] = h[v].link[1]
      BY DetachedIs
<1> HIDE DEF d
<1>3. RightOf(h, v, s) \in Keys \union {0} /\ RightOf(h, v, s) # v
      BY <1>1 DEF RightOf
<1>4. /\ a \in [Keys -> BstNode]
      /\ a[s].link[0] = h[v].link[0]
      /\ a[s].link[1] = RightOf(h, v, s)
      /\ a[s].up = p
      /\ \A x \in Keys \ {s} : a[x] = d[x]
  <2> DEFINE right == IF d[v].link[1] # s THEN d[v].link[1] ELSE d[s].link[1]
             n == [link |-> [x \in {0, 1} |-> IF x = 0 THEN d[v].link[0] ELSE right],
                   up |-> d[v].up]
  <2>1. right = RightOf(h, v, s)
        BY <1>1, <1>2 DEF RightOf
  <2>2. d[v].up = p /\ d[v].link[0] = h[v].link[0]
        BY <1>1, <1>2
  <2> HIDE DEF right
  <2>3. /\ n \in BstNode /\ n.link[0] = h[v].link[0]
        /\ n.link[1] = RightOf(h, v, s) /\ n.up = p
        BY <1>1, <1>3, <2>1, <2>2 DEF BstNode
  <2>4. a = [d EXCEPT ![s] = n]
        BY DEF Attached, right
  <2> HIDE DEF a, n
  <2> QED BY <1>1, <1>2, <2>3, <2>4
<1> HIDE DEF a
<1>5. /\ j \in [Keys -> BstNode]
      /\ \A x \in Keys : /\ j[x].link = a[x].link
                         /\ j[x].up = IF x \in {h[v].link[0], RightOf(h, v, s)}
                                      THEN s ELSE a[x].up
  <2> DEFINE l == a[s].link[0]
             k == a[s].link[1]
             u == Bst!SetUp(a, l, s)
  <2>1. /\ l \in Keys \union {0} /\ k \in Keys \union {0} /\ s \in Keys \union {0}
        /\ l = h[v].link[0] /\ k = RightOf(h, v, s)
        BY <1>1, <1>3, <1>4
  <2>2. j = Bst!SetUp(u, k, s)
        BY DEF Joined
  <2> HIDE DEF l, k, j
  <2>3. BstUpSet(a, l, s, u)
        BY <1>1, <1>4, <2>1, BstSetUpIs
  <2> HIDE DEF u
  <2>4. BstUpSet(u, k, s, j)
    <3>1. u \in [Keys -> BstNode] BY <2>3 DEF BstUpSet
    <3> QED BY <2>1, <2>2, <3>1, BstSetUpIs
  <2> QED BY <2>1, <2>3, <2>4 DEF BstUpSet
<1> HIDE DEF j
<1>6. /\ j[s].link[0] = h[v].link[0] /\ j[s].link[1] = RightOf(h, v, s)
      /\ j[v].link[0] # v /\ j[v].link[1] # v
      /\ \A x \in Keys \ {v, s}, t \in {0, 1} :
            j[x].link[t] = IF h[x].link[t] = s THEN h[s].link[1] ELSE h[x].link[t]
      /\ j[s].up = p
      /\ \A x \in Keys \ {v, s} :
            j[x].up = IF x \in {h[v].link[0], RightOf(h, v, s)} THEN s
                      ELSE IF x = h[s].link[1] THEN h[s].up ELSE h[x].up
  <2>1. RightOf(h, v, s) # s
        BY <1>1 DEF RightOf
  <2> QED BY <1>1, <1>2, <1>4, <1>5, <2>1
<1>7. BstOnlyFrom(j, p, v)
  <2>1. \A x \in Keys \ {v, s}, t \in {0, 1} : j[x].link[t] = v <=> h[x].link[t] = v
        BY <1>1, <1>6
  <2>2. \A t \in {0, 1} : j[s].link[t] # v /\ j[v].link[t] # v
        BY <1>1, <1>3, <1>6
  <2> HIDE DEF p
  <2> QED BY <1>1, <2>1, <2>2 DEF BstOnlyFrom
<1>8. /\ m \in [Keys -> BstNode]
      /\ \A x \in Keys :
            /\ m[x].up = j[x].up
            /\ \A t \in {0, 1} :
                  m[x].link[t] = IF j[x].link[t] = v THEN s ELSE j[x].link[t]
  <2> HIDE DEF p
  <2> QED BY <1>1, <1>5, <1>7, BstReplaceIs
<1>9. Swapped(h, v, s) = [m EXCEPT ![v] = Bst!NewNode]
      BY <1>4 DEF Swapped, a, j, d
<1> HIDE DEF m, p
<1> DEFINE g == [m EXCEPT ![v] = Bst!NewNode]
<1>10. /\ g \in [Keys -> BstNode] /\ g[v] = Bst!NewNode
       /\ \A x \in Keys \ {v} : g[x] = m[x]
       BY <1>1, <1>8, BstNewNodeIs
<1> HIDE DEF g
<1>11. /\ g[s].up = p /\ g[s].link[0] = h[v].link[0]
       /\ g[s].link[1] = RightOf(h, v, s)
       BY <1>1, <1>3, <1>6, <1>8, <1>10
<1>12. \A x \in Keys \ {v, s} :
          /\ g[x].up = IF x \in {h[v].link[0], RightOf(h, v, s)} THEN s
                       ELSE IF x = h[s].link[1] THEN h[s].up ELSE h[x].up
          /\ \A t \in {0, 1} : g[x].link[t] = IF h[x].link[t] = v THEN s
                                              ELSE IF h[x].link[t] = s THEN h[s].link[1]
                                              ELSE h[x].link[t]
  <2> SUFFICES ASSUME NEW x \in Keys \ {v, s}
               PROVE  /\ g[x].up = j[x].up
                      /\ \A t \in {0, 1} : g[x].link[t] =
                            IF h[x].link[t] = v THEN s
                            ELSE IF h[x].link[t] = s THEN h[s].link[1]
                            ELSE h[x].link[t]
      BY <1>6, Zenon
  <2>1. g[x] = m[x]
        BY <1>10
  <2>2. \A t \in {0, 1} : j[x].link[t] = IF h[x].link[t] = s THEN h[s].link[1]
                                          ELSE h[x].link[t]
        BY <1>6
  <2> QED BY <1>1, <1>8, <2>1, <2>2
<1>13. SwapResult(h, v, s, g)
       BY <1>10, <1>11, <1>12 DEF SwapResult, p
<1> QED BY <1>4, <1>9, <1>13 DEF g, a, d, p

\* What the tree is after it.
LEMMA SwapTree ==
    ASSUME NEW h, NEW r, NEW sub, NEW v, NEW s, Swappable(h, r, sub, v, s),
           NEW g, SwapResult(h, v, s, g),
           NEW q, q = IF h[v].up = 0 THEN s ELSE r
    PROVE  /\ BstTree(g, q, WithNext(sub, v, s))
           /\ WithNext(sub, v, s)[q] = sub[r] \ {v}
<1> DEFINE new == WithNext(sub, v, s)
           first == h[v].link[0]
           next == RightOf(h, v, s)
           after == h[s].link[1]
<1>1. /\ h \in [Keys -> BstNode] /\ SearchTree(Keys, h, sub)
      /\ v \in Keys /\ s \in Keys /\ r \in Keys
      /\ v \in sub[r] /\ s \in sub[r] /\ s # v /\ s # r
      /\ first \in Keys /\ h[v].link[1] \in Keys
      /\ first # s /\ first # v /\ h[v].link[1] # v
      /\ after \in Keys \union {0} /\ after # s /\ after # v /\ h[s].link[0] = 0
      /\ h[v].up \in Keys \union {0} /\ h[v].up # v /\ h[v].up # s
      /\ h[v].up = 0 <=> v = r
      /\ h[s].up \in Keys /\ h[s].up # s
      /\ h[s].up = v <=> h[v].link[1] = s
      /\ h[first].up = v /\ h[h[v].link[1]].up = v
      /\ after # 0 => h[after].up = s
      /\ first \in sub[r] /\ h[v].link[1] \in sub[r]
      /\ after # 0 => after \in sub[r]
      BY SwapFacts
<1>2. /\ r # 0 => h[r].up = 0
      /\ \A x \in sub[r] : \A t \in {0, 1} :
            h[x].link[t] # 0 => h[h[x].link[t]].up = x
      /\ \A x \in Keys \ sub[r] : h[x] = Bst!NewNode
      BY DEF Swappable, BstTree, UpLinked
<1>3. /\ g \in [Keys -> BstNode]
      /\ g[v] = Bst!NewNode
      /\ g[s].up = h[v].up
      /\ g[s].link[0] = first
      /\ g[s].link[1] = next
      /\ \A x \in Keys \ {v, s} :
            /\ g[x].up = IF x \in {first, next} THEN s
                         ELSE IF x = after THEN h[s].up ELSE h[x].up
            /\ \A t \in {0, 1} : g[x].link[t] = IF h[x].link[t] = v THEN s
                                                ELSE IF h[x].link[t] = s THEN after
                                                ELSE h[x].link[t]
      BY DEF SwapResult
<1>4. /\ next \in Keys \union {0} /\ next # s /\ next # v
      /\ next # 0 => next \in sub[r]
      /\ next # 0 => h[next].up = IF h[v].link[1] = s THEN s ELSE v
      BY <1>1 DEF RightOf
<1>5. SearchTree(Keys, g, new)
  <2>1. s \in sub[h[v].link[1]] /\ \A x \in sub[h[v].link[1]] \ sub[s] : x > s
        BY DEF Swappable
  <2>2. LinksNext(Keys, h, g, v, s)
    <3>1. \A t \in {0, 1} : g[v].link[t] = 0
          BY <1>3, BstNewNodeIs
    <3>2. \A t \in {0, 1} : g[s].link[t] = IF h[v].link[t] = s THEN after
                                           ELSE h[v].link[t]
          BY <1>1, <1>3 DEF RightOf
    <3> QED BY <1>1, <1>3, <3>1, <3>2 DEF LinksNext
  <2> QED BY <1>1, <2>1, <2>2, NextTakesPlace
<1>6. new[q] = sub[r] \ {v} /\ q \in Keys /\ q # v
  <2>1. DOMAIN sub = Keys \union {0}
        BY <1>1 DEF SearchTree
  <2>2. CASE v = r
    <3>1. q = s BY <1>1, <2>2
    <3> QED BY <1>1, <2>1, <2>2, <3>1, Zenon DEF WithNext
  <2>3. CASE v # r
    <3>1. q = r BY <1>1, <2>3
    <3> QED BY <1>1, <2>1, <2>3, <3>1, Zenon DEF WithNext
  <2> QED BY <2>2, <2>3
<1> HIDE DEF new, next, first, after
<1>7. g[q].up = 0
  <2>1. CASE v = r
        BY <1>1, <1>3, <2>1
  <2>2. CASE v # r
    <3>1. q = r /\ h[r].up = 0 /\ r # 0
          BY <1>1, <1>2, <2>2, BstKeysFacts
    <3>2. r # first /\ r # next /\ r # after
          BY <1>1, <1>4, <3>1, BstKeysFacts
    <3> QED BY <1>1, <1>3, <3>1, <3>2, <2>2
  <2> QED BY <2>1, <2>2
<1>8. ASSUME NEW x \in sub[r] \ {v}, NEW t \in {0, 1}, g[x].link[t] # 0
      PROVE  g[g[x].link[t]].up = x
  <2>1. x \in Keys
        BY <1>1, NodeFacts
  <2>2. CASE x = s
    <3>1. g[x].link[t] \in {first, next}
          BY <1>3, <2>2
    <3>2. g[x].link[t] \in Keys \ {v, s}
          BY <1>1, <1>4, <1>8, <3>1
    <3> QED BY <1>3, <2>2, <3>1, <3>2
  <2>3. CASE x # s
    <3> DEFINE l == h[x].link[t]
    <3>1. l \in Keys \union {0}
          BY <1>1, <2>1, NodeFacts
    <3>2. l # 0 => h[l].up = x
          BY <1>2
    <3>3. g[x].link[t] = IF l = v THEN s ELSE IF l = s THEN after ELSE l
          BY <1>3, <2>1, <2>3
    <3> HIDE DEF l
    <3>4. CASE l = v
      <4>1. g[x].link[t] = s BY <3>3, <3>4
      <4>2. h[v].up = x BY <1>1, <3>2, <3>4, BstKeysFacts
      <4> QED BY <1>3, <4>1, <4>2
    <3>5. CASE l = s
      <4>1. g[x].link[t] = after /\ after # 0
            BY <1>1, <1>8, <3>3, <3>5
      <4>2. h[s].up = x
            BY <1>1, <3>2, <3>5, BstKeysFacts
      <4>3. h[v].link[1] # s
            BY <1>1, <1>8, <4>2
      <4>4. next # after /\ first # after
            BY <1>1, <1>4, <4>1, <4>3
      <4> QED BY <1>1, <1>3, <4>1, <4>2, <4>4
    <3>6. CASE l \notin {v, s}
      <4>1. g[x].link[t] = l /\ l # 0 /\ l \in Keys \ {v, s} /\ h[l].up = x
            BY <1>8, <3>1, <3>2, <3>3, <3>6
      <4>2. l # first /\ l # next /\ l # after
            BY <1>1, <1>4, <1>8, <2>3, <4>1
      <4> QED BY <1>3, <4>1, <4>2
    <3> QED BY <3>4, <3>5, <3>6
  <2> QED BY <2>2, <2>3
<1>9. ASSUME NEW x \in Keys, x \notin sub[r] \ {v}
      PROVE  g[x] = Bst!NewNode
  <2>1. CASE x = v BY <1>3, <2>1
  <2>2. CASE x # v
    <3>1. /\ h[x].up = 0 /\ \A t \in {0, 1} : h[x].link[t] = 0
          BY <1>2, <1>9, <2>2, BstNewNodeIs
    <3>2. x # first /\ x # next /\ x # after /\ x # s
          BY <1>1, <1>4, <1>9, <2>2, BstKeysFacts
    <3>3. v # 0 /\ s # 0
          BY <1>1, BstKeysFacts
    <3>4. g[x].up = 0 /\ \A t \in {0, 1} : g[x].link[t] = 0
          BY <1>3, <2>2, <3>1, <3>2, <3>3
    <3>5. g[x] \in BstNode
          BY <1>3
    <3> QED BY <3>4, <3>5, BstBlank
  <2> QED BY <2>1, <2>2
<1>10. UpLinked(g, q, new[q])
      BY <1>6, <1>7, <1>8, <1>9 DEF UpLinked
<1>11. BstTree(g, q, new)
      BY <1>3, <1>5, <1>6, <1>10 DEF BstTree
<1> QED BY <1>6, <1>11 DEF new

-----------------------------------------------------------------------------
(***************************************************************************)
(* The inductive invariant, step by step.                                  *)
(***************************************************************************)
LEMMA BstInvInit == Bst!Init => BstInv
<1> SUFFICES ASSUME Bst!Init PROVE BstInv
    OBVIOUS
<1> DEFINE sub == [x \in Keys \union {0} |-> IF x = 0 THEN {} ELSE {x}]
<1>1. /\ node = [k \in Keys |-> Bst!NewNode] /\ root = 0 /\ op = Bst!Idle
      BY DEF Bst!Init, Bst!NULL
<1>2. SearchTree(Keys, node, sub)
  <2>1. \A x \in Keys : \A t \in {0, 1} : node[x].link[t] = 0
        BY <1>1, BstNewNodeIs
  <2>2. sub \in [Keys \union {0} -> SUBSET Keys] /\ sub[0] = {}
        BY BstKeysFacts
  <2>3. \A x \in Keys : sub[x] = {x}
        BY BstKeysFacts
  <2>4. \A x \in Keys : IsFiniteSet({x})
        BY FS_Singleton
  <2> HIDE DEF sub
  <2> QED BY <2>1, <2>2, <2>3, <2>4, BstKeysFacts DEF SearchTree
<1>3. BstTree(node, root, sub)
      BY <1>1, <1>2, BstNewNodeIs DEF BstTree, UpLinked
<1>4. BstOp(op, node, root, sub)
      BY <1>1 DEF BstOp, Bst!Idle, Bst!NULL
<1> QED BY <1>3, <1>4 DEF BstInv

-----------------------------------------------------------------------------
(***************************************************************************)
(* What a call does to the tree, and to the set of keys KeySet speaks of.  *)
(***************************************************************************)
LEMMA BstHeld ==
    ASSUME NEW sub, BstTree(node, root, sub), kind = "bst"
    PROVE  Held = sub[root]
<1>1. Bst!InTree = UnderIn(Keys, node, root)
      BY DEF Bst!InTree, Bst!Under, UnderIn, Bst!Ref, Bst!NULL
<1>2. UnderIn(Keys, node, root) = sub[root]
      BY UnderIs DEF BstTree
<1> QED BY <1>1, <1>2 DEF Held

LEMMA BstHeldNext ==
    ASSUME NEW sub, BstTree(node', root', sub), kind' = "bst"
    PROVE  Held' = sub[root']
<1>1. Bst!InTree' = UnderIn(Keys, node', root')
      BY DEF Bst!InTree, Bst!Under, UnderIn, Bst!Ref, Bst!NULL
<1>2. UnderIn(Keys, node', root') = sub[root']
      BY UnderIs DEF BstTree
<1> QED BY <1>1, <1>2 DEF Held

\* What BstTree and BstOp say of a state in which kind is the one of bstree.
BstAt(sub) == kind = "bst" /\ BstTree(node, root, sub) /\ BstOp(op, node, root, sub)

\* A step of the tree keeps the invariant, and is one of KeySet.
BstGood == BstInv' /\ [Set!Next]_(Set!vars)

\* A call goes on, or asks, or returns; the tree stays as it is.
LEMMA BstQuiet ==
    ASSUME NEW sub, BstAt(sub), UNCHANGED <<kind, node, root>>,
           BstOp(op', node, root, sub),
           \/ UNCHANGED <<op.call, op.key, op.ret>>
           \/ /\ op.pc = "idle" /\ op'.call # "none" /\ op'.key \in Keys
              /\ op'.ret = "none"
           \/ op.pc = "done" /\ op'.pc = "idle"
    PROVE  BstGood
<1>1. BstInv'
      BY DEF BstInv, BstAt
<1>2. Held' = Held
      BY BstHeld, BstHeldNext DEF BstAt
<1>3. CASE UNCHANGED <<op.call, op.key, op.ret>>
      BY <1>1, <1>2, <1>3 DEF BstGood, Set!vars, Held
<1>4. CASE /\ op.pc = "idle" /\ op'.call # "none" /\ op'.key \in Keys
           /\ op'.ret = "none"
  <2>1. op.call = "none" /\ op.key = 0 /\ op.ret = "none"
        BY <1>4 DEF BstAt, BstOp
  <2>2. op'.call \in {"insert", "remove", "lookup"}
        BY <1>4 DEF BstOp
  <2>3. Set!Ask(op'.call, op'.key)
        BY <1>2, <1>4, <2>1 DEF Set!Ask, Set!NoCall, Held
  <2> QED BY <1>1, <1>4, <2>2, <2>3 DEF BstGood, Set!Next
<1>5. CASE op.pc = "done" /\ op'.pc = "idle"
  <2>1. op.ret # "none"
        BY <1>5 DEF BstAt, BstOp
  <2>2. op'.call = "none" /\ op'.key = 0 /\ op'.ret = "none"
        BY <1>5 DEF BstOp
  <2>3. Set!Return
        BY <1>2, <2>1, <2>2 DEF Set!Return, Set!NoCall, Held
  <2> QED BY <1>1, <2>3 DEF BstGood, Set!Next
<1> QED BY <1>3, <1>4, <1>5

\* A call is answered.
LEMMA BstAnswer ==
    ASSUME NEW sub, BstAt(sub), UNCHANGED kind,
           op.pc \notin {"idle", "done"},
           NEW ret \in {"yes", "no"}, Bst!Done(ret),
           NEW new, BstTree(node', root', new),
           \/ /\ op.call = "insert"
              /\ new[root'] = sub[root] \union {op.key}
              /\ ret = "yes" <=> op.key \notin sub[root]
           \/ /\ op.call = "remove"
              /\ new[root'] = sub[root] \ {op.key}
              /\ ret = "yes" <=> op.key \in sub[root]
           \/ /\ op.call = "lookup"
              /\ new[root'] = sub[root]
              /\ ret = "yes" <=> op.key \in sub[root]
    PROVE  BstGood
<1>1. /\ op'.pc = "done" /\ op'.ret = ret /\ op'.call = op.call /\ op'.key = op.key
      /\ op.ret = "none"
      BY DEF BstAt, BstOp, Bst!Done
<1>2. BstOp(op', node', root', new)
      BY <1>1 DEF BstAt, BstOp, Bst!Done
<1>3. BstInv'
      BY <1>2 DEF BstInv
<1>4. Held = sub[root] /\ Held' = new[root']
      BY BstHeld, BstHeldNext DEF BstAt
<1>5. CASE op.call = "insert"
  <2>1. Set!Insert
        BY <1>1, <1>4, <1>5 DEF Set!Insert, Set!Pending, Set!YesNo, Held
  <2> QED BY <1>3, <2>1 DEF BstGood, Set!Next
<1>6. CASE op.call = "remove"
  <2>1. Set!Remove
        BY <1>1, <1>4, <1>6 DEF Set!Remove, Set!Pending, Set!YesNo, Held
  <2> QED BY <1>3, <2>1 DEF BstGood, Set!Next
<1>7. CASE op.call = "lookup"
  <2>1. Set!Lookup
        BY <1>1, <1>4, <1>7 DEF Set!Lookup, Set!Pending, Set!YesNo, Held
  <2> QED BY <1>3, <2>1 DEF BstGood, Set!Next
<1> QED BY <1>5, <1>6, <1>7

-----------------------------------------------------------------------------
(***************************************************************************)
(* The steps.                                                              *)
(***************************************************************************)
LEMMA BstCall ==
    ASSUME NEW sub, BstAt(sub), UNCHANGED kind,
           NEW c \in {"insert", "remove", "lookup"}, Bst!Call(c)
    PROVE  BstGood
<1>1. PICK k \in Keys :
         op' = [Bst!Idle EXCEPT !.pc = IF c = "insert" THEN c ELSE "find",
                                !.call = c, !.key = k, !.cur = root]
      BY Zenon DEF Bst!Call
<1>2. /\ op' \in [pc : {"insert", "find"}, call : {c}, key : {k}, cur : {root},
                  victim : {0}, s : {0}, ret : {"none"}]
      /\ op'.pc = IF c = "insert" THEN c ELSE "find"
      BY <1>1 DEF Bst!Idle, Bst!NULL
<1>3. /\ root \in Keys \union {0} /\ sub[0] = {} /\ k \in Keys /\ k # 0
      /\ root # 0 => root \in sub[root]
  <2>1. SearchTree(Keys, node, sub) /\ root \in Keys \union {0}
        BY DEF BstAt, BstTree
  <2>2. root # 0 => root \in sub[root]
        BY <2>1, NodeFacts
  <2> QED BY <2>1, <2>2, BstKeysFacts DEF SearchTree
<1>4. root # 0 => OnWay(sub, root, k, root)
      BY <1>3 DEF OnWay
<1>5. BstOp(op', node, root, sub)
      BY <1>2, <1>3, <1>4 DEF BstOp
<1>6. op.pc = "idle" /\ UNCHANGED <<node, root>>
      BY DEF Bst!Call
<1>7. op'.call # "none" /\ op'.key \in Keys /\ op'.ret = "none"
      BY <1>2
<1> QED BY <1>5, <1>6, <1>7, BstQuiet

\* The search of insert and lookup.
LEMMA BstDescend ==
    ASSUME NEW sub, BstAt(sub), UNCHANGED kind,
           Bst!InsertDescend \/ Bst!FindDescend
    PROVE  BstGood
<1> DEFINE s == IF op.key > op.cur THEN 1 ELSE 0
           next == node[op.cur].link[s]
<1>1. /\ SearchTree(Keys, node, sub) /\ root \in Keys \union {0}
      /\ op.pc \in {"insert", "find"} /\ op.cur # 0 /\ op.cur # op.key
      /\ op.cur \in Keys /\ op.key \in Keys
      /\ UNCHANGED <<node, root>>
      /\ op' = [op EXCEPT !.cur = next]
      /\ op.pc = "insert" => next # 0
      BY DEF BstAt, BstTree, BstOp, Bst!InsertDescend, Bst!FindDescend,
             Bst!Toward, Bst!NULL
<1>2. root \in Keys /\ OnWay(sub, root, op.key, op.cur)
  <2>1. op.pc = "insert" => root # 0
        BY <1>1 DEF BstAt, BstOp
  <2>2. OnWay(sub, root, op.key, op.cur)
        BY <1>1, <2>1 DEF BstAt, BstOp
  <2>3. sub[0] = {}
        BY <1>1 DEF SearchTree
  <2> QED BY <1>1, <2>2, <2>3 DEF OnWay
<1>3. /\ next = 0 => op.key \notin sub[root]
      /\ next # 0 => OnWay(sub, root, op.key, next)
      BY <1>1, <1>2, OnWayDown
<1>4. next \in Keys \union {0}
      BY <1>1, NodeFacts
<1> HIDE DEF next
<1>5. /\ op'.pc = op.pc /\ op'.call = op.call /\ op'.key = op.key
      /\ op'.victim = op.victim /\ op'.s = op.s /\ op'.ret = op.ret
      /\ op'.cur = next
      BY <1>1 DEF BstAt, BstOp
<1>6. root # 0
      BY <1>2, BstKeysFacts
<1>7. BstOp(op', node, root, sub)
      BY <1>1, <1>3, <1>4, <1>5, <1>6 DEF BstAt, BstOp
<1> QED BY <1>1, <1>5, <1>7, BstQuiet

\* bst_insert(), of the first node and of others.
LEMMA BstInsertFirst ==
    ASSUME NEW sub, BstAt(sub), UNCHANGED kind, Bst!InsertFirst
    PROVE  BstGood
<1>1. /\ op.pc = "insert" /\ root = 0 /\ root' = op.key
      /\ node' = [node EXCEPT ![op.key] = Bst!NewNode] /\ Bst!Done("yes")
      BY DEF Bst!InsertFirst, Bst!NULL
<1>2. /\ op.key \in Keys /\ op.call = "insert"
      /\ node \in [Keys -> BstNode] /\ SearchTree(Keys, node, sub)
      /\ sub[0] = {} /\ \A x \in Keys : node[x] = Bst!NewNode
      BY <1>1 DEF BstAt, BstOp, BstTree, UpLinked, SearchTree
<1>3. node' = node
  <2>1. node' = [x \in Keys |-> node[x]]
        BY <1>1, <1>2
  <2>2. node = [x \in Keys |-> node[x]]
        BY <1>2
  <2> QED BY <2>1, <2>2
<1>4. sub[op.key] = {op.key}
  <2>1. \A t \in {0, 1} : node[op.key].link[t] = 0
        BY <1>2, BstNewNodeIs
  <2>2. sub[op.key] = {op.key} \union sub[node[op.key].link[0]]
                               \union sub[node[op.key].link[1]]
        BY <1>2 DEF SearchTree
  <2> QED BY <1>2, <2>1, <2>2
<1>5. UpLinked(node, op.key, {op.key})
      BY <1>2, BstNewNodeIs DEF UpLinked
<1>6. BstTree(node', root', sub)
      BY <1>1, <1>2, <1>3, <1>4, <1>5 DEF BstTree
<1> QED BY <1>1, <1>2, <1>4, <1>6, BstAnswer

LEMMA BstInsertLink ==
    ASSUME NEW sub, BstAt(sub), UNCHANGED kind, Bst!InsertLink
    PROVE  BstGood
<1> DEFINE p == op.cur
           k == op.key
           s == IF k > p THEN 1 ELSE 0
           g == [node EXCEPT ![p].link[s] = k, ![k].up = p]
           new == WithLeaf(sub, p, k)
<1>1. /\ op.pc = "insert" /\ p # 0 /\ p # k /\ node[p].link[s] = 0
      /\ node' = g /\ root' = root /\ Bst!Done("yes")
      /\ op.key \in Keys /\ op.cur \in Keys \union {0}
      /\ BstTree(node, root, sub)
      BY DEF Bst!InsertLink, Bst!Toward, Bst!NULL, BstAt, BstOp
<1>2. /\ node \in [Keys -> BstNode] /\ SearchTree(Keys, node, sub)
      /\ root \in Keys \union {0} /\ p \in Keys /\ k \in Keys /\ s \in {0, 1}
      /\ \A x \in Keys : sub[x] \subseteq Keys
      BY <1>1, NodeFacts DEF BstTree
<1>3. root # 0 /\ OnWay(sub, root, k, p) /\ root \in Keys
      BY <1>1, <1>2 DEF BstAt, BstOp
<1>4. k \notin sub[root]
      BY <1>1, <1>2, <1>3, OnWayDown
<1>5. /\ node[root].up = 0
      /\ \A x \in sub[root] : \A t \in {0, 1} :
            node[x].link[t] # 0 => node[node[x].link[t]].up = x
      /\ \A x \in Keys \ sub[root] : node[x] = Bst!NewNode
      BY <1>1, <1>3 DEF BstTree, UpLinked
<1> HIDE DEF p, k, s, g, new
<1>6. /\ g \in [Keys -> BstNode]
      /\ \A x \in Keys : /\ g[x].up = IF x = k THEN p ELSE node[x].up
                         /\ \A t \in {0, 1} : g[x].link[t] =
                               IF x = p /\ t = s THEN k ELSE node[x].link[t]
  <2> DEFINE f == [node EXCEPT ![p].link[s] = k]
  <2>1. /\ f \in [Keys -> BstNode]
        /\ \A x \in Keys : /\ f[x].up = node[x].up
                           /\ \A t \in {0, 1} : f[x].link[t] =
                                 IF x = p /\ t = s THEN k ELSE node[x].link[t]
        BY <1>2 DEF BstNode
  <2>2. g = [f EXCEPT ![k].up = p]
        BY DEF g
  <2> HIDE DEF f
  <2>3. /\ g \in [Keys -> BstNode]
        /\ \A x \in Keys : /\ g[x].up = IF x = k THEN p ELSE f[x].up
                           /\ g[x].link = f[x].link
        BY <1>2, <2>1, <2>2, SMTT(30) DEF BstNode
  <2> QED BY <2>1, <2>3
<1>7. sub[k] = {k} /\ \A t \in {0, 1} : node[k].link[t] = 0
  <2>1. \A t \in {0, 1} : node[k].link[t] = 0
        BY <1>2, <1>4, <1>5, BstNewNodeIs
  <2>2. sub[k] = {k} \union sub[node[k].link[0]] \union sub[node[k].link[1]]
        BY <1>2 DEF SearchTree
  <2>3. sub[0] = {} BY <1>2 DEF SearchTree
  <2> QED BY <2>1, <2>2, <2>3
<1>8. \A x \in Keys : p \in sub[x] => x \in sub[root]
  <2> SUFFICES ASSUME NEW x \in Keys, p \in sub[x], x \notin sub[root] PROVE FALSE
      OBVIOUS
  <2>1. \A t \in {0, 1} : node[x].link[t] = 0
        BY <1>5, BstNewNodeIs
  <2>2. sub[x] = {x} \union sub[node[x].link[0]] \union sub[node[x].link[1]]
        BY <1>2 DEF SearchTree
  <2>3. sub[0] = {} BY <1>2 DEF SearchTree
  <2>4. p = x BY <2>1, <2>2, <2>3
  <2> QED BY <1>3, <2>4 DEF OnWay
<1>9. SearchTree(Keys, g, new)
  <2>1. LinksLeaf(Keys, node, g, p, s, k)
        BY <1>6 DEF LinksLeaf
  <2> QED BY <1>1, <1>2, <1>3, <1>4, <1>7, <1>8, <2>1, InsertLeaf DEF new, s
<1>10. new[root] = sub[root] \union {k}
  <2>1. p \in sub[root] BY <1>3 DEF OnWay
  <2>2. root \in DOMAIN sub BY <1>2 DEF SearchTree
  <2> QED BY <2>1, <2>2 DEF new, WithLeaf
<1>11. UpLinked(g, root, sub[root] \union {k})
  <2>1. g[root].up = 0
    <3>1. root # k
          BY <1>2, <1>3, <1>4, NodeFacts
    <3> QED BY <1>3, <1>5, <1>6, <3>1
  <2>2. ASSUME NEW x \in sub[root] \union {k}, NEW t \in {0, 1}, g[x].link[t] # 0
        PROVE  g[g[x].link[t]].up = x
    <3>1. x \in Keys
          BY <1>2, <1>3
    <3>2. CASE x = p /\ t = s
          BY <1>2, <1>6, <3>2
    <3>3. CASE ~(x = p /\ t = s)
      <4>1. g[x].link[t] = node[x].link[t] /\ node[x].link[t] # 0
            BY <1>6, <2>2, <3>1, <3>3
      <4>2. x # k /\ x \in sub[root]
            BY <1>7, <2>2, <4>1
      <4>3. node[x].link[t] \in sub[root]
        <5>1. node[x].link[t] \in sub[x] /\ sub[x] \subseteq sub[root]
              BY <1>2, <1>3, <3>1, <4>1, <4>2, NodeFacts, SubTrans
        <5> QED BY <5>1
      <4>4. node[x].link[t] # k /\ node[x].link[t] \in Keys
            BY <1>2, <1>3, <1>4, <4>3
      <4> QED BY <1>5, <1>6, <4>1, <4>2, <4>4
    <3> QED BY <3>2, <3>3
  <2>3. ASSUME NEW x \in Keys \ (sub[root] \union {k}) PROVE g[x] = Bst!NewNode
    <3>1. node[x] = Bst!NewNode /\ x # k
          BY <1>5, <2>3
    <3>2. x # p
          BY <1>3, <2>3 DEF OnWay
    <3>3. g[x].up = 0 /\ g[x] \in BstNode /\ \A t \in {0, 1} : g[x].link[t] = 0
          BY <1>6, <3>1, <3>2, BstNewNodeIs
    <3> QED BY <3>3, BstBlank
  <2> QED BY <2>1, <2>2, <2>3 DEF UpLinked
<1>12. BstTree(g, root, new)
       BY <1>2, <1>6, <1>9, <1>10, <1>11 DEF BstTree
<1>13. op.call = "insert" /\ op.pc \notin {"idle", "done"}
       BY <1>1 DEF BstAt, BstOp
<1> QED BY <1>1, <1>4, <1>10, <1>12, <1>13, BstAnswer DEF k

\* What ends a search, and begins a removal.
LEMMA BstEndSearch ==
    ASSUME NEW sub, BstAt(sub), UNCHANGED kind,
           Bst!InsertRefuse \/ Bst!FindAbsent \/ Bst!Find
    PROVE  BstGood
<1>1. /\ op.pc \in {"insert", "find"} /\ UNCHANGED <<node, root>>
      /\ op.key \in Keys /\ op.key # 0
      /\ BstTree(node, root, sub) /\ BstTree(node', root', sub)
      /\ SearchTree(Keys, node, sub)
      /\ op.pc \notin {"idle", "done"}
      BY BstKeysFacts DEF BstAt, BstTree, BstOp, Bst!InsertRefuse, Bst!FindAbsent, Bst!Find
<1>2. op.cur = op.key => op.key \in sub[root]
      BY <1>1 DEF BstAt, BstOp, OnWay
<1>3. CASE Bst!InsertRefuse
  <2>1. op.pc = "insert" /\ op.cur = op.key /\ Bst!Done("no")
        BY <1>3 DEF Bst!InsertRefuse
  <2>2. op.call = "insert" BY <2>1 DEF BstAt, BstOp
  <2>3. sub[root'] = sub[root] \union {op.key} BY <1>1, <1>2, <2>1
  <2> QED BY <1>1, <1>2, <2>1, <2>2, <2>3, BstAnswer
<1>4. CASE Bst!FindAbsent
  <2>1. op.pc = "find" /\ op.cur = 0 /\ Bst!Done("no")
        BY <1>4 DEF Bst!FindAbsent, Bst!NULL
  <2>2. op.call \in {"remove", "lookup"} /\ op.key \notin sub[root]
        BY <2>1 DEF BstAt, BstOp
  <2>3. sub[root'] = sub[root] \ {op.key} /\ sub[root'] = sub[root]
        BY <1>1, <2>2
  <2> QED BY <1>1, <2>1, <2>2, <2>3, BstAnswer
<1>5. CASE Bst!Find /\ op.call = "lookup"
  <2>1. op.cur = op.key /\ Bst!Done("yes")
        BY <1>5 DEF Bst!Find
  <2> QED BY <1>1, <1>2, <1>5, <2>1, BstAnswer
<1>6. CASE Bst!Find /\ op.call # "lookup"
  <2> DEFINE cut == 0 \in {node[op.cur].link[x] : x \in {0, 1}}
             right == node[op.cur].link[1]
  <2>1. /\ op.pc = "find" /\ op.cur = op.key
        /\ op' = [op EXCEPT !.victim = op.cur, !.s = right,
                            !.pc = IF cut THEN "unlink" ELSE "smallest"]
        BY <1>6 DEF Bst!Find, Bst!NULL, Bst!Side
  <2>2. op.call = "remove"
        BY <1>6, <2>1 DEF BstAt, BstOp
  <2>3. /\ right \in Keys \union {0}
        /\ right # 0 => right \in sub[right]
        BY <1>1, <2>1, NodeFacts
  <2>4. /\ cut => \E t \in {0, 1} : node[op.key].link[t] = 0
        /\ ~cut => node[op.key].link[0] # 0 /\ right # 0
        BY <2>1
  <2>5. right = node[op.key].link[1]
        BY <2>1
  <2> HIDE DEF cut, right
  <2>6. /\ op'.victim = op.key /\ op'.s = right /\ op'.key = op.key
        /\ op'.call = "remove" /\ op'.ret = op.ret /\ op'.cur = op.cur
        /\ op'.pc = IF cut THEN "unlink" ELSE "smallest"
        BY <2>1, <2>2 DEF BstAt, BstOp
  <2>7. op.ret = "none" /\ op' \in [pc : {"unlink", "smallest"}, call : {"remove"},
           key : Keys, cur : Keys, victim : Keys, s : Keys \union {0}, ret : {"none"}]
        BY <1>1, <2>1, <2>2, <2>3 DEF BstAt, BstOp
  <2>8. BstOp(op', node, root, sub)
    <3>1. op'.pc = "smallest" => /\ op'.s \in sub[node[op'.key].link[1]]
                                 /\ node[op'.key].link[0] # 0
                                 /\ \A x \in sub[node[op'.key].link[1]] \ sub[op'.s] :
                                       x > op'.s
          BY <2>3, <2>4, <2>5, <2>6
    <3>2. op'.pc = "unlink" => \E t \in {0, 1} : node[op'.key].link[t] = 0
          BY <2>4, <2>6
    <3> QED BY <1>1, <1>2, <2>1, <2>6, <2>7, <3>1, <3>2 DEF BstOp
  <2> QED BY <1>1, <2>2, <2>6, <2>8, BstQuiet
<1> QED BY <1>3, <1>4, <1>5, <1>6

LEMMA BstUnlink ==
    ASSUME NEW sub, BstAt(sub), UNCHANGED kind, Bst!Unlink
    PROVE  BstGood
<1> DEFINE v == op.victim
           kid == IF node[v].link[0] = 0 THEN node[v].link[1] ELSE node[v].link[0]
           new == Without(sub, v)
<1>1. /\ op.pc = "unlink" /\ op.call = "remove" /\ v = op.key /\ v \in sub[root]
      /\ BstTree(node, root, sub)
      /\ \E t \in {0, 1} : node[v].link[t] = 0
      BY DEF BstAt, BstOp, Bst!Unlink
<1>2. /\ node' = Unlinked(node, v, kid)
      /\ root' = IF node[v].up = 0 THEN kid ELSE root
      /\ Bst!Done("yes")
      BY DEF Bst!Unlink, Unlinked, Bst!NULL
<1>3. PICK i \in {0, 1} : node[v].link[1 - i] = 0 /\ kid = node[v].link[i]
  <2>1. CASE node[v].link[0] = 0
    <3>1. node[v].link[1 - 1] = 0 /\ kid = node[v].link[1] BY <2>1
    <3> QED BY <3>1
  <2>2. CASE node[v].link[0] # 0
    <3>1. node[v].link[1 - 0] = 0 /\ kid = node[v].link[0] BY <1>1, <2>2
    <3> QED BY <3>1
  <2> QED BY <2>1, <2>2
<1> HIDE DEF v, kid, new
<1>4. BstTree(node', root', new) /\ new[root'] = sub[root] \ {v}
      BY <1>1, <1>2, <1>3, UnlinkTree DEF new
<1> QED BY <1>1, <1>2, <1>4, BstAnswer

LEMMA BstSmallest ==
    ASSUME NEW sub, BstAt(sub), UNCHANGED kind, Bst!Smallest
    PROVE  BstGood
<1> DEFINE R == sub[node[op.key].link[1]]
           next == node[op.s].link[0]
<1>1. /\ op.pc = "smallest" /\ op.call = "remove" /\ op.victim = op.key
      /\ op.key \in sub[root] /\ op.key \in Keys
      /\ node[op.key].link[0] # 0
      /\ op.s \in R /\ \A x \in R \ sub[op.s] : x > op.s
      /\ UNCHANGED <<node, root>>
      /\ SearchTree(Keys, node, sub)
      BY DEF BstAt, BstTree, BstOp, Bst!Smallest
<1>2. /\ op.s \in Keys /\ R \subseteq Keys /\ Keys \subseteq Nat
      /\ node[op.key].link[1] \in Keys
      BY <1>1, NodeFacts, BstKeysFacts
<1>3. CASE next # 0
  <2>1. op' = [op EXCEPT !.s = next]
        BY <1>3 DEF Bst!Smallest, Bst!NULL
  <2>2. /\ next \in Keys /\ next \in sub[op.s] /\ sub[op.s] \subseteq R
        /\ \A x \in sub[op.s] : x = op.s \/ x \in sub[next] \/ x \in sub[node[op.s].link[1]]
    <3>1. /\ next \in Keys \union {0} /\ next \in sub[next] /\ sub[next] \subseteq sub[op.s]
      <4>1. \A z \in Keys, t \in {0, 1} :
               /\ node[z].link[t] \in Keys \union {0}
               /\ node[z].link[t] # 0 => node[z].link[t] \in sub[node[z].link[t]]
               /\ sub[node[z].link[t]] \subseteq sub[z]
            BY <1>1, NodeFacts
      <4> QED BY <1>2, <1>3, <4>1
    <3>2. sub[op.s] \subseteq R
          BY <1>1, <1>2, SubTrans
    <3>3. sub[op.s] = {op.s} \union sub[next] \union sub[node[op.s].link[1]]
          BY <1>1, <1>2 DEF SearchTree
    <3> QED BY <1>3, <3>1, <3>2, <3>3
  <2>3. next < op.s /\ \A x \in sub[node[op.s].link[1]] : x > op.s
    <3>1. next \in sub[next]
      <4>1. \A z \in Keys : z \in sub[z] BY <1>1, NodeFacts
      <4> HIDE DEF next
      <4> QED BY <2>2, <4>1
    <3>2. \A t \in {0, 1} : \A x \in sub[node[op.s].link[t]] :
             IF t = 0 THEN x < op.s ELSE x > op.s
          BY <1>1, <1>2 DEF SearchTree
    <3> HIDE DEF R
    <3> QED BY <3>1, <3>2
  <2>4. ASSUME NEW x \in R, x \notin sub[next] PROVE x > next
    <3>1. x \in Nat /\ op.s \in Nat /\ next \in Nat BY <1>2, <2>2
    <3>2. x >= op.s BY <1>1, <2>2, <2>3, <2>4, <3>1
    <3> QED BY <2>3, <3>1, <3>2
  <2> HIDE DEF next
  <2>5. /\ op'.s = next /\ op'.pc = op.pc /\ op'.call = op.call /\ op'.key = op.key
        /\ op'.ret = op.ret /\ op'.victim = op.victim
        BY <2>1 DEF BstAt, BstOp
  <2>6. op' \in [pc : {"smallest"}, call : {"remove"}, key : Keys,
                 cur : Keys \union {0}, victim : Keys, s : Keys, ret : {"none"}]
        BY <1>1, <2>1, <2>2 DEF BstAt, BstOp
  <2>7. BstOp(op', node, root, sub)
        BY <1>1, <2>2, <2>4, <2>5, <2>6, BstKeysFacts DEF BstOp
  <2> QED BY <1>1, <2>5, <2>7, BstQuiet
<1>4. CASE next = 0
  <2>1. op' = [op EXCEPT !.pc = "swap"]
        BY <1>4 DEF Bst!Smallest, Bst!NULL
  <2>2. /\ op'.pc = "swap" /\ op'.call = op.call /\ op'.key = op.key
        /\ op'.ret = op.ret /\ op'.victim = op.victim /\ op'.s = op.s
        BY <2>1 DEF BstAt, BstOp
  <2>3. op' \in [pc : {"swap"}, call : {"remove"}, key : Keys,
                 cur : Keys \union {0}, victim : Keys, s : Keys, ret : {"none"}]
        BY <1>1, <1>2, <2>1 DEF BstAt, BstOp
  <2>4. BstOp(op', node, root, sub)
        BY <1>1, <1>4, <2>2, <2>3, BstKeysFacts DEF BstOp
  <2> QED BY <1>1, <2>2, <2>4, BstQuiet
<1> QED BY <1>3, <1>4

LEMMA BstSwap ==
    ASSUME NEW sub, BstAt(sub), UNCHANGED kind, Bst!Swap
    PROVE  BstGood
<1> DEFINE v == op.victim
           s == op.s
           new == WithNext(sub, v, s)
           a == Attached(Detached(node, s), v, s)
<1>1. /\ op.pc = "swap" /\ op.call = "remove" /\ v = op.key /\ v \in sub[root]
      /\ Swappable(node, root, sub, v, s)
      BY DEF BstAt, BstOp, Bst!Swap, Swappable
<1>2. Bst!Attach(Bst!Detach(node)) = a
      BY DEF Attached, Detached, SideIn, Bst!Attach, Bst!Detach, Bst!SideOfS,
             Bst!NULL, Bst!Side
<1>3. /\ node' = Swapped(node, v, s)
      /\ root' = IF a[s].up = 0 THEN s ELSE root
      /\ Bst!Done("yes")
  <2> HIDE DEF a
  <2> QED BY <1>2 DEF Bst!Swap, Swapped, Joined, Bst!NULL, a
<1> HIDE DEF v, s, new
<1>4. SwapResult(node, v, s, node') /\ a[s].up = node[v].up
      BY <1>1, <1>3, SwapNodes
<1>5. root' = IF node[v].up = 0 THEN s ELSE root
      BY <1>3, <1>4
<1>6. BstTree(node', root', new) /\ new[root'] = sub[root] \ {v}
      BY <1>1, <1>4, <1>5, SwapTree DEF new
<1> QED BY <1>1, <1>3, <1>6, BstAnswer

LEMMA BstReturn ==
    ASSUME NEW sub, BstAt(sub), UNCHANGED kind, Bst!Return
    PROVE  BstGood
<1>1. op.pc = "done" /\ op' = Bst!Idle /\ UNCHANGED <<node, root>>
      BY DEF Bst!Return
<1>2. op'.pc = "idle" /\ BstOp(op', node, root, sub)
      BY <1>1 DEF BstOp, Bst!Idle, Bst!NULL
<1> QED BY <1>1, <1>2, BstQuiet

LEMMA BstStutter ==
    ASSUME NEW sub, BstAt(sub), UNCHANGED vars
    PROVE  BstGood
<1>1. UNCHANGED <<kind, node, root, op>>
      BY DEF vars
<1> QED BY <1>1, BstQuiet DEF BstAt

LEMMA BstStep ==
    ASSUME BstInv, kind = "bst", [Next]_vars
    PROVE  BstGood /\ kind' = "bst"
<1>1. PICK sub : BstAt(sub)
      BY DEF BstInv, BstAt
<1>2. CASE UNCHANGED vars
      BY <1>1, <1>2, BstStutter DEF vars
<1>3. CASE Next
  <2>1. UNCHANGED kind /\ Bst!Next
        BY <1>3 DEF Next
  <2>2. CASE \E c \in {"insert", "remove", "lookup"} : Bst!Call(c)
        BY <1>1, <2>1, <2>2, BstCall
  <2>3. CASE Bst!InsertFirst
        BY <1>1, <2>1, <2>3, BstInsertFirst
  <2>4. CASE Bst!InsertDescend \/ Bst!FindDescend
        BY <1>1, <2>1, <2>4, BstDescend
  <2>5. CASE Bst!InsertLink
        BY <1>1, <2>1, <2>5, BstInsertLink
  <2>6. CASE Bst!InsertRefuse \/ Bst!FindAbsent \/ Bst!Find
        BY <1>1, <2>1, <2>6, BstEndSearch
  <2>7. CASE Bst!Unlink
        BY <1>1, <2>1, <2>7, BstUnlink
  <2>8. CASE Bst!Smallest
        BY <1>1, <2>1, <2>8, BstSmallest
  <2>9. CASE Bst!Swap
        BY <1>1, <2>1, <2>9, BstSwap
  <2>10. CASE Bst!Return
        BY <1>1, <2>1, <2>10, BstReturn
  <2> QED BY <2>1, <2>2, <2>3, <2>4, <2>5, <2>6, <2>7, <2>8, <2>9, <2>10
             DEF Bst!Next, Bst!Step
<1> QED BY <1>2, <1>3

-----------------------------------------------------------------------------
(***************************************************************************)
(* What the invariant says, in the words of BstProps.                      *)
(***************************************************************************)
LEMMA BstMeans ==
    ASSUME BstInv, kind = "bst"
    PROVE  LinksAgree /\ Ordered
<1>1. PICK sub : BstTree(node, root, sub)
      BY DEF BstInv
<1>2. \A x : Bst!Under(x) = sub[x]
  <2>1. \A x : Bst!Under(x) = UnderIn(Keys, node, x)
        BY DEF Bst!Under, UnderIn, Bst!Ref, Bst!NULL
  <2>2. \A x : UnderIn(Keys, node, x) = sub[x]
        BY <1>1, UnderIs DEF BstTree
  <2> QED BY <2>1, <2>2
<1>3. Bst!InTree = sub[root]
      BY <1>2 DEF Bst!InTree
<1>4. Bst!LinksAgree
      BY <1>1, <1>3 DEF BstTree, UpLinked, Bst!LinksAgree, Bst!NULL, Bst!Side
<1>5. Bst!Ordered
  <2>1. \A x \in sub[root] : x \in Keys
        BY <1>1 DEF BstTree, SearchTree
  <2>2. \A x \in sub[root] : \A t \in {0, 1} : \A k \in sub[node[x].link[t]] :
           IF t = 0 THEN k < x ELSE k > x
        BY <1>1, <2>1 DEF BstTree, SearchTree
  <2> QED BY <1>2, <1>3, <2>2 DEF Bst!Ordered
<1> QED BY <1>4, <1>5 DEF LinksAgree, Ordered

\* kind is what it was to begin with.
LEMMA BstInit ==
    ASSUME Init, kind = "bst"
    PROVE  BstInv /\ Set!Init
<1>1. Bst!Init
      BY DEF Init
<1>2. PICK sub : BstTree(node, root, sub)
      BY <1>1, BstInvInit DEF BstInv
<1>3. Held = {}
  <2>1. Held = sub[root] /\ root = 0
        BY <1>1, <1>2, BstHeld DEF Bst!Init, Bst!NULL
  <2> QED BY <1>2, <2>1 DEF BstTree, SearchTree
<1>4. Set!Init
      BY <1>1, <1>3 DEF Set!Init, Set!NoCall, Bst!Init, Bst!Idle, Bst!NULL, Held
<1> QED BY <1>1, <1>4, BstInvInit

BstIInv == kind = "bst" => BstInv

LEMMA BstIInvNext == BstIInv /\ [Next]_vars => BstIInv'
<1> SUFFICES ASSUME BstIInv, [Next]_vars, kind' = "bst" PROVE BstInv'
    BY DEF BstIInv
<1>1. kind = "bst"
      BY DEF Next, vars
<1> QED BY <1>1, BstStep DEF BstIInv, BstGood

LEMMA BstIInvAlways == Spec => []BstIInv
<1>1. Init => BstIInv
      BY BstInit DEF BstIInv
<1> QED BY <1>1, BstIInvNext, PTL DEF Spec

\* At every step of every call on the tree of bstree.c, whatever the keys, each
\* node is linked from its parent by the one link, the root has no parent, and a
\* node that has been removed has no link left.
THEOREM BstLinks == Spec => [](kind = "bst" => LinksAgree)
<1>1. BstIInv => (kind = "bst" => LinksAgree)
      BY BstMeans DEF BstIInv
<1> QED BY <1>1, BstIInvAlways, PTL

\* At every step of every call its smaller keys are left of a node and its greater
\* ones right of it: the successor takes the place of a victim with two children.
THEOREM BstOrder == Spec => [](kind = "bst" => Ordered)
<1>1. BstIInv => (kind = "bst" => Ordered)
      BY BstMeans DEF BstIInv
<1> QED BY <1>1, BstIInvAlways, PTL

\* The tree of bstree.c does for its callers what KeySet says: every step of a call
\* adds its key, takes it out, answers with what is true at that moment, or changes
\* nothing KeySet speaks of.
THEOREM BstIsSet == Spec /\ kind = "bst" => Implements
<1> DEFINE I == kind = "bst" /\ BstInv
<1>1. Init /\ kind = "bst" => I /\ Set!Init
      BY BstInit
<1>2. I /\ [Next]_vars => I' /\ [Set!Next]_(Set!vars)
      BY BstStep DEF BstGood
<1> HIDE DEF I
<1> QED BY <1>1, <1>2, PTL DEF Spec, Implements, Set!Spec

-----------------------------------------------------------------------------
(***************************************************************************)
(* The splay tree.  SplayProofs is about the steps of Splay alone; here    *)
(* they are steps of one of the three trees, and what they do is what      *)
(* KeySet says.                                                            *)
(***************************************************************************)
Sp == INSTANCE SplayProofs

\* The operators are the same for both.
LEMMA SameValues ==
    /\ Splay!NULL = 0 /\ Sp!NULL = 0 /\ Splay!HEAD = -1 /\ Sp!HEAD = -1
    /\ Splay!Side = {0, 1} /\ Sp!Side = {0, 1}
    /\ Splay!NewNode = Sp!NewNode /\ Splay!Idle = Sp!Idle
    /\ \A b : Splay!YesNo(b) = Sp!YesNo(b)
<1>1. /\ Splay!NULL = 0 /\ Sp!NULL = 0 /\ Splay!HEAD = -1 /\ Sp!HEAD = -1
      /\ Splay!Side = {0, 1} /\ Sp!Side = {0, 1}
      BY DEF Splay!NULL, Sp!NULL, Splay!HEAD, Sp!HEAD, Splay!Side, Sp!Side
<1>2. Splay!NewNode = Sp!NewNode /\ Splay!Idle = Sp!Idle
      BY <1>1 DEF Splay!NewNode, Sp!NewNode, Splay!Idle, Sp!Idle
<1>3. \A b : Splay!YesNo(b) = Sp!YesNo(b)
      BY DEF Splay!YesNo, Sp!YesNo
<1> QED BY <1>1, <1>2, <1>3

\* So is the assumption on the keys.
LEMMA SameAssumption == Keys \subseteq Nat \ {Sp!NULL} /\ Size \in [Keys -> Nat]
  BY KeysAssumption, SameValues DEF NULL

LEMMA SameRefresh ==
    /\ \A h, x : Splay!Refresh(h, x) = Sp!Refresh(h, x)
    /\ \A h, x, p : Splay!set_parent(h, x, p) = Sp!set_parent(h, x, p)
    /\ \A S : Splay!Max(S) = Sp!Max(S)
<1>1. /\ \A h, x : Splay!MaxOf(h, x) = Sp!MaxOf(h, x)
      /\ \A S : Splay!Max(S) = Sp!Max(S)
      BY SameValues DEF Splay!MaxOf, Sp!MaxOf, Splay!Max, Sp!Max
<1>2. \A h, x : Splay!compute_subtree_max_size(h, x) = Sp!compute_subtree_max_size(h, x)
  <2> TAKE h, x
  <2> DEFINE S == {Size[x], Sp!MaxOf(h, h[x].link[0]), Sp!MaxOf(h, h[x].link[1])}
  <2>1. Splay!compute_subtree_max_size(h, x) = Splay!Max(S)
        BY <1>1 DEF Splay!compute_subtree_max_size
  <2>2. Sp!compute_subtree_max_size(h, x) = Sp!Max(S)
        BY DEF Sp!compute_subtree_max_size
  <2> HIDE DEF S
  <2> QED BY <1>1, <2>1, <2>2
<1>3. \A h, x : Splay!Refresh(h, x) = Sp!Refresh(h, x)
  <2> TAKE h, x
  <2>1. Splay!compute_subtree_max_size(h, x) = Sp!compute_subtree_max_size(h, x)
        BY <1>2
  <2> HIDE <1>2
  <2> QED BY <2>1, Zenon DEF Splay!Refresh, Sp!Refresh, Splay!NULL, Sp!NULL
<1>4. \A h, x, p : Splay!set_parent(h, x, p) = Sp!set_parent(h, x, p)
      BY Zenon DEF Splay!set_parent, Sp!set_parent, Splay!NULL, Sp!NULL
<1> QED BY <1>1, <1>3, <1>4

LEMMA SamePivot == \A h, x, s : Splay!Pivot(h, x, s) = Sp!Pivot(h, x, s)
<1> SUFFICES ASSUME NEW h, NEW x, NEW s PROVE Splay!Pivot(h, x, s) = Sp!Pivot(h, x, s)
    OBVIOUS
<1> DEFINE c == h[x].link[s]
           p == h[x].up
           inner == h[c].link[1 - s]
           above == IF p = 0 THEN h
                    ELSE [h EXCEPT ![p].link[IF h[p].link[0] = x THEN 0 ELSE 1] = c]
           turned == [above EXCEPT ![c].up = p, ![x].link[s] = inner, ![x].up = c,
                                   ![c].link[1 - s] = x, ![c].max = h[x].max]
<1>1. Splay!Pivot(h, x, s) = Splay!Refresh(Splay!set_parent(turned, inner, x), x)
      BY DEF Splay!Pivot, Splay!NULL
<1>2. Sp!Pivot(h, x, s) = Sp!Refresh(Sp!set_parent(turned, inner, x), x)
      BY DEF Sp!Pivot, Sp!NULL
<1> HIDE DEF turned, inner
<1> QED BY <1>1, <1>2, SameRefresh

LEMMA SameWay ==
    /\ \A x : Splay!Toward(x) = Sp!Toward(x)
    /\ Splay!Turned = Sp!Turned /\ Splay!Top = Sp!Top
    /\ Splay!OnTheWay <=> Sp!OnTheWay
<1>1. \A x : Splay!Toward(x) = Sp!Toward(x)
      BY DEF Splay!Toward, Sp!Toward
<1>2. Splay!IsZigZig <=> Sp!IsZigZig
      BY <1>1, Zenon DEF Splay!IsZigZig, Sp!IsZigZig
<1>3. Splay!Turned = Sp!Turned
      BY <1>1, <1>2, SamePivot, Zenon DEF Splay!Turned, Sp!Turned
<1>4. Splay!Top = Sp!Top
      BY <1>1, <1>2, Zenon DEF Splay!Top, Sp!Top
<1>5. Splay!OnTheWay <=> Sp!OnTheWay
      BY <1>1, SameValues, Zenon DEF Splay!OnTheWay, Sp!OnTheWay
<1> QED BY <1>1, <1>3, <1>4, <1>5

\* The steps of a splay,
LEMMA SameSplay ==
    /\ Splay!SplayBreak <=> Sp!SplayBreak
    /\ Splay!SplayDown <=> Sp!SplayDown
    /\ Splay!Climb <=> Sp!Climb
    /\ Splay!ClimbEnd <=> Sp!ClimbEnd
<1>1. Splay!SplayBreak <=> Sp!SplayBreak
      BY SameWay, SameValues, Zenon DEF Splay!SplayBreak, Sp!SplayBreak
<1>2. Splay!SplayDown <=> Sp!SplayDown
      BY SameWay, SameValues, Zenon DEF Splay!SplayDown, Sp!SplayDown
<1>3. Splay!Climb <=> Sp!Climb
      BY SameRefresh, Zenon DEF Splay!Climb, Sp!Climb
<1>4. Splay!ClimbEnd <=> Sp!ClimbEnd
      BY SameValues, Zenon DEF Splay!ClimbEnd, Sp!ClimbEnd
<1> QED BY <1>1, <1>2, <1>3, <1>4

LEMMA SameAssemble == Splay!Assemble <=> Sp!Assemble
<1> DEFINE x == op.cur
           l == op.tmax[1]
           r == op.tmax[0]
           h1 == [node EXCEPT ![l].link[1] = node[x].link[0]]
           h2 == [h1 EXCEPT ![r].link[0] = h1[x].link[1]]
           h3 == [h2 EXCEPT ![x].link = [s \in {0, 1} |-> h2[-1].link[1 - s]], ![x].up = 0]
           a4 == Splay!set_parent(Splay!set_parent(h3, h3[l].link[1], l), h3[r].link[0], r)
           b4 == Sp!set_parent(Sp!set_parent(h3, h3[l].link[1], l), h3[r].link[0], r)
           a5 == Splay!set_parent(Splay!set_parent(a4, a4[x].link[0], x), a4[x].link[1], x)
           b5 == Sp!set_parent(Sp!set_parent(b4, b4[x].link[0], x), b4[x].link[1], x)
           Rest(h, new, way) == /\ \/ op.pc = "assemble"
                                   \/ op.pc = "splay" /\ ~way
                                /\ node' = [h EXCEPT ![-1] = new]
                                /\ op' = [op EXCEPT !.pc = "climb"]
                                /\ UNCHANGED root
<1>1. Splay!Assemble <=> Rest(a5, Splay!NewNode, Splay!OnTheWay)
      BY Zenon DEF Splay!Assemble, Splay!NULL, Splay!HEAD, Splay!Side
<1>2. Sp!Assemble <=> Rest(b5, Sp!NewNode, Sp!OnTheWay)
      BY Zenon DEF Sp!Assemble, Sp!NULL, Sp!HEAD, Sp!Side
<1> HIDE DEF h3, l, r, x
<1>3. \A h, y, p : Splay!set_parent(h, y, p) = Sp!set_parent(h, y, p)
      BY SameRefresh
<1>4. a4 = b4
      BY <1>3
<1> HIDE DEF a4, b4
<1>5. a5 = b5
      BY <1>3, <1>4
<1> HIDE DEF a5, b5
<1>6. Splay!NewNode = Sp!NewNode /\ (Splay!OnTheWay <=> Sp!OnTheWay)
      BY SameValues, SameWay
<1> QED BY <1>1, <1>2, <1>5, <1>6, Zenon

\* those in which a call is answered,
LEMMA SameAnswers ==
    /\ Splay!InsertFirst <=> Sp!InsertFirst
    /\ Splay!InsertRoot <=> Sp!InsertRoot
    /\ Splay!InsertRefuse <=> Sp!InsertRefuse
    /\ Splay!Lookup <=> Sp!Lookup
    /\ Splay!RemoveEmpty <=> Sp!RemoveEmpty
    /\ Splay!RemoveAbsent <=> Sp!RemoveAbsent
    /\ Splay!RemoveSmallest <=> Sp!RemoveSmallest
    /\ Splay!RemoveJoin <=> Sp!RemoveJoin
<1>1. \A r, ret : Splay!Done(r, ret) <=> Sp!Done(r, ret)
      BY SameValues, Zenon DEF Splay!Done, Sp!Done
<1>2. \A h, x : Splay!Leave(h, x) <=> Sp!Leave(h, x)
      BY <1>1, SameValues, SameRefresh, Zenon DEF Splay!Leave, Sp!Leave
<1>3. Splay!InsertFirst <=> Sp!InsertFirst
      BY <1>1, SameValues, SameRefresh, Zenon DEF Splay!InsertFirst, Sp!InsertFirst
<1>4. Splay!InsertRoot <=> Sp!InsertRoot
      BY <1>1, SameValues, SameRefresh, SameWay, Zenon DEF Splay!InsertRoot, Sp!InsertRoot
<1>5. /\ Splay!InsertRefuse <=> Sp!InsertRefuse
      /\ Splay!Lookup <=> Sp!Lookup
      /\ Splay!RemoveEmpty <=> Sp!RemoveEmpty
      /\ Splay!RemoveAbsent <=> Sp!RemoveAbsent
      BY <1>1, SameValues, Zenon
         DEF Splay!InsertRefuse, Sp!InsertRefuse, Splay!Lookup, Sp!Lookup,
             Splay!RemoveEmpty, Sp!RemoveEmpty, Splay!RemoveAbsent, Sp!RemoveAbsent
<1>6. Splay!RemoveSmallest <=> Sp!RemoveSmallest
      BY <1>2, SameValues, Zenon DEF Splay!RemoveSmallest, Sp!RemoveSmallest
<1>7. Splay!RemoveJoin <=> Sp!RemoveJoin
      BY <1>2, SameValues, SameRefresh, Zenon DEF Splay!RemoveJoin, Sp!RemoveJoin
<1> QED BY <1>3, <1>4, <1>5, <1>6, <1>7

\* and the rest.
LEMMA SameSteps ==
    /\ Splay!Init <=> Sp!Init
    /\ Splay!Next <=> Sp!Next
<1>1. Splay!Init <=> Sp!Init
      BY SameValues, Zenon DEF Splay!Init, Sp!Init
<1>2. \A c : Splay!Call(c) <=> Sp!Call(c)
      BY SameValues, Zenon DEF Splay!Call, Sp!Call
<1>3. /\ Splay!Start <=> Sp!Start
      /\ Splay!RemoveSplay <=> Sp!RemoveSplay
      /\ Splay!Return <=> Sp!Return
      BY SameValues, Zenon DEF Splay!Start, Sp!Start, Splay!RemoveSplay, Sp!RemoveSplay,
                               Splay!Return, Sp!Return
<1>4. Splay!Step <=> Sp!Step
      BY <1>3, SameSplay, SameAssemble, SameAnswers, Zenon DEF Splay!Step, Sp!Step
<1>5. Splay!Next <=> Sp!Next
      BY <1>2, <1>4, Zenon DEF Splay!Next, Sp!Next
<1> QED BY <1>1, <1>5

\* So is what is said of the tree.
LEMMA SameWords ==
    /\ Splay!InTree = Sp!InTree
    /\ Splay!LinksAgree <=> Sp!LinksAgree
    /\ Splay!Ordered <=> Sp!Ordered
    /\ Splay!MaxSizeExact <=> Sp!MaxSizeExact
<1>1. \A x : Splay!Under(x) = Sp!Under(x)
      BY SameValues DEF Splay!Under, Sp!Under, Splay!Ref, Sp!Ref
<1>2. Splay!InTree = Sp!InTree
      BY <1>1, SameValues, Zenon DEF Splay!InTree, Sp!InTree
<1>3. Splay!AtRest <=> Sp!AtRest
      BY DEF Splay!AtRest, Sp!AtRest
<1>4. Splay!LinksAgree <=> Sp!LinksAgree
      BY <1>2, <1>3, SameValues, Zenon DEF Splay!LinksAgree, Sp!LinksAgree
<1>5. Splay!Ordered <=> Sp!Ordered
      BY <1>1, <1>2, <1>3, Zenon DEF Splay!Ordered, Sp!Ordered
<1>6. Splay!MaxSizeExact <=> Sp!MaxSizeExact
      BY <1>1, <1>2, <1>3, SameRefresh, Zenon DEF Splay!MaxSizeExact, Sp!MaxSizeExact
<1> QED BY <1>2, <1>4, <1>5, <1>6

\* What there is in the tree after a step, with the same words.
LEMMA SameAfter == Splay!InTree' = Sp!InTree'
<1>1. \A x : Splay!Under(x)' = Sp!Under(x)'
      BY SameValues DEF Splay!Under, Sp!Under, Splay!Ref, Sp!Ref
<1> QED BY <1>1, SameValues, Zenon DEF Splay!InTree, Sp!InTree

\* Whatever a step does to the call and to the keys held, KeySet knows.
LEMMA SplaySetStep ==
    ASSUME kind = "splay", [Next]_vars, Sp!SplayGood
    PROVE  kind' = "splay" /\ Sp!SplayInv' /\ [Set!Next]_(Set!vars)
<1>1. kind' = "splay"
      BY DEF Next, vars
<1>2. Held = Sp!InTree /\ Held' = Sp!InTree'
      BY <1>1, SameWords, SameAfter DEF Held
<1>3. Sp!SplayInv'
      BY DEF Sp!SplayGood
<1>4. CASE Sp!Works
      BY <1>1, <1>2, <1>3, <1>4 DEF Sp!Works, Set!vars, Held
<1>5. CASE Sp!Asks
  <2>1. Set!Ask(op'.call, op'.key)
        BY <1>2, <1>5 DEF Sp!Asks, Set!Ask, Set!NoCall, Held
  <2>2. op'.call \in {"insert", "remove", "lookup"} \ {"clear"} /\ op'.key \in Keys \union AvlKeys
        BY <1>5 DEF Sp!Asks
  <2> QED BY <1>1, <1>3, <2>1, <2>2 DEF Set!Next
<1>6. CASE Sp!Answers
  <2>1. Set!Insert \/ Set!Remove \/ Set!Lookup
        BY <1>2, <1>6, Zenon DEF Sp!Answers, Set!Insert, Set!Remove, Set!Lookup, Set!Pending,
                          Set!YesNo, Sp!YesNo, Held
  <2> QED BY <1>1, <1>3, <2>1 DEF Set!Next
<1>7. CASE Sp!Returns
  <2>1. Set!Return
        BY <1>2, <1>7 DEF Sp!Returns, Set!Return, Set!NoCall, Held
  <2> QED BY <1>1, <1>3, <2>1 DEF Set!Next
<1> QED BY <1>4, <1>5, <1>6, <1>7 DEF Sp!SplayGood

LEMMA SplayTakesStep ==
    ASSUME kind = "splay", Sp!SplayInv, [Next]_vars
    PROVE  kind' = "splay" /\ Sp!SplayInv' /\ [Set!Next]_(Set!vars)
<1>1. [Sp!Next]_(Sp!vars)
  <2>1. CASE UNCHANGED vars
        BY <2>1 DEF vars, Sp!vars
  <2>2. CASE Next
        BY <2>2, SameSteps DEF Next
  <2> QED BY <2>1, <2>2
<1>2. Sp!SplayGood
      BY <1>1, SameAssumption, Sp!SplayStep
<1> QED BY <1>2, SplaySetStep

LEMMA SplayStarts ==
    ASSUME Init, kind = "splay"
    PROVE  Sp!SplayInv /\ Set!Init
<1>1. Splay!Init /\ Sp!Init
      BY SameSteps DEF Init
<1>2. Sp!SplayInv /\ Held = {}
      BY <1>1, SameAssumption, Sp!SplayInit, SameWords DEF Held
<1>3. Set!Init
      BY <1>1, <1>2 DEF Set!Init, Set!NoCall, Sp!Init, Sp!Idle, Sp!NULL
<1> QED BY <1>2, <1>3

SplayIInv == kind = "splay" => Sp!SplayInv

LEMMA SplayIInvNext == SplayIInv /\ [Next]_vars => SplayIInv'
<1> SUFFICES ASSUME SplayIInv, [Next]_vars, kind' = "splay" PROVE Sp!SplayInv'
    BY DEF SplayIInv
<1>1. kind = "splay"
      BY DEF Next, vars
<1> QED BY <1>1, SplayTakesStep DEF SplayIInv

LEMMA SplayIInvAlways == Spec => []SplayIInv
<1>1. Init => SplayIInv
      BY SplayStarts DEF SplayIInv
<1> QED BY <1>1, SplayIInvNext, PTL DEF Spec

LEMMA SplayIInvMeans ==
    SplayIInv => (kind = "splay" => LinksAgree /\ Ordered /\ MaxSizeExact)
<1> SUFFICES ASSUME Sp!SplayInv, kind = "splay" PROVE LinksAgree /\ Ordered /\ MaxSizeExact
    BY DEF SplayIInv
<1>1. Splay!LinksAgree /\ Splay!Ordered /\ Splay!MaxSizeExact
      BY SameAssumption, SameWords, Sp!SplayMeansAll
<1> QED BY <1>1 DEF LinksAgree, Ordered, MaxSizeExact

\* Between the calls on the tree of splay.c, whatever the keys, each node is linked
\* from its parent, the root has none, and a node that was removed has no link
\* left, although a splay leaves links to parents and to children that are no
\* longer, and mends them when it puts the tree together.
THEOREM SplayLinks == Spec => [](kind = "splay" => LinksAgree)
<1>1. SplayIInv => (kind = "splay" => LinksAgree)
      BY SplayIInvMeans
<1> QED BY <1>1, SplayIInvAlways, PTL

\* Between the calls its smaller keys are left of a node and its greater ones right
\* of it: what a splay has hung under head is on the right side of what it has not.
THEOREM SplayOrder == Spec => [](kind = "splay" => Ordered)
<1>1. SplayIInv => (kind = "splay" => Ordered)
      BY SplayIInvMeans
<1> QED BY <1>1, SplayIInvAlways, PTL

\* Between the calls max_size of each node is the greatest size there is under it,
\* whatever the sizes: of the trees a splay hangs under head it is wrong only on
\* the way to the nodes hung last, where the two climbs put it right.
THEOREM SplayMaxSize == Spec => []MaxSizeExact
<1>1. SplayIInv => MaxSizeExact
  <2>1. kind # "splay" => MaxSizeExact BY DEF MaxSizeExact
  <2> QED BY <2>1, SplayIInvMeans
<1> QED BY <1>1, SplayIInvAlways, PTL

\* The tree of splay.c does for its callers what KeySet says: top_down_splay() takes
\* it apart and puts it together step by step and loses no key, and the one step
\* in which a call adds its key, takes it out or answers does what is right of the
\* keys there are at that moment.
THEOREM SplayIsSet == Spec /\ kind = "splay" => Implements
<1> DEFINE I == kind = "splay" /\ Sp!SplayInv
<1>1. Init /\ kind = "splay" => I /\ Set!Init
      BY SplayStarts
<1>2. I /\ [Next]_vars => I' /\ [Set!Next]_(Set!vars)
      BY SplayTakesStep
<1> HIDE DEF I
<1> QED BY <1>1, <1>2, PTL DEF Spec, Implements, Set!Spec

-----------------------------------------------------------------------------
(***************************************************************************)
(* The three trees.  kind is the tree the calls are made on, chosen at the *)
(* start: what holds of each of them holds of every behaviour.             *)
(***************************************************************************)

LEMMA KindInit == Init => kind = "avl" \/ kind = "bst" \/ kind = "splay"
  BY DEF Init

KindIs == kind \in {"avl", "bst", "splay"}

LEMMA KindAlways == Spec => []KindIs
<1>1. Init => KindIs
      BY DEF Init, KindIs
<1>2. KindIs /\ [Next]_vars => KindIs'
      BY DEF KindIs, Next, vars
<1> QED BY <1>1, <1>2, PTL DEF Spec

\* Whichever tree the callers use, and whatever the keys, the parent links it will
\* follow lead where the child links come from: those of the AVL tree on the path
\* of a climb, those of bstree.c at every step, those of the splay tree whenever
\* a splay has put it together.
THEOREM TreesLinked == Spec => []LinksAgree
<1>1. KindIs <=> kind = "avl" \/ kind = "bst" \/ kind = "splay"
      BY DEF KindIs
<1> QED BY <1>1, KindAlways, AvlLinks, BstLinks, SplayLinks, PTL

\* Whichever tree the callers use, and whatever the keys, smaller keys are left of
\* each node and greater ones right of it, at every step in bstree.c and between
\* the calls in the others, where the AVL tree is balanced too: no rotation, no
\* replacement of a node and no splay puts a key where a search does not look.
THEOREM TreesOrdered == Spec => []Ordered
<1>1. KindIs <=> kind = "avl" \/ kind = "bst" \/ kind = "splay"
      BY DEF KindIs
<1> QED BY <1>1, KindAlways, AvlOrder, BstOrder, SplayOrder, PTL

\* Each of the three trees, balanced, plain or splayed, does for its callers what
\* KeySet says of a set of keys: a caller cannot tell which one is behind the
\* answers.
THEOREM TreesAreSets == Spec => Implements
  BY KindInit, AvlIsSet, BstIsSet, SplayIsSet, PTL DEF Spec
=============================================================================
