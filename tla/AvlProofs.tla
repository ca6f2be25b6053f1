----------------------------- MODULE AvlProofs -----------------------------
(***************************************************************************)
(* Proofs about the AVL tree, for every set of keys: its balance factors   *)
(* are exact at every step of an insertion, so that its shape is right     *)
(* when no call runs, and it implements a set of keys.                     *)
(***************************************************************************)
EXTENDS BinaryTrees, Linked

AvlNode == [link : [{0, 1} -> AvlKeys \union {0}], up : AvlKeys \union {0}, bf : Int]

\* The nodes h are search trees; the one of root r holds the keys inserted, the
\* others are nodes that wait.
AvlTree(h, r, sub) ==
    /\ h \in [AvlKeys -> AvlNode]
    /\ r \in AvlKeys \union {0}
    /\ SearchTree(AvlKeys, h, sub)
    /\ r # 0 => h[r].up = 0
    /\ \A x \in AvlKeys \ sub[r] : h[x] = Avl!NewNode

Higher(a, b) == IF a >= b THEN a ELSE b

\* ht[x] is the height of x for those who do not know that g has grown.
Heights(K, h, ht, g) ==
    /\ ht \in [K \union {0} -> Nat]
    /\ ht[0] = 0
    /\ \A x \in K :
          ht[x] = Higher(ht[h[x].link[0]], ht[h[x].link[1]]) + IF x = g THEN 0 ELSE 1

\* Those who do not know have it in their balance factors.
Balances(h, ht) ==
    \A x \in AvlKeys : h[x].bf = ht[h[x].link[1]] - ht[h[x].link[0]]

\* The trace back: from c the parent links lead to the root.
Traced(h, r, sub, c) ==
    \A x \in sub[r] \ {r} : c \in sub[x] =>
       h[x].up # 0 /\ \E s \in {0, 1} : h[h[x].up].link[s] = x

\* Where a call is.  A climb has come to a node that is new, or leans; only the
\* node a rotation is for leans by more than one level.
AvlOp(o, h, r, sub) ==
    /\ o \in [pc : {"idle", "insert", "lookup", "fix", "pivot", "done"},
              call : {"none", "insert", "lookup"},
              key : AvlKeys \union {0}, cur : AvlKeys \union {0},
              from : AvlKeys \union {0}, ub : AvlKeys \union {0},
              ret : {"none", "yes", "no"}]
    /\ o.pc = "idle" <=> o.call = "none"
    /\ o.pc = "idle" <=> o.key = 0
    /\ o.pc \in {"idle", "insert", "lookup"} <=> o.ret = "none"
    /\ o.pc = "insert" =>
          /\ o.call = "insert"
          /\ IF r = 0 THEN o.cur = 0
             ELSE OnWay(sub, r, o.key, o.cur) /\ Traced(h, r, sub, o.cur)
    /\ o.pc = "lookup" =>
          /\ o.call = "lookup"
          /\ IF o.cur = 0 THEN o.key \notin sub[r] ELSE OnWay(sub, r, o.key, o.cur)
    /\ o.pc \in {"fix", "pivot"} =>
          o.call = "insert" /\ o.key \in sub[r] /\ Traced(h, r, sub, o.key)
    /\ o.pc = "fix" =>
          /\ o.from \in sub[r] /\ o.key \in sub[o.from]
          /\ h[o.from].bf = 0 => \A s \in {0, 1} : h[o.from].link[s] = 0
    /\ o.pc = "pivot" =>
          /\ o.ub \in sub[r] /\ o.key \in sub[o.ub]
          /\ h[o.ub].bf \in {-2, 2}
          /\ h[h[o.ub].link[IF h[o.ub].bf < 0 THEN 0 ELSE 1]].bf # 0
    /\ \A x \in AvlKeys : h[x].bf \in -1 .. 1 \/ (o.pc = "pivot" /\ x = o.ub)

GrownOf(o) == CASE o.pc = "fix" -> o.from
                [] o.pc = "pivot" -> o.ub
                [] o.pc \notin {"fix", "pivot"} -> 0

AvlState(o, h, r, sub, ht) ==
    /\ AvlTree(h, r, sub)
    /\ Heights(AvlKeys, h, ht, GrownOf(o))
    /\ Balances(h, ht)
    /\ AvlOp(o, h, r, sub)

AvlInv == \E sub, ht : AvlState(op, node, root, sub, ht)

-----------------------------------------------------------------------------
(***************************************************************************)
(* What the invariant says, in the words of AvlProps.                      *)
(***************************************************************************)
LEMMA AvlKeysFacts == AvlKeys \subseteq Nat \ {0} /\ 0 \notin AvlKeys
  BY TreesAssumption DEF Avl!KeysOK, Avl!NULL

LEMMA AvlNewNodeIs ==
    /\ Avl!NewNode \in AvlNode
    /\ Avl!NewNode.up = 0 /\ Avl!NewNode.bf = 0
    /\ \A t \in {0, 1} : Avl!NewNode.link[t] = 0
  BY DEF Avl!NewNode, AvlNode, Avl!NULL, Avl!Side

\* A node that is linked nowhere is a new one.
LEMMA AvlBlank ==
    ASSUME NEW n \in AvlNode, n.up = 0, n.bf = 0, \A t \in {0, 1} : n.link[t] = 0
    PROVE  n = Avl!NewNode
<1>1. n.link = [t \in {0, 1} |-> n.link[t]]
      BY DEF AvlNode
<1>2. n.link = [t \in {0, 1} |-> 0]
      BY <1>1
<1>3. n = [link |-> n.link, up |-> n.up, bf |-> n.bf]
      BY DEF AvlNode
<1> QED BY <1>2, <1>3 DEF Avl!NewNode, Avl!NULL, Avl!Side

LEMMA AvlMaxIs ==
    ASSUME NEW a \in Nat, NEW b \in Nat
    PROVE  Avl!Max({a, b}) = Higher(a, b)
<1> DEFINE P(m) == m \in {a, b} /\ \A n \in {a, b} : m >= n
<1>1. P(Higher(a, b)) /\ \A m : P(m) => m = Higher(a, b)
      BY DEF Higher
<1>2. (CHOOSE m : P(m)) = Higher(a, b)
  <2> HIDE DEF P
  <2> QED BY <1>1
<1>3. Avl!Max({a, b}) = CHOOSE m : P(m)
      BY DEF Avl!Max
<1> QED BY <1>2, <1>3

\* The height of x, as AvlProps defines it.
HeightIn(K, h, g, x) ==
    LET ht[y \in K \union {0}] ==
            IF y = 0 THEN 0
            ELSE Avl!Max({ht[h[y].link[0]], ht[h[y].link[1]]})
                   + (IF y = g THEN 0 ELSE 1)
    IN ht[x]

LEMMA HeightIs ==
    ASSUME NEW K, NEW h, NEW sub, SearchTree(K, h, sub),
           NEW g, NEW ht, Heights(K, h, ht, g)
    PROVE  \A x : HeightIn(K, h, g, x) = ht[x]
<1> DEFINE Eq(u) == u = [y \in K \union {0} |->
                          IF y = 0 THEN 0
                          ELSE Avl!Max({u[h[y].link[0]], u[h[y].link[1]]})
                                 + (IF y = g THEN 0 ELSE 1)]
           height == CHOOSE u : Eq(u)
<1>1. /\ 0 \notin K /\ ht \in [K \union {0} -> Nat] /\ ht[0] = 0
      /\ \A y \in K, t \in {0, 1} : h[y].link[t] \in K \union {0}
      BY DEF SearchTree, Heights
<1>2. \A y \in K : Avl!Max({ht[h[y].link[0]], ht[h[y].link[1]]})
                      = Higher(ht[h[y].link[0]], ht[h[y].link[1]])
  <2>1. \A y \in K, t \in {0, 1} : ht[h[y].link[t]] \in Nat
        BY <1>1
  <2> QED BY <2>1, AvlMaxIs
<1>3. Eq(ht)
  <2>1. ht = [y \in K \union {0} |-> ht[y]]
        BY <1>1
  <2>2. \A y \in K : ht[y] = Avl!Max({ht[h[y].link[0]], ht[h[y].link[1]]})
                               + (IF y = g THEN 0 ELSE 1)
        BY <1>2 DEF Heights
  <2>3. \A y \in K \union {0} :
           ht[y] = IF y = 0 THEN 0
                   ELSE Avl!Max({ht[h[y].link[0]], ht[h[y].link[1]]})
                          + (IF y = g THEN 0 ELSE 1)
        BY <1>1, <2>2
  <2> QED BY <2>1, <2>3
<1>4. ASSUME NEW u, Eq(u)
      PROVE  u = ht
  <2>1. /\ u = [y \in K \union {0} |-> u[y]]
        /\ u[0] = 0
        /\ \A y \in K : u[y] = Avl!Max({u[h[y].link[0]], u[h[y].link[1]]})
                                 + (IF y = g THEN 0 ELSE 1)
        BY <1>1, <1>4, Zenon
  <2>2. \A y \in K : ht[y] = Avl!Max({ht[h[y].link[0]], ht[h[y].link[1]]})
                               + (IF y = g THEN 0 ELSE 1)
        BY <1>2 DEF Heights
  <2> HIDE DEF Eq
  <2> DEFINE B == {y \in K : u[y] # ht[y]}
  <2>3. B = {}
    <3> SUFFICES ASSUME B # {} PROVE FALSE
        OBVIOUS
    <3>1. PICK x \in B : h[x].link[0] \notin B /\ h[x].link[1] \notin B
      <4>1. B \subseteq K OBVIOUS
      <4> HIDE DEF B
      <4> QED BY <4>1, LowestNode
    <3>2. \A t \in {0, 1} : u[h[x].link[t]] = ht[h[x].link[t]]
          BY <1>1, <2>1, <3>1
    <3> HIDE DEF B
    <3>3. u[x] = ht[x]
      <4>1. x \in K
            BY DEF B
      <4>2. u[x] = Avl!Max({ht[h[x].link[0]], ht[h[x].link[1]]}) + (IF x = g THEN 0 ELSE 1)
            BY <2>1, <3>2, <4>1
      <4> QED BY <2>2, <4>1, <4>2
    <3> QED BY <3>3 DEF B
  <2>4. \A y \in K \union {0} : u[y] = ht[y]
        BY <1>1, <2>1, <2>3
  <2>5. ht = [y \in K \union {0} |-> ht[y]]
        BY <1>1
  <2> QED BY <2>1, <2>4, <2>5
<1>5. height = ht
  <2> HIDE DEF Eq
  <2> QED BY <1>3, <1>4
<1>6. \A x : HeightIn(K, h, g, x) = height[x]
      BY DEF HeightIn
<1> HIDE DEF height
<1> QED BY <1>5, <1>6

\* How a node leans, seen from one of its sides.
LEMMA AvlSides ==
    ASSUME NEW h, NEW sub, SearchTree(AvlKeys, h, sub),
           NEW ht, NEW g, Heights(AvlKeys, h, ht, g), Balances(h, ht),
           NEW x \in AvlKeys, NEW s \in {0, 1}
    PROVE  /\ h[x].link[s] \in AvlKeys \union {0}
           /\ h[x].link[1 - s] \in AvlKeys \union {0}
           /\ ht[h[x].link[s]] \in Nat /\ ht[h[x].link[1 - s]] \in Nat
           /\ h[x].bf = IF s = 1 THEN ht[h[x].link[s]] - ht[h[x].link[1 - s]]
                                 ELSE ht[h[x].link[1 - s]] - ht[h[x].link[s]]
           /\ ht[x] = Higher(ht[h[x].link[s]], ht[h[x].link[1 - s]])
                        + IF x = g THEN 0 ELSE 1
<1>1. /\ \A t \in {0, 1} : h[x].link[t] \in AvlKeys \union {0}
      /\ \A y \in AvlKeys \union {0} : ht[y] \in Nat
      BY DEF SearchTree, Heights
<1>2. /\ h[x].bf = ht[h[x].link[1]] - ht[h[x].link[0]]
      /\ ht[x] = Higher(ht[h[x].link[0]], ht[h[x].link[1]]) + IF x = g THEN 0 ELSE 1
      BY DEF Heights, Balances
<1>3. \A a, b \in Nat : Higher(a, b) = Higher(b, a)
      BY DEF Higher
<1>4. \A t \in {0, 1} : ht[h[x].link[t]] \in Nat
      BY <1>1
<1>5. CASE s = 0
  <2>1. 1 - s = 1
        BY <1>5
  <2>2. Higher(ht[h[x].link[0]], ht[h[x].link[1]])
           = Higher(ht[h[x].link[s]], ht[h[x].link[1 - s]])
        BY <1>5, <2>1
  <2> QED BY <1>1, <1>2, <1>4, <1>5, <2>1, <2>2
<1>6. CASE s = 1
  <2>1. 1 - s = 0
        BY <1>6
  <2>2. Higher(ht[h[x].link[0]], ht[h[x].link[1]])
           = Higher(ht[h[x].link[s]], ht[h[x].link[1 - s]])
        BY <1>3, <1>4, <1>6, <2>1
  <2> QED BY <1>1, <1>2, <1>4, <1>6, <2>1, <2>2
<1> QED BY <1>5, <1>6

\* The node u leans by two levels to its child c on side s, and there are the
\* nodes a rotation there takes hold of.
Turnable(h, r, sub, ht, u, s, c) ==
    /\ u \in AvlKeys /\ u \in sub[r] /\ s \in {0, 1}
    /\ h[u].bf = IF s = 1 THEN 2 ELSE -2
    /\ c \in AvlKeys /\ c # u
    /\ h[u].link[1 - s] \in AvlKeys \union {0}
    /\ ht[c] = ht[h[u].link[1 - s]] + 2
    /\ h[c].bf \in {-1, 1}
    /\ h[c].bf = (IF s = 1 THEN -1 ELSE 1) => h[c].link[1 - s] \in AvlKeys

\* Where the tree needs a rotation it has the nodes for it.
LEMMA PivotFacts ==
    ASSUME NEW o, NEW h, NEW r, NEW sub, NEW ht, AvlState(o, h, r, sub, ht),
           o.pc = "pivot", NEW u, u = o.ub, NEW s, NEW c
    PROVE  s = (IF h[u].bf < 0 THEN 0 ELSE 1) /\ c = h[u].link[s]
              => Turnable(h, r, sub, ht, u, s, c)
<1>s. SUFFICES ASSUME s = (IF h[u].bf < 0 THEN 0 ELSE 1)
               PROVE  c = h[u].link[s] => Turnable(h, r, sub, ht, u, s, c)
      OBVIOUS
<1>c. SUFFICES ASSUME c = h[u].link[s]
               PROVE  Turnable(h, r, sub, ht, u, s, c)
      OBVIOUS
<1> USE <1>s, <1>c
<1>1. /\ h \in [AvlKeys -> AvlNode] /\ SearchTree(AvlKeys, h, sub)
      /\ Heights(AvlKeys, h, ht, u) /\ Balances(h, ht)
      /\ u \in sub[r] /\ r \in AvlKeys \union {0}
      /\ h[u].bf \in {-2, 2} /\ h[c].bf # 0
      /\ \A x \in AvlKeys : x # u => h[x].bf \in -1 .. 1
      BY DEF AvlState, AvlTree, AvlOp, GrownOf
<1>2. u \in AvlKeys /\ s \in {0, 1} /\ (h[u].bf = IF s = 1 THEN 2 ELSE -2)
  <2>1. sub \in [AvlKeys \union {0} -> SUBSET AvlKeys]
        BY <1>1 DEF SearchTree
  <2>2. u \in AvlKeys
        BY <1>1, <2>1
  <2> HIDE <1>c
  <2>3. s \in {0, 1} /\ (h[u].bf = IF s = 1 THEN 2 ELSE -2)
        BY <1>1
  <2> QED BY <2>2, <2>3
<1> HIDE <1>s
<1>3. ht[0] = 0
      BY <1>1 DEF Heights
<1>4. /\ ht[c] = ht[h[u].link[1 - s]] + 2 /\ ht[h[u].link[1 - s]] \in Nat
      /\ c \in AvlKeys \union {0}
      /\ h[u].link[1 - s] \in AvlKeys \union {0}
  <2>1. /\ c \in AvlKeys \union {0}
        /\ h[u].link[1 - s] \in AvlKeys \union {0}
        /\ ht[c] \in Nat /\ ht[h[u].link[1 - s]] \in Nat
        /\ h[u].bf = IF s = 1 THEN ht[c] - ht[h[u].link[1 - s]]
                              ELSE ht[h[u].link[1 - s]] - ht[c]
    <3>1. /\ SearchTree(AvlKeys, h, sub) /\ Heights(AvlKeys, h, ht, u)
          /\ Balances(h, ht) /\ u \in AvlKeys /\ s \in {0, 1}
          BY <1>1, <1>2
    <3> QED BY <3>1, AvlSides
  <2>2. ht[c] = ht[h[u].link[1 - s]] + 2
        BY <1>2, <2>1
  <2> QED BY <2>1, <2>2
<1>5. c \in AvlKeys
      BY <1>3, <1>4
<1>6. c # u
      BY <1>1, <1>2, NodeFacts
<1>7. h[c].bf \in {-1, 1}
      BY <1>1, <1>5, <1>6
<1> HIDE <1>c
<1>8. ASSUME h[c].bf = (IF s = 1 THEN -1 ELSE 1) PROVE h[c].link[1 - s] \in AvlKeys
  <2>1. /\ h[c].link[1 - s] \in AvlKeys \union {0}
        /\ ht[h[c].link[s]] \in Nat /\ ht[h[c].link[1 - s]] \in Nat
        /\ h[c].bf = IF s = 1 THEN ht[h[c].link[s]] - ht[h[c].link[1 - s]]
                              ELSE ht[h[c].link[1 - s]] - ht[h[c].link[s]]
        BY <1>1, <1>2, <1>5, AvlSides
  <2>2. ht[h[c].link[1 - s]] # 0
    <3>1. CASE s = 0
          BY <1>8, <2>1, <3>1
    <3>2. CASE s = 1
          BY <1>8, <2>1, <3>2
    <3> QED BY <1>2, <3>1, <3>2
  <2> QED BY <1>3, <2>1, <2>2
<1> QED BY <1>1, <1>2, <1>4, <1>5, <1>6, <1>7, <1>8 DEF Turnable

\* A node that has a child is in the tree, and so is the child, which has no
\* other parent.
LEMMA LinkIn ==
    ASSUME NEW h, NEW r, NEW sub, AvlTree(h, r, sub),
           NEW y \in AvlKeys, NEW t \in {0, 1}, NEW x, x = h[y].link[t], x # 0
    PROVE  /\ r \in AvlKeys /\ x \in AvlKeys /\ y # x /\ x # r
           /\ y \in sub[r] /\ x \in sub[r] /\ sub[x] \subseteq sub[y]
           /\ OnlyLink(AvlKeys, h, y, t, x)
<1>1. /\ h \in [AvlKeys -> AvlNode] /\ SearchTree(AvlKeys, h, sub)
      /\ r \in AvlKeys \union {0} /\ sub[0] = {}
      /\ \A z \in AvlKeys \ sub[r] : \A i \in {0, 1} : h[z].link[i] = 0
      BY AvlNewNodeIs DEF AvlTree, SearchTree
<1>2. /\ x \in AvlKeys /\ y # x /\ x \in sub[x] /\ sub[x] \subseteq sub[y]
      /\ y \notin sub[x] /\ y \in sub[y]
  <2>1. x \in AvlKeys \union {0}
        BY <1>1, NodeFacts
  <2>2. x \in AvlKeys
        BY <2>1
  <2> QED BY <1>1, <2>2, NodeFacts
<1>3. y \in sub[r] /\ r \in AvlKeys
      BY <1>1
<1>4. sub[y] \subseteq sub[r] /\ sub[x] \subseteq sub[r]
      BY <1>1, <1>2, <1>3, SubTrans
<1>5. x # r
      BY <1>2, <1>3
<1>6. ASSUME NEW z \in AvlKeys, NEW i \in {0, 1}, h[z].link[i] = x
      PROVE  z = y /\ i = t
  <2>1. z \in sub[r]
        BY <1>1, <1>6
  <2> QED BY <1>1, <1>3, <1>6, <2>1, OneParent
<1> QED BY <1>2, <1>3, <1>4, <1>5, <1>6 DEF OnlyLink

\* The parent of a node, where the trace back has put it right.
LEMMA PathParent ==
    ASSUME NEW h, NEW r, NEW sub, AvlTree(h, r, sub), NEW key, Traced(h, r, sub, key),
           NEW x \in sub[r], key \in sub[x], x # r,
           NEW p, p = h[x].up
    PROVE  /\ p \in AvlKeys /\ p \in sub[r] /\ p # x /\ key \in sub[p]
           /\ x \in AvlKeys /\ r \in AvlKeys
           /\ \E s \in {0, 1} : h[p].link[s] = x /\ OnlyLink(AvlKeys, h, p, s, x)
<1>1. /\ h \in [AvlKeys -> AvlNode]
      /\ r \in AvlKeys \union {0} /\ sub[0] = {}
      /\ \A y \in AvlKeys \union {0} : sub[y] \subseteq AvlKeys
      BY DEF AvlTree, SearchTree
<1>2. x \in AvlKeys /\ x # 0
      BY <1>1, AvlKeysFacts
<1>3. p \in AvlKeys
      BY <1>1, <1>2 DEF Traced, AvlNode
<1>4. PICK s \in {0, 1} : h[p].link[s] = x
      BY DEF Traced
<1>5. /\ r \in AvlKeys /\ p # x /\ p \in sub[r] /\ sub[x] \subseteq sub[p]
      /\ OnlyLink(AvlKeys, h, p, s, x)
      BY <1>2, <1>3, <1>4, LinkIn
<1> QED BY <1>2, <1>3, <1>4, <1>5

LEMMA AvlMeans ==
    ASSUME AvlInv, kind = "avl"
    PROVE  LinksAgree /\ Ordered /\ BalanceExact
<1>1. PICK sub, ht : AvlState(op, node, root, sub, ht)
      BY DEF AvlInv
<1>2. /\ node \in [AvlKeys -> AvlNode] /\ SearchTree(AvlKeys, node, sub)
      /\ AvlTree(node, root, sub)
      /\ root \in AvlKeys \union {0} /\ (root # 0 => node[root].up = 0)
      /\ Heights(AvlKeys, node, ht, GrownOf(op)) /\ Balances(node, ht)
      /\ AvlOp(op, node, root, sub)
      BY <1>1 DEF AvlState, AvlTree
<1>3. \A x : Avl!Under(x) = sub[x]
  <2>1. \A x : Avl!Under(x) = UnderIn(AvlKeys, node, x)
        BY DEF Avl!Under, UnderIn, Avl!Ref, Avl!NULL
  <2>2. \A x : UnderIn(AvlKeys, node, x) = sub[x]
        BY <1>2, UnderIs
  <2> QED BY <2>1, <2>2
<1>4. \A x : Avl!HeightWithout(x, GrownOf(op)) = ht[x]
  <2>1. \A x, g : Avl!HeightWithout(x, g) = HeightIn(AvlKeys, node, g, x)
        BY DEF Avl!HeightWithout, HeightIn, Avl!Ref, Avl!NULL
  <2>2. \A x : HeightIn(AvlKeys, node, GrownOf(op), x) = ht[x]
        BY <1>2, HeightIs
  <2> QED BY <2>1, <2>2
<1>5. Avl!InTree = sub[root] /\ sub[root] \subseteq AvlKeys
      BY <1>2, <1>3 DEF Avl!InTree, SearchTree
<1>6. Avl!Grown = GrownOf(op)
      BY DEF Avl!Grown, GrownOf, Avl!NULL
<1>7. Avl!PathLinked
  <2>1. root # 0 => node[root].up = 0
        BY <1>2
  <2>2. ASSUME op.pc \in {"fix", "pivot"}, NEW x \in sub[root], op.key \in sub[x],
               x # root
        PROVE  node[x].up # 0 /\ \E s \in {0, 1} : node[node[x].up].link[s] = x
    <3>1. Traced(node, root, sub, op.key)
          BY <1>2, <2>2 DEF AvlOp
    <3> QED BY <2>2, <3>1 DEF Traced
  <2>3. \A x \in Avl!Path : x \in sub[root] /\ op.key \in sub[x]
        BY <1>3, <1>5 DEF Avl!Path
  <2> QED BY <2>1, <2>2, <2>3 DEF Avl!PathLinked, Avl!IsChild, Avl!NULL, Avl!Side
<1>8. \A x \in AvlKeys :
         node[x].bf = Avl!HeightWithout(node[x].link[1], GrownOf(op))
                        - Avl!HeightWithout(node[x].link[0], GrownOf(op))
      BY <1>2, <1>4 DEF Balances
<1>9. Avl!BalanceExact
      BY <1>5, <1>6, <1>8 DEF Avl!BalanceExact, Avl!Lean
<1>10. Avl!AvlShape
  <2> SUFFICES ASSUME op.pc = "idle", NEW x \in sub[root]
               PROVE  /\ \A k \in sub[node[x].link[0]] : k < x
                      /\ \A k \in sub[node[x].link[1]] : k > x
                      /\ Avl!Lean(x, 0) \in -1 .. 1
      BY <1>3, <1>5 DEF Avl!AvlShape, Avl!AtRest, Avl!NULL
  <2>1. x \in AvlKeys
        BY <1>5
  <2>2. \A t \in {0, 1} : \A k \in sub[node[x].link[t]] : IF t = 0 THEN k < x ELSE k > x
        BY <1>2, <2>1 DEF SearchTree
  <2>3. GrownOf(op) = 0 /\ node[x].bf \in -1 .. 1
        BY <1>2, <2>1 DEF GrownOf, AvlOp
  <2>4. Avl!Lean(x, 0) = node[x].bf
        BY <1>8, <2>1, <2>3 DEF Avl!Lean
  <2> QED BY <2>2, <2>3, <2>4
<1>11. ASSUME op.pc = "fix", op.from # root
       PROVE  Avl!Parent # 0 /\ Avl!NewBf \in -2 .. 2
  <2>1. /\ op.from \in sub[root] /\ op.key \in sub[op.from]
        /\ Traced(node, root, sub, op.key)
        /\ \A x \in AvlKeys : node[x].bf \in -1 .. 1
        BY <1>2, <1>11 DEF AvlOp
  <2>2. Avl!Parent \in AvlKeys
    <3>1. node[op.from].up \in AvlKeys
          BY <1>2, <1>11, <2>1, PathParent
    <3> QED BY <3>1 DEF Avl!Parent
  <2>3. node[Avl!Parent].bf \in -1 .. 1
        BY <2>1, <2>2
  <2> QED BY <2>2, <2>3, AvlKeysFacts DEF Avl!NewBf, Avl!Weight
<1>12. ASSUME op.pc = "pivot"
       PROVE  /\ node[op.ub].bf # 0
              /\ Avl!Heavy # 0
              /\ Avl!IsDouble => node[Avl!Heavy].link[1 - Avl!HeavySide] # 0
  <2> DEFINE s == IF node[op.ub].bf < 0 THEN 0 ELSE 1
             c == node[op.ub].link[s]
  <2>1. /\ s \in {0, 1}
        /\ node[op.ub].bf = IF s = 1 THEN 2 ELSE -2
        /\ c \in AvlKeys
        /\ node[c].bf \in {-1, 1}
        /\ node[c].bf = (IF s = 1 THEN -1 ELSE 1) => node[c].link[1 - s] \in AvlKeys
    <3>1. Turnable(node, root, sub, ht, op.ub, s, c)
          BY <1>1, <1>12, PivotFacts
    <3> QED BY <3>1 DEF Turnable
  <2>2. Avl!HeavySide = s /\ Avl!Heavy = c
        BY DEF Avl!HeavySide, Avl!Heavy
  <2> HIDE DEF s, c
  <2>3. Avl!IsDouble => node[c].bf = (IF s = 1 THEN -1 ELSE 1)
    <3>1. CASE s = 0
          BY <2>1, <2>2, <3>1 DEF Avl!IsDouble, Avl!Weight
    <3>2. CASE s = 1
          BY <2>1, <2>2, <3>2 DEF Avl!IsDouble, Avl!Weight
    <3> QED BY <2>1, <3>1, <3>2
  <2>4. node[op.ub].bf # 0
        BY <2>1
  <2> QED BY <2>1, <2>2, <2>3, <2>4, AvlKeysFacts
<1>13. Avl!NoBug
       BY <1>11, <1>12 DEF Avl!NoBug, Avl!NULL
<1> QED BY <1>7, <1>9, <1>10, <1>13 DEF LinksAgree, Ordered, BalanceExact

-----------------------------------------------------------------------------
(***************************************************************************)
(* What the nodes are after a rotation at r, whose child c on side s is    *)
(* too high.                                                               *)
(***************************************************************************)
\* Only p links to x, if anything does, and by the link Replace() takes.
AvlOnlyFrom(h, p, x) ==
    /\ p \in AvlKeys \union {0}
    /\ \A y \in AvlKeys, t \in {0, 1} : h[y].link[t] = x =>
          y = p /\ t = IF h[p].link[0] = x THEN 0 ELSE 1
    /\ p # 0 => \E t \in {0, 1} : h[p].link[t] = x

\* f is h with new in the place of x.
Replaced(h, x, new, f) ==
    /\ f \in [AvlKeys -> AvlNode]
    /\ \A y \in AvlKeys :
          /\ f[y].up = h[y].up
          /\ f[y].bf = h[y].bf
          /\ \A t \in {0, 1} : f[y].link[t] = IF h[y].link[t] = x THEN new
                                              ELSE h[y].link[t]

LEMMA AvlReplaceIs ==
    ASSUME NEW h \in [AvlKeys -> AvlNode], NEW x \in AvlKeys,
           NEW new \in AvlKeys \union {0}, AvlOnlyFrom(h, h[x].up, x)
    PROVE  Replaced(h, x, new, Avl!Replace(h, x, new))
<1> DEFINE p == h[x].up
<1> USE DEF AvlOnlyFrom
<1>1. CASE p = 0
  <2>1. Avl!Replace(h, x, new) = h
        BY <1>1 DEF Avl!Replace, Avl!NULL
  <2>2. \A y \in AvlKeys, t \in {0, 1} : h[y].link[t] # x
        BY <1>1, AvlKeysFacts
  <2>3. Replaced(h, x, new, h)
        BY <2>2 DEF Replaced
  <2> QED BY <2>1, <2>3
<1>2. CASE p # 0
  <2> DEFINE i == IF h[p].link[0] = x THEN 0 ELSE 1
             g == [h EXCEPT ![p].link[i] = new]
  <2>1. Avl!Replace(h, x, new) = g
        BY <1>2 DEF Avl!Replace, Avl!NULL
  <2>2. p \in AvlKeys /\ i \in {0, 1} /\ h[p].link[i] = x
        BY <1>2
  <2>3. \A y \in AvlKeys, t \in {0, 1} : h[y].link[t] = x => y = p /\ t = i
        OBVIOUS
  <2> HIDE DEF i, p
  <2>4. /\ g \in [AvlKeys -> AvlNode]
        /\ \A y \in AvlKeys : g[y].up = h[y].up /\ g[y].bf = h[y].bf
        /\ \A y \in AvlKeys, t \in {0, 1} :
              g[y].link[t] = IF y = p /\ t = i THEN new ELSE h[y].link[t]
        BY <2>2 DEF AvlNode
  <2>5. \A y \in AvlKeys, t \in {0, 1} :
           g[y].link[t] = IF h[y].link[t] = x THEN new ELSE h[y].link[t]
        BY <2>2, <2>3, <2>4
  <2>6. Replaced(h, x, new, g)
    <3> HIDE DEF g
    <3> QED BY <2>4, <2>5 DEF Replaced
  <2> QED BY <2>1, <2>6
<1> QED BY <1>1, <1>2

\* g is h but for the parent of x, if x is a node.
AvlUpSet(h, x, p, g) ==
    /\ g \in [AvlKeys -> AvlNode]
    /\ \A y \in AvlKeys :
          /\ g[y].link = h[y].link
          /\ g[y].bf = h[y].bf
          /\ g[y].up = IF y = x THEN p ELSE h[y].up

LEMMA AvlSetUpIs ==
    ASSUME NEW h \in [AvlKeys -> AvlNode], NEW x \in AvlKeys \union {0},
           NEW p \in AvlKeys \union {0}
    PROVE  AvlUpSet(h, x, p, Avl!SetUp(h, x, p))
  BY AvlKeysFacts DEF AvlUpSet, Avl!SetUp, AvlNode, Avl!NULL

\* One rotation.
SingleNodes(h, g, r, s, c) ==
    /\ g \in [AvlKeys -> AvlNode]
    /\ LinksTurned(AvlKeys, h, g, r, s, c)
    /\ \A x \in AvlKeys :
          /\ g[x].up = IF x = c THEN h[r].up
                       ELSE IF x = r THEN c
                       ELSE IF x = h[c].link[1 - s] THEN r ELSE h[x].up
          /\ g[x].bf = IF x \in {r, c} THEN 0 ELSE h[x].bf

LEMMA SingleIs ==
    ASSUME NEW h \in [AvlKeys -> AvlNode], NEW r \in AvlKeys, NEW s \in {0, 1},
           NEW c \in AvlKeys, c # r, h[c].link[1 - s] \notin {c, r},
           h[c].link[s] # r, h[r].link[1 - s] # r,
           AvlOnlyFrom(h, h[r].up, r)
    PROVE  c = h[r].link[s] => SingleNodes(h, Avl!Single(h, r, s), r, s, c)
<1>0. SUFFICES ASSUME c = h[r].link[s]
               PROVE  SingleNodes(h, Avl!Single(h, r, s), r, s, c)
      OBVIOUS
<1> USE <1>0
<1> DEFINE inner == h[c].link[1 - s]
           f == Avl!Replace(h, r, c)
           u == Avl!SetUp(f, inner, r)
           g == [u EXCEPT
                   ![c] = [link |-> [@.link EXCEPT ![1 - s] = r], up |-> h[r].up, bf |-> 0],
                   ![r] = [link |-> [@.link EXCEPT ![s] = inner], up |-> c, bf |-> 0]]
<1>1. Avl!Single(h, r, s) = g
      BY DEF Avl!Single
<1>2. inner \in AvlKeys \union {0} /\ h[r].up \in AvlKeys \union {0} /\ 1 - s \in {0, 1}
      BY DEF AvlNode
<1>3. /\ f \in [AvlKeys -> AvlNode]
      /\ \A y \in AvlKeys :
            /\ f[y].up = h[y].up /\ f[y].bf = h[y].bf
            /\ \A t \in {0, 1} : f[y].link[t] = IF h[y].link[t] = r THEN c
                                                ELSE h[y].link[t]
  <2>1. Replaced(h, r, c, Avl!Replace(h, r, c))
    <3> HIDE DEF f, u, g, inner
    <3> QED BY AvlReplaceIs
  <2> QED BY <2>1 DEF Replaced
<1> HIDE DEF f, g, inner
<1>4. /\ u \in [AvlKeys -> AvlNode]
      /\ \A y \in AvlKeys :
            /\ u[y].bf = h[y].bf
            /\ u[y].up = IF y = inner THEN r ELSE h[y].up
            /\ \A t \in {0, 1} : u[y].link[t] = IF h[y].link[t] = r THEN c
                                                ELSE h[y].link[t]
  <2>1. AvlUpSet(f, inner, r, u)
        BY <1>2, <1>3, AvlSetUpIs
  <2> HIDE DEF u
  <2> QED BY <1>3, <2>1 DEF AvlUpSet
<1> HIDE DEF u
<1>5. /\ g \in [AvlKeys -> AvlNode]
      /\ g[c] = [link |-> [u[c].link EXCEPT ![1 - s] = r], up |-> h[r].up, bf |-> 0]
      /\ g[r] = [link |-> [u[r].link EXCEPT ![s] = inner], up |-> c, bf |-> 0]
      /\ \A x \in AvlKeys : x \notin {r, c} => g[x] = u[x]
  <2>1. /\ [link |-> [u[c].link EXCEPT ![1 - s] = r], up |-> h[r].up, bf |-> 0] \in AvlNode
        /\ [link |-> [u[r].link EXCEPT ![s] = inner], up |-> c, bf |-> 0] \in AvlNode
        BY <1>2, <1>4 DEF AvlNode
  <2> QED BY <1>4, <2>1 DEF g
<1> HIDE <1>0
<1>6. ASSUME NEW x \in AvlKeys
      PROVE  /\ g[x].up = IF x = c THEN h[r].up
                          ELSE IF x = r THEN c
                          ELSE IF x = inner THEN r ELSE h[x].up
             /\ g[x].bf = IF x \in {r, c} THEN 0 ELSE h[x].bf
      BY <1>4, <1>5
<1>7. ASSUME NEW x \in AvlKeys, NEW t \in {0, 1}
      PROVE  g[x].link[t] = IF x = r /\ t = s THEN inner
                            ELSE IF x = c /\ t = 1 - s THEN r
                            ELSE IF h[x].link[t] = r THEN c ELSE h[x].link[t]
  <2>1. CASE x = c
    <3>1. g[x].link = [u[c].link EXCEPT ![1 - s] = r] /\ u[c].link \in [{0, 1} -> AvlKeys \union {0}]
          BY <1>4, <1>5, <2>1 DEF AvlNode
    <3>2. g[x].link[t] = IF t = 1 - s THEN r ELSE u[c].link[t]
          BY <1>2, <3>1
    <3> QED BY <1>4, <2>1, <3>2
  <2>2. CASE x = r
    <3>1. g[x].link = [u[r].link EXCEPT ![s] = inner] /\ u[r].link \in [{0, 1} -> AvlKeys \union {0}]
          BY <1>4, <1>5, <2>2 DEF AvlNode
    <3>2. g[x].link[t] = IF t = s THEN inner ELSE u[r].link[t]
          BY <1>2, <3>1
    <3> QED BY <1>4, <2>2, <3>2
  <2>3. CASE x \notin {r, c}
        BY <1>4, <1>5, <2>3
  <2> QED BY <2>1, <2>2, <2>3
<1> QED BY <1>1, <1>5, <1>6, <1>7 DEF SingleNodes, LinksTurned, inner

\* Two rotations at once: np, the child of c on the other side, comes up.
DoubleNodes(h, g, r, s, c, np) ==
    /\ g \in [AvlKeys -> AvlNode]
    /\ \A t \in {0, 1} :
          /\ g[c].link[t] = IF t = s THEN h[c].link[s] ELSE h[np].link[s]
          /\ g[r].link[t] = IF t = s THEN h[np].link[1 - s] ELSE h[r].link[1 - s]
          /\ g[np].link[t] = IF t = s THEN c ELSE r
    /\ g[np].up = h[r].up
    /\ g[c].bf = (IF h[np].bf = (IF s = 1 THEN -1 ELSE 1) THEN -h[np].bf ELSE 0)
    /\ g[r].bf = (IF h[np].bf = (IF s = 1 THEN 1 ELSE -1) THEN -h[np].bf ELSE 0)
    /\ g[np].bf = 0
    /\ \A x \in AvlKeys \ {r, c, np} :
          /\ \A t \in {0, 1} : g[x].link[t] = IF h[x].link[t] = r THEN np ELSE h[x].link[t]
          /\ g[x].up = h[x].up /\ g[x].bf = h[x].bf

LEMMA LeanSign ==
    ASSUME NEW b \in -1 .. 1, NEW s \in {0, 1}
    PROVE  /\ b * Avl!Weight(s) < 0 <=> b = (IF s = 1 THEN -1 ELSE 1)
           /\ b * Avl!Weight(s) > 0 <=> b = (IF s = 1 THEN 1 ELSE -1)
           /\ b * Avl!Weight(s) < 0 => Avl!Weight(s) = -b
           /\ b * Avl!Weight(s) > 0 => -Avl!Weight(s) = -b
<1>1. CASE s = 0
      BY <1>1 DEF Avl!Weight
<1>2. CASE s = 1
      BY <1>2 DEF Avl!Weight
<1> QED BY <1>1, <1>2

LEMMA DoubleIs ==
    ASSUME NEW h \in [AvlKeys -> AvlNode], NEW r \in AvlKeys, NEW s \in {0, 1},
           NEW c \in AvlKeys, NEW np \in AvlKeys,
           c # r, np # c, np # r, h[np].bf \in -1 .. 1,
           \A t \in {0, 1} : h[r].link[t] # r /\ h[c].link[t] # r /\ h[np].link[t] # r,
           AvlOnlyFrom(h, h[r].up, r)
    PROVE  c = h[r].link[s] /\ np = h[c].link[1 - s]
              => DoubleNodes(h, Avl!Double(h, r, s), r, s, c, np)
<1>0. SUFFICES ASSUME c = h[r].link[s], np = h[c].link[1 - s]
               PROVE  DoubleNodes(h, Avl!Double(h, r, s), r, s, c, np)
      BY Zenon
<1> USE <1>0
<1> DEFINE f == Avl!Replace(h, r, np)
           lean == h[np].bf * Avl!Weight(s)
           cbf == IF lean < 0 THEN Avl!Weight(s) ELSE 0
           rbf == IF lean > 0 THEN -Avl!Weight(s) ELSE 0
           newC == [link |-> [f[c].link EXCEPT ![1 - s] = h[np].link[s]], up |-> np, bf |-> cbf]
           newR == [link |-> [f[r].link EXCEPT ![s] = h[np].link[1 - s]], up |-> np, bf |-> rbf]
           newNp == [link |-> [x \in {0, 1} |-> IF x = s THEN c ELSE r],
                     up |-> h[r].up, bf |-> 0]
           g == [f EXCEPT
                   ![c] = [link |-> [@.link EXCEPT ![1 - s] = h[np].link[s]],
                           up |-> np, bf |-> cbf],
                   ![r] = [link |-> [@.link EXCEPT ![s] = h[np].link[1 - s]],
                           up |-> np, bf |-> rbf],
                   ![np] = newNp]
<1>1. Avl!Double(h, r, s) = g
      BY Zenon DEF Avl!Double, Avl!Side
<1>2. /\ cbf = (IF h[np].bf = (IF s = 1 THEN -1 ELSE 1) THEN -h[np].bf ELSE 0)
      /\ rbf = (IF h[np].bf = (IF s = 1 THEN 1 ELSE -1) THEN -h[np].bf ELSE 0)
      BY LeanSign, Zenon
<1> HIDE DEF cbf, rbf, g, newC, newR, newNp
<1> HIDE <1>0
<1>3. /\ f \in [AvlKeys -> AvlNode]
      /\ \A y \in AvlKeys :
            /\ f[y].up = h[y].up /\ f[y].bf = h[y].bf
            /\ \A t \in {0, 1} : f[y].link[t] = IF h[y].link[t] = r THEN np
                                                ELSE h[y].link[t]
  <2>1. Replaced(h, r, np, Avl!Replace(h, r, np))
    <3> HIDE DEF f
    <3> QED BY AvlReplaceIs
  <2> QED BY <2>1 DEF Replaced
<1> HIDE DEF f
<1>4. /\ h[np].link[s] \in AvlKeys \union {0} /\ h[np].link[1 - s] \in AvlKeys \union {0}
      /\ h[r].up \in AvlKeys \union {0} /\ 1 - s \in {0, 1}
      /\ \A t \in {0, 1} : t = s \/ t = 1 - s
      /\ s # 1 - s
      /\ cbf \in Int /\ rbf \in Int
      BY <1>2 DEF AvlNode
<1>5. newC \in AvlNode /\ newR \in AvlNode /\ newNp \in AvlNode
      BY <1>3, <1>4 DEF AvlNode, newC, newR, newNp
<1>6. /\ g \in [AvlKeys -> AvlNode]
      /\ g[c] = newC /\ g[r] = newR /\ g[np] = newNp
      /\ \A x \in AvlKeys \ {r, c, np} : g[x] = f[x]
  <2>1. g = [f EXCEPT ![c] = newC, ![r] = newR, ![np] = newNp]
        BY <1>3 DEF g, newC, newR
  <2> QED BY <1>3, <1>5, <2>1
<1>7. \A t \in {0, 1} :
         /\ newC.link[t] = IF t = s THEN h[c].link[s] ELSE h[np].link[s]
         /\ newR.link[t] = IF t = s THEN h[np].link[1 - s] ELSE h[r].link[1 - s]
         /\ newNp.link[t] = IF t = s THEN c ELSE r
  <2>1. /\ f[c].link \in [{0, 1} -> AvlKeys \union {0}]
        /\ f[r].link \in [{0, 1} -> AvlKeys \union {0}]
        BY <1>3 DEF AvlNode
  <2>2. \A t \in {0, 1} :
           /\ newC.link[t] = IF t = 1 - s THEN h[np].link[s] ELSE f[c].link[t]
           /\ newR.link[t] = IF t = s THEN h[np].link[1 - s] ELSE f[r].link[t]
           /\ newNp.link[t] = IF t = s THEN c ELSE r
        BY <2>1 DEF newC, newR, newNp
  <2>3. f[c].link[s] = h[c].link[s] /\ f[r].link[1 - s] = h[r].link[1 - s]
        BY <1>3, <1>4
  <2> QED BY <1>4, <2>2, <2>3
<1>8. /\ newNp.up = h[r].up
      /\ newC.bf = cbf /\ newR.bf = rbf /\ newNp.bf = 0
      BY DEF newC, newR, newNp
<1>9. \A x \in AvlKeys \ {r, c, np} :
         /\ \A t \in {0, 1} : g[x].link[t] = IF h[x].link[t] = r THEN np ELSE h[x].link[t]
         /\ g[x].up = h[x].up /\ g[x].bf = h[x].bf
      BY <1>3, <1>6
<1>10. DoubleNodes(h, g, r, s, c, np)
       BY <1>2, <1>6, <1>7, <1>8, <1>9 DEF DoubleNodes
<1> QED BY <1>1, <1>10

\* No node under a child of r leads back to r.
Below(h, sub, r, c) ==
    /\ c # r /\ c \in sub[c] /\ r \notin sub[c] /\ sub[c] \subseteq sub[r]
    /\ \A t \in {0, 1} : h[r].link[t] # r /\ h[c].link[t] # c
    /\ \A x \in sub[c], t \in {0, 1} : h[x].link[t] # r

LEMMA AvlApart ==
    ASSUME NEW h, NEW sub, SearchTree(AvlKeys, h, sub), NEW r \in AvlKeys,
           NEW s \in {0, 1}, NEW c \in AvlKeys, c = h[r].link[s]
    PROVE  Below(h, sub, r, c)
<1>1. /\ c # r /\ r \notin sub[c] /\ sub[c] \subseteq sub[r]
      /\ \A t \in {0, 1} : h[r].link[t] # r
      BY NodeFacts
<1>2. c \in sub[c] /\ \A t \in {0, 1} : h[c].link[t] # c
      BY NodeFacts
<1>3. ASSUME NEW x \in sub[c], NEW t \in {0, 1}, h[x].link[t] = r
      PROVE  FALSE
  <2>1. x \in AvlKeys
        BY DEF SearchTree
  <2>2. sub[x] \subseteq sub[c]
        BY SubTrans
  <2>3. sub[r] \subseteq sub[x] /\ r \in sub[r]
        BY <1>3, <2>1, NodeFacts
  <2> QED BY <1>1, <2>2, <2>3
<1> QED BY <1>1, <1>2, <1>3 DEF Below

\* g is a search tree in which np is where r was.
TurnedTwice(g, sub, r, c, np) ==
    \E new : /\ SearchTree(AvlKeys, g, new)
             /\ new[np] = sub[r]
             /\ \A x \in AvlKeys \union {0} : x \notin {r, c, np} => new[x] = sub[x]

\* The tree after two rotations at once: it is the tree after one at c, and
\* then one at r.
LEMMA DoubleTree ==
    ASSUME NEW h, NEW sub, SearchTree(AvlKeys, h, sub), NEW r \in AvlKeys,
           NEW s \in {0, 1}, NEW c \in AvlKeys, NEW np \in AvlKeys,
           OnlyLink(AvlKeys, h, r, s, c), OnlyLink(AvlKeys, h, c, 1 - s, np),
           NEW g, DoubleNodes(h, g, r, s, c, np)
    PROVE  c = h[r].link[s] /\ np = h[c].link[1 - s] => TurnedTwice(g, sub, r, c, np)
<1>0. SUFFICES ASSUME c = h[r].link[s], np = h[c].link[1 - s]
               PROVE  TurnedTwice(g, sub, r, c, np)
      BY Zenon
<1> USE <1>0
<1> DEFINE link(x, t) == IF x = c /\ t = 1 - s THEN h[np].link[s]
                         ELSE IF x = np /\ t = s THEN c
                         ELSE IF h[x].link[t] = c THEN np ELSE h[x].link[t]
           mid == [x \in AvlKeys |-> [link |-> [t \in {0, 1} |-> link(x, t)]]]
           one == TurnedSub(sub, h, c, 1 - s, np)
           two == TurnedSub(one, mid, r, s, np)
<1>1. /\ 1 - s \in {0, 1} /\ 1 - (1 - s) = s /\ s # 1 - s
      /\ \A t \in {0, 1} : t = s \/ t = 1 - s
  <2>1. s = 0 \/ s = 1
        OBVIOUS
  <2> QED BY ONLY <2>1
<1>2. /\ 0 \notin AvlKeys
      /\ c # r /\ np # c /\ np # r
      /\ DOMAIN sub = AvlKeys \union {0}
      /\ \A t \in {0, 1} : h[np].link[t] \notin {r, c, np} /\ h[c].link[t] \notin {r, c}
                           /\ h[r].link[t] # r
      /\ h[c].link[s] # np /\ h[r].link[1 - s] \notin {c, np}
  <2>1. 0 \notin AvlKeys /\ DOMAIN sub = AvlKeys \union {0}
        BY Zenon DEF SearchTree
  <2>2. /\ c # r /\ c \in sub[c] /\ sub[c] \subseteq sub[r]
        /\ \A t \in {0, 1} : h[r].link[t] # r /\ h[c].link[t] # c
        /\ \A x \in sub[c], t \in {0, 1} : h[x].link[t] # r
    <3>1. Below(h, sub, r, c)
          BY AvlApart
    <3> QED BY <3>1, Zenon DEF Below
  <2>3. /\ np # c /\ np \in sub[np] /\ sub[np] \subseteq sub[c]
        /\ \A t \in {0, 1} : h[np].link[t] # np
        /\ \A x \in sub[np], t \in {0, 1} : h[x].link[t] # c
    <3>1. Below(h, sub, c, np)
          BY <1>1, AvlApart
    <3> QED BY <3>1, Zenon DEF Below
  <2>4. np # r
        BY <1>1, <2>2, Zenon
  <2>5. \A t \in {0, 1} : h[np].link[t] \notin {r, c, np} /\ h[c].link[t] \notin {r, c}
    <3> QED BY <2>2, <2>3, Zenon
  <2>6. h[c].link[s] # np /\ h[r].link[1 - s] \notin {c, np}
        BY <1>1, <2>2, <2>3, <2>4, Zenon DEF OnlyLink
  <2> QED BY <2>1, <2>2, <2>3, <2>4, <2>5, <2>6, Zenon
<1>3. SearchTree(AvlKeys, mid, one)
  <2>1. LinksTurned(AvlKeys, h, mid, c, 1 - s, np)
        BY <1>1, Zenon DEF LinksTurned
  <2> QED BY <1>1, <2>1, TurnTree, Zenon
<1>4. \A x \in AvlKeys, t \in {0, 1} : mid[x].link[t] = link(x, t)
      BY Zenon
<1>5. /\ one[np] = sub[c]
      /\ \A x \in AvlKeys \union {0} : x \notin {c, np} => one[x] = sub[x]
      /\ DOMAIN one = AvlKeys \union {0}
      BY <1>2, Zenon DEF TurnedSub
<1> HIDE DEF one, mid
<1> HIDE <1>0
<1>6. /\ mid[r].link[s] = np /\ mid[np].link[1 - s] = h[np].link[1 - s]
      /\ mid[np].link[s] = c
      /\ OnlyLink(AvlKeys, mid, r, s, np)
  <2>1. h[r].link[s] = c /\ h[c].link[1 - s] = np
        BY <1>0
  <2>2. /\ mid[r].link[s] = np /\ mid[np].link[1 - s] = h[np].link[1 - s]
        /\ mid[np].link[s] = c
        BY <1>1, <1>2, <1>4, <2>1
  <2>3. ASSUME NEW x \in AvlKeys, NEW t \in {0, 1}, mid[x].link[t] = np
        PROVE  x = r /\ t = s
    <3>1. link(x, t) = np
          BY <1>4, <2>3
    <3>2. h[x].link[t] = c
          BY <1>1, <1>2, <2>1, <3>1 DEF OnlyLink
    <3> QED BY <3>2 DEF OnlyLink
  <2> QED BY <2>2, <2>3 DEF OnlyLink
<1>7. LinksTurned(AvlKeys, mid, g, r, s, np)
  <2>1. h[r].link[s] = c /\ h[c].link[1 - s] = np
        BY <1>0
  <2> SUFFICES ASSUME NEW x \in AvlKeys, NEW t \in {0, 1}
               PROVE  g[x].link[t] = IF x = r /\ t = s THEN mid[np].link[1 - s]
                                     ELSE IF x = np /\ t = 1 - s THEN r
                                     ELSE IF mid[x].link[t] = r THEN np ELSE mid[x].link[t]
      BY DEF LinksTurned
  <2>2. mid[x].link[t] = link(x, t)
        BY <1>4
  <2>3. CASE x = c
    <3>1. g[c].link[t] = IF t = s THEN h[c].link[s] ELSE h[np].link[s]
          BY DEF DoubleNodes
    <3> QED BY <1>1, <1>2, <2>1, <2>2, <2>3, <3>1
  <2>4. CASE x = r
    <3>1. g[r].link[t] = IF t = s THEN h[np].link[1 - s] ELSE h[r].link[1 - s]
          BY DEF DoubleNodes
    <3> QED BY <1>1, <1>2, <1>6, <2>1, <2>2, <2>4, <3>1
  <2>5. CASE x = np
    <3>1. g[np].link[t] = IF t = s THEN c ELSE r
          BY DEF DoubleNodes
    <3> QED BY <1>1, <1>2, <1>6, <2>1, <2>2, <2>5, <3>1
  <2>6. CASE x \notin {r, c, np}
    <3>1. g[x].link[t] = IF h[x].link[t] = r THEN np ELSE h[x].link[t]
          BY <2>6 DEF DoubleNodes
    <3>2. h[x].link[t] # c
          BY <2>6 DEF OnlyLink
    <3> QED BY <1>1, <1>2, <2>1, <2>2, <2>6, <3>1, <3>2
  <2> QED BY <2>3, <2>4, <2>5, <2>6
<1>8. SearchTree(AvlKeys, g, two)
      BY <1>3, <1>6, <1>7, TurnTree
<1>9. /\ two[np] = sub[r]
      /\ \A x \in AvlKeys \union {0} : x \notin {r, c, np} => two[x] = sub[x]
      BY <1>2, <1>5 DEF TurnedSub
<1> HIDE DEF two
<1> QED BY <1>8, <1>9 DEF TurnedTwice

-----------------------------------------------------------------------------
(***************************************************************************)
(* Either rotation: top takes the place of r, and the nodes of M get other *)
(* children.                                                               *)
(***************************************************************************)
Rotated(h, g, r, M, top) ==
    /\ g \in [AvlKeys -> AvlNode]
    /\ M \subseteq AvlKeys /\ r \in M /\ top \in M
    /\ g[top].up = h[r].up
    /\ \A x \in M : x = r \/ \E y \in AvlKeys, t \in {0, 1} : h[y].link[t] = x
    /\ \A x \in AvlKeys \ M : \A t \in {0, 1} :
          /\ h[x].link[t] \in M => h[x].link[t] = r
          /\ g[x].link[t] = IF h[x].link[t] = r THEN top ELSE h[x].link[t]
    /\ \A x \in AvlKeys \ M :
          /\ g[x].bf = h[x].bf
          /\ g[x].up = h[x].up \/ \E y \in AvlKeys, t \in {0, 1} : h[y].link[t] = x

\* sub becomes new.
Resub(sub, new, r, M, top) ==
    /\ new[top] = sub[r]
    /\ \A x \in (AvlKeys \union {0}) \ M : new[x] = sub[x]

\* What the tree of root q is after it.
LEMMA RotatedTree ==
    ASSUME NEW h, NEW q, NEW sub, AvlTree(h, q, sub), NEW r \in sub[q],
           h[r].up = 0 <=> r = q,
           NEW M, NEW top, NEW g, Rotated(h, g, r, M, top),
           NEW new, SearchTree(AvlKeys, g, new), Resub(sub, new, r, M, top),
           NEW p, p = IF h[r].up = 0 THEN top ELSE q
    PROVE  AvlTree(g, p, new) /\ new[p] = sub[q]
<1>1. /\ h \in [AvlKeys -> AvlNode] /\ SearchTree(AvlKeys, h, sub)
      /\ q \in AvlKeys /\ h[q].up = 0
      /\ \A x \in AvlKeys \ sub[q] : h[x] = Avl!NewNode
  <2>1. sub[0] = {}
        BY DEF AvlTree, SearchTree
  <2> QED BY <2>1, AvlKeysFacts DEF AvlTree
<1>2. /\ g \in [AvlKeys -> AvlNode] /\ M \subseteq AvlKeys /\ top \in M
      BY DEF Rotated
<1>3. \A y \in AvlKeys, t \in {0, 1} :
         h[y].link[t] # 0 => h[y].link[t] # q /\ h[y].link[t] \in sub[q] /\ y \in sub[q]
      BY LinkIn
<1>4. \A x \in AvlKeys : (\E y \in AvlKeys, t \in {0, 1} : h[y].link[t] = x)
                         => x # q /\ x \in sub[q]
      BY <1>3, AvlKeysFacts
<1>5. \A x \in M : x \in sub[q] /\ (x = r \/ x # q)
  <2>1. \A x \in M : x \in AvlKeys /\ (x = r \/ \E y \in AvlKeys, t \in {0, 1} : h[y].link[t] = x)
        BY DEF Rotated
  <2> QED BY <1>4, <2>1
<1>6. new[p] = sub[q] /\ p \in AvlKeys /\ g[p].up = 0
  <2>1. CASE h[r].up = 0
    <3>1. p = top /\ r = q
          BY <2>1
    <3> QED BY <1>1, <1>2, <2>1, <3>1 DEF Rotated, Resub
  <2>2. CASE h[r].up # 0
    <3>1. p = q /\ r # q
          BY <2>2
    <3>2. q \notin M
          BY <1>5, <3>1
    <3>3. new[q] = sub[q]
          BY <1>1, <3>2 DEF Resub
    <3>4. g[q].up = h[q].up
          BY <1>1, <1>4, <3>2 DEF Rotated
    <3> QED BY <1>1, <3>1, <3>3, <3>4
  <2> QED BY <2>1, <2>2
<1>7. ASSUME NEW x \in AvlKeys, x \notin sub[q]
      PROVE  g[x] = Avl!NewNode
  <2>1. x \notin M /\ ~ \E y \in AvlKeys, t \in {0, 1} : h[y].link[t] = x
        BY <1>4, <1>5, <1>7
  <2>2. h[x].up = 0 /\ h[x].bf = 0 /\ \A t \in {0, 1} : h[x].link[t] = 0
        BY <1>1, <1>7, AvlNewNodeIs
  <2>3. g[x].up = 0 /\ g[x].bf = 0 /\ \A t \in {0, 1} : g[x].link[t] = 0
    <3>1. r # 0
          BY AvlKeysFacts DEF Rotated
    <3> QED BY <2>1, <2>2, <3>1 DEF Rotated
  <2>4. g[x] \in AvlNode
        BY <1>2
  <2> QED BY <2>3, <2>4, AvlBlank
<1> QED BY <1>2, <1>6, <1>7 DEF AvlTree

\* Heights, and the balance factors they are exact for.
Levels(h, ht, g) == Heights(AvlKeys, h, ht, g) /\ Balances(h, ht)

\* What a node tells of itself, from side s.
LevelAt(h, ht, x, s, e) ==
    /\ ht[h[x].link[s]] \in Nat /\ ht[h[x].link[1 - s]] \in Nat
    /\ ht[x] = Higher(ht[h[x].link[s]], ht[h[x].link[1 - s]]) + e
    /\ h[x].bf = IF s = 1 THEN ht[h[x].link[s]] - ht[h[x].link[1 - s]]
                          ELSE ht[h[x].link[1 - s]] - ht[h[x].link[s]]

LEMMA LevelSides ==
    ASSUME NEW h, NEW ht, NEW x, NEW s \in {0, 1}, NEW t \in {0, 1}, NEW e,
           LevelAt(h, ht, x, s, e)
    PROVE  LevelAt(h, ht, x, t, e)
<1>1. CASE s = t
      BY <1>1
<1>2. CASE s # t
  <2>1. 1 - s = t /\ 1 - t = s
        BY <1>2
  <2>2. \A a, b \in Nat : Higher(a, b) = Higher(b, a)
        BY DEF Higher
  <2>3. /\ ht[h[x].link[s]] \in Nat /\ ht[h[x].link[t]] \in Nat
        /\ ht[x] = Higher(ht[h[x].link[s]], ht[h[x].link[t]]) + e
        /\ h[x].bf = IF s = 1 THEN ht[h[x].link[s]] - ht[h[x].link[t]]
                              ELSE ht[h[x].link[t]] - ht[h[x].link[s]]
        BY <2>1 DEF LevelAt
  <2>4. ht[x] = Higher(ht[h[x].link[t]], ht[h[x].link[s]]) + e
        BY <2>2, <2>3
  <2>5. h[x].bf = IF t = 1 THEN ht[h[x].link[t]] - ht[h[x].link[s]]
                           ELSE ht[h[x].link[s]] - ht[h[x].link[t]]
        BY <1>2, <2>3
  <2> QED BY <2>1, <2>3, <2>4, <2>5 DEF LevelAt
<1> QED BY <1>1, <1>2

\* ht becomes nh: the nodes outside M have the heights they had.
Relevelled(g, ht, nh, r, M, top) ==
    /\ nh \in [AvlKeys \union {0} -> Nat]
    /\ nh[top] = ht[r]
    /\ \A x \in (AvlKeys \union {0}) \ M : nh[x] = ht[x]
    /\ \A x \in M : \E s \in {0, 1} : LevelAt(g, nh, x, s, 1)

LEMMA RotatedLevels ==
    ASSUME NEW h, NEW sub, SearchTree(AvlKeys, h, sub), NEW ht, NEW r, Levels(h, ht, r),
           NEW M, NEW top, NEW g, Rotated(h, g, r, M, top),
           NEW new, SearchTree(AvlKeys, g, new),
           NEW nh, Relevelled(g, ht, nh, r, M, top)
    PROVE  Levels(g, nh, 0)
<1>0. /\ nh \in [AvlKeys \union {0} -> Nat] /\ nh[top] = ht[r]
      /\ \A x \in (AvlKeys \union {0}) \ M : nh[x] = ht[x]
      /\ \A x \in M : \E s \in {0, 1} : LevelAt(g, nh, x, s, 1)
      BY DEF Relevelled
<1>1. /\ ht \in [AvlKeys \union {0} -> Nat] /\ ht[0] = 0
      /\ \A x \in AvlKeys : /\ ht[x] = Higher(ht[h[x].link[0]], ht[h[x].link[1]])
                                         + IF x = r THEN 0 ELSE 1
                            /\ h[x].bf = ht[h[x].link[1]] - ht[h[x].link[0]]
      BY DEF Levels, Heights, Balances
<1>2. \A x \in AvlKeys, t \in {0, 1} : h[x].link[t] \in AvlKeys \union {0}
      BY DEF SearchTree
<1>3. 0 \notin M /\ r \in M /\ \A x \in M : x \in AvlKeys
      BY AvlKeysFacts DEF Rotated
<1>4. ASSUME NEW x \in AvlKeys
      PROVE  /\ nh[x] = Higher(nh[g[x].link[0]], nh[g[x].link[1]]) + IF x = 0 THEN 0 ELSE 1
             /\ g[x].bf = nh[g[x].link[1]] - nh[g[x].link[0]]
  <2>1. CASE x \in M
    <3>1. LevelAt(g, nh, x, 0, 1)
      <4>1. PICK s \in {0, 1} : LevelAt(g, nh, x, s, 1)
            BY <1>0, <2>1
      <4> QED BY <4>1, LevelSides
    <3>2. 1 - 0 = 1 /\ x # 0
          BY AvlKeysFacts
    <3>3. /\ nh[x] = Higher(nh[g[x].link[0]], nh[g[x].link[1]]) + 1
          /\ g[x].bf = nh[g[x].link[1]] - nh[g[x].link[0]]
          BY <3>1, <3>2 DEF LevelAt
    <3> QED BY <3>2, <3>3
  <2>2. CASE x \notin M
    <3>1. ASSUME NEW t \in {0, 1} PROVE nh[g[x].link[t]] = ht[h[x].link[t]]
      <4>1. /\ h[x].link[t] \in M => h[x].link[t] = r
            /\ g[x].link[t] = IF h[x].link[t] = r THEN top ELSE h[x].link[t]
            BY <2>2 DEF Rotated
      <4> QED BY <1>0, <1>2, <4>1
    <3>2. nh[x] = ht[x] /\ g[x].bf = h[x].bf
          BY <1>0, <2>2 DEF Rotated
    <3>3. x # r /\ x # 0
          BY <1>3, <2>2, AvlKeysFacts
    <3> QED BY <1>1, <3>1, <3>2, <3>3
  <2> QED BY <2>1, <2>2
<1>5. nh[0] = 0
      BY <1>0, <1>1, <1>3
<1> QED BY <1>0, <1>4, <1>5 DEF Levels, Heights, Balances

\* The heights at a rotation: z is the higher of x and y, and one of the two is
\* one more than the other.
LEMMA UpByOne ==
    ASSUME NEW z \in Nat, NEW x \in Nat, NEW y \in Nat,
           x = y + 1, z + 2 = Higher(x, y) + 1
    PROVE  x = z + 1 /\ y = z
BY DEF Higher

LEMMA HigherSwaps ==
    ASSUME NEW x \in Nat, NEW y \in Nat
    PROVE  Higher(x, y) = Higher(y, x)
BY DEF Higher

\* A node r that leans by two levels to its child c, and has not been turned yet.
Leans(h, q, sub, ht, r, s, c) ==
    /\ AvlTree(h, q, sub) /\ Levels(h, ht, r)
    /\ r \in AvlKeys /\ r \in sub[q] /\ s \in {0, 1}
    /\ c \in AvlKeys /\ c = h[r].link[s] /\ c # r
    /\ OnlyLink(AvlKeys, h, r, s, c)
    /\ AvlOnlyFrom(h, h[r].up, r)
    /\ h[r].up = 0 <=> r = q
    /\ h[r].link[1 - s] \in AvlKeys \union {0}
    /\ ht[c] = ht[h[r].link[1 - s]] + 2
    /\ h[c].bf \in {-1, 1}
    /\ \A x \in AvlKeys \ {r} : h[x].bf \in -1 .. 1

LEMMA PivotReady ==
    ASSUME NEW o, NEW h, NEW q, NEW sub, NEW ht, AvlState(o, h, q, sub, ht),
           o.pc = "pivot", NEW r, NEW s, NEW c, c = h[r].link[s]
    PROVE  r = o.ub /\ s = (IF h[r].bf < 0 THEN 0 ELSE 1) =>
             /\ Leans(h, q, sub, ht, r, s, c)
             /\ h[c].bf = (IF s = 1 THEN -1 ELSE 1) => h[c].link[1 - s] \in AvlKeys
<1>0. SUFFICES ASSUME r = o.ub, s = IF h[r].bf < 0 THEN 0 ELSE 1
               PROVE  /\ Leans(h, q, sub, ht, r, s, c)
                      /\ h[c].bf = (IF s = 1 THEN -1 ELSE 1)
                             => h[c].link[1 - s] \in AvlKeys
      BY Zenon
<1> USE <1>0
<1>1. /\ r \in AvlKeys /\ r \in sub[q] /\ s \in {0, 1}
      /\ c \in AvlKeys /\ c # r
      /\ h[r].link[1 - s] \in AvlKeys \union {0}
      /\ ht[c] = ht[h[r].link[1 - s]] + 2
      /\ h[c].bf \in {-1, 1}
      /\ h[c].bf = (IF s = 1 THEN -1 ELSE 1) => h[c].link[1 - s] \in AvlKeys
  <2>1. Turnable(h, q, sub, ht, r, s, c)
        BY PivotFacts
  <2> QED BY <2>1, Zenon DEF Turnable
<1>2. /\ AvlTree(h, q, sub) /\ Levels(h, ht, r)
      /\ Traced(h, q, sub, o.key) /\ o.key \in sub[r]
      /\ \A x \in AvlKeys \ {r} : h[x].bf \in -1 .. 1
      BY DEF AvlState, AvlOp, GrownOf, Levels
<1> HIDE <1>0
<1>3. OnlyLink(AvlKeys, h, r, s, c)
      BY <1>1, <1>2, LinkIn, AvlKeysFacts
<1>4. AvlOnlyFrom(h, h[r].up, r) /\ (h[r].up = 0 <=> r = q)
  <2>1. CASE r = q
    <3>1. h[r].up = 0
          BY <1>1, <1>2, <2>1, AvlKeysFacts DEF AvlTree
    <3>2. \A y \in AvlKeys, t \in {0, 1} : h[y].link[t] # r
      <4>1. \A y \in AvlKeys, t \in {0, 1} : h[y].link[t] # 0 => h[y].link[t] # q
            BY <1>2, LinkIn
      <4> QED BY <1>1, <2>1, <4>1, AvlKeysFacts
    <3> QED BY <2>1, <3>1, <3>2 DEF AvlOnlyFrom
  <2>2. CASE r # q
    <3> DEFINE p == h[r].up
    <3>1. /\ p \in AvlKeys
          /\ \E i \in {0, 1} : h[p].link[i] = r /\ OnlyLink(AvlKeys, h, p, i, r)
          BY <1>1, <1>2, <2>2, PathParent
    <3> HIDE DEF p
    <3>2. PICK i \in {0, 1} : h[p].link[i] = r /\ OnlyLink(AvlKeys, h, p, i, r)
          BY <3>1
    <3>3. i = IF h[p].link[0] = r THEN 0 ELSE 1
          BY <3>1, <3>2 DEF OnlyLink
    <3>4. AvlOnlyFrom(h, p, r)
          BY <3>1, <3>2, <3>3 DEF AvlOnlyFrom, OnlyLink
    <3> QED BY <2>2, <3>1, <3>4, AvlKeysFacts DEF p
  <2> QED BY <2>1, <2>2
<1> QED BY <1>1, <1>2, <1>3, <1>4 DEF Leans

\* What the climb leaves behind: the tree holds what it held, and everyone knows
\* how high it is.
Restored(h, g, q, sub, r, top) ==
    LET p == IF h[r].up = 0 THEN top ELSE q
    IN \E new, nh :
          /\ AvlTree(g, p, new) /\ new[p] = sub[q]
          /\ Levels(g, nh, 0)
          /\ \A x \in AvlKeys : g[x].bf \in -1 .. 1
          /\ g[top].up = h[r].up

LEMMA RotationRestores ==
    ASSUME NEW h, NEW q, NEW sub, NEW ht, NEW r, NEW s, NEW c,
           Leans(h, q, sub, ht, r, s, c),
           NEW M, NEW top, NEW g, Rotated(h, g, r, M, top),
           NEW new, SearchTree(AvlKeys, g, new), Resub(sub, new, r, M, top),
           NEW nh, Relevelled(g, ht, nh, r, M, top),
           \A x \in M : g[x].bf \in -1 .. 1
    PROVE  Restored(h, g, q, sub, r, top)
<1> DEFINE p == IF h[r].up = 0 THEN top ELSE q
<1>1. /\ AvlTree(h, q, sub) /\ Levels(h, ht, r) /\ r \in sub[q]
      /\ (h[r].up = 0 <=> r = q) /\ SearchTree(AvlKeys, h, sub)
      /\ \A x \in AvlKeys \ {r} : h[x].bf \in -1 .. 1
      BY DEF Leans, AvlTree
<1>2. AvlTree(g, p, new) /\ new[p] = sub[q]
      BY <1>1, RotatedTree
<1>3. Levels(g, nh, 0)
  <2>1. SearchTree(AvlKeys, h, sub) /\ Levels(h, ht, r)
        BY <1>1
  <2> HIDE DEF p
  <2> QED BY <2>1, RotatedLevels
<1>4. ASSUME NEW x \in AvlKeys PROVE g[x].bf \in -1 .. 1
  <2>1. CASE x \in M
        BY <2>1
  <2>2. CASE x \notin M
        BY <1>1, <2>2 DEF Rotated
  <2> QED BY <2>1, <2>2
<1>5. g[top].up = h[r].up
      BY DEF Rotated
<1> QED BY <1>2, <1>3, <1>4, <1>5 DEF Restored

\* Heights about a node that leans, seen from the heavy side.
LEMMA HeavyLevels ==
    ASSUME NEW h, NEW q, NEW sub, NEW ht, NEW r, NEW s, NEW c,
           Leans(h, q, sub, ht, r, s, c)
    PROVE  /\ ht[h[r].link[1 - s]] \in Nat /\ ht[r] = ht[h[r].link[1 - s]] + 2
           /\ ht[c] = ht[h[r].link[1 - s]] + 2
           /\ ht[h[c].link[s]] \in Nat /\ ht[h[c].link[1 - s]] \in Nat
           /\ ht[c] = Higher(ht[h[c].link[s]], ht[h[c].link[1 - s]]) + 1
           /\ h[c].bf = IF s = 1 THEN ht[h[c].link[s]] - ht[h[c].link[1 - s]]
                                 ELSE ht[h[c].link[1 - s]] - ht[h[c].link[s]]
<1>1. /\ SearchTree(AvlKeys, h, sub) /\ Heights(AvlKeys, h, ht, r) /\ Balances(h, ht)
      /\ r \in AvlKeys /\ c \in AvlKeys /\ s \in {0, 1}
      BY DEF Leans, AvlTree, Levels
<1>0. c # r /\ c = h[r].link[s] /\ ht[c] = ht[h[r].link[1 - s]] + 2
      BY DEF Leans
<1>2. /\ ht[h[r].link[s]] \in Nat /\ ht[h[r].link[1 - s]] \in Nat
      /\ ht[r] = Higher(ht[h[r].link[s]], ht[h[r].link[1 - s]]) + IF r = r THEN 0 ELSE 1
      BY <1>1, AvlSides
<1>3. ht[r] = ht[h[r].link[1 - s]] + 2
      BY <1>0, <1>2 DEF Higher
<1>4. /\ ht[h[c].link[s]] \in Nat /\ ht[h[c].link[1 - s]] \in Nat
      /\ ht[c] = Higher(ht[h[c].link[s]], ht[h[c].link[1 - s]]) + IF c = r THEN 0 ELSE 1
      /\ h[c].bf = IF s = 1 THEN ht[h[c].link[s]] - ht[h[c].link[1 - s]]
                            ELSE ht[h[c].link[1 - s]] - ht[h[c].link[s]]
      BY <1>1, AvlSides
<1> QED BY <1>0, <1>2, <1>3, <1>4, Zenon

\* The child leans the same way: one rotation.
LEMMA SingleTurn ==
    ASSUME NEW h, NEW q, NEW sub, NEW ht, NEW r, NEW s, NEW c,
           Leans(h, q, sub, ht, r, s, c),
           h[c].bf = IF s = 1 THEN 1 ELSE -1
    PROVE  Restored(h, Avl!Single(h, r, s), q, sub, r, c)
<1> DEFINE g == Avl!Single(h, r, s)
           inner == h[c].link[1 - s]
           outer == h[c].link[s]
           other == h[r].link[1 - s]
           H == ht[other]
           M == {r, c}
           new == TurnedSub(sub, h, r, s, c)
           nh == [x \in AvlKeys \union {0} |->
                    IF x = r THEN H + 1 ELSE IF x = c THEN H + 2 ELSE ht[x]]
<1>1. /\ h \in [AvlKeys -> AvlNode] /\ SearchTree(AvlKeys, h, sub)
      /\ r \in AvlKeys /\ s \in {0, 1} /\ c \in AvlKeys /\ c = h[r].link[s] /\ c # r
      /\ OnlyLink(AvlKeys, h, r, s, c) /\ AvlOnlyFrom(h, h[r].up, r)
      /\ ht \in [AvlKeys \union {0} -> Nat]
      BY DEF Leans, AvlTree, Levels, Heights
<1>2. /\ 1 - s \in {0, 1} /\ s # 1 - s
      /\ inner \notin {r, c} /\ outer \notin {r, c} /\ other \notin {r, c}
      /\ inner \in AvlKeys \union {0} /\ outer \in AvlKeys \union {0}
      /\ other \in AvlKeys \union {0}
      /\ \A t \in {0, 1} : t = s \/ t = 1 - s
  <2>1. 1 - s \in {0, 1} /\ s # 1 - s /\ \A t \in {0, 1} : t = s \/ t = 1 - s
        BY <1>1
  <2>2. /\ c \in sub[c] /\ \A t \in {0, 1} : h[r].link[t] # r /\ h[c].link[t] # c
        /\ \A x \in sub[c], t \in {0, 1} : h[x].link[t] # r
    <3>1. Below(h, sub, r, c)
          BY <1>1, AvlApart
    <3> QED BY <3>1 DEF Below
  <2>3. other # c
        BY <1>1, <2>1 DEF OnlyLink
  <2>4. \A x \in AvlKeys, t \in {0, 1} : h[x].link[t] \in AvlKeys \union {0}
        BY <1>1 DEF SearchTree
  <2> QED BY <1>1, <2>1, <2>2, <2>3, <2>4
<1>3. SingleNodes(h, g, r, s, c)
      BY <1>1, <1>2, SingleIs
<1>4. /\ g \in [AvlKeys -> AvlNode] /\ LinksTurned(AvlKeys, h, g, r, s, c)
      /\ \A x \in AvlKeys :
            /\ g[x].up = IF x = c THEN h[r].up
                         ELSE IF x = r THEN c
                         ELSE IF x = h[c].link[1 - s] THEN r ELSE h[x].up
            /\ g[x].bf = IF x \in {r, c} THEN 0 ELSE h[x].bf
      BY <1>3 DEF SingleNodes
<1>5. SearchTree(AvlKeys, g, new)
  <2> HIDE DEF g
  <2> QED BY <1>1, <1>4, TurnTree, Zenon
<1>6. Resub(sub, new, r, M, c)
  <2>1. DOMAIN sub = AvlKeys \union {0}
        BY <1>1 DEF SearchTree
  <2> QED BY <1>1, <2>1, Zenon DEF Resub, TurnedSub
<1>7. /\ H \in Nat /\ ht[r] = H + 2 /\ ht[inner] = H /\ ht[outer] = H + 1
  <2>1. /\ H \in Nat /\ ht[r] = H + 2 /\ ht[c] = H + 2
        /\ ht[outer] \in Nat /\ ht[inner] \in Nat
        /\ ht[c] = Higher(ht[outer], ht[inner]) + 1
        /\ h[c].bf = IF s = 1 THEN ht[outer] - ht[inner] ELSE ht[inner] - ht[outer]
        BY HeavyLevels
  <2> HIDE DEF H, outer, inner
  <2>2. ht[outer] = ht[inner] + 1
        BY <1>1, <2>1
  <2>3. H + 2 = Higher(ht[outer], ht[inner]) + 1
        BY <2>1
  <2>4. ht[outer] = H + 1 /\ ht[inner] = H
        BY <2>1, <2>2, <2>3, UpByOne
  <2> QED BY <2>1, <2>4
<1>8. /\ g[r].link[s] = inner /\ g[r].link[1 - s] = other
      /\ g[c].link[s] = outer /\ g[c].link[1 - s] = r
  <2>1. \A t \in {0, 1} : g[r].link[t] = IF t = s THEN inner
                                          ELSE IF r = c /\ t = 1 - s THEN r
                                          ELSE IF h[r].link[t] = r THEN c ELSE h[r].link[t]
        BY <1>1, <1>4 DEF LinksTurned
  <2>2. \A t \in {0, 1} : g[c].link[t] = IF t = 1 - s THEN r
                                          ELSE IF h[c].link[t] = r THEN c ELSE h[c].link[t]
        BY <1>1, <1>4 DEF LinksTurned
  <2> HIDE DEF g
  <2> QED BY <1>1, <1>2, <2>1, <2>2, Zenon
<1>9. /\ \A x \in AvlKeys \ M : \A t \in {0, 1} :
            /\ h[x].link[t] \in M => h[x].link[t] = r
            /\ g[x].link[t] = IF h[x].link[t] = r THEN c ELSE h[x].link[t]
      /\ \A x \in AvlKeys \ M :
            /\ g[x].bf = h[x].bf
            /\ g[x].up = h[x].up \/ \E y \in AvlKeys, t \in {0, 1} : h[y].link[t] = x
  <2>1. ASSUME NEW x \in AvlKeys \ M
        PROVE  /\ \A t \in {0, 1} :
                     /\ h[x].link[t] \in M => h[x].link[t] = r
                     /\ g[x].link[t] = IF h[x].link[t] = r THEN c ELSE h[x].link[t]
               /\ g[x].bf = h[x].bf
               /\ g[x].up = h[x].up \/ \E y \in AvlKeys, t \in {0, 1} : h[y].link[t] = x
    <3>1. \A t \in {0, 1} : h[x].link[t] # c
          BY DEF OnlyLink, Leans
    <3>2. \A t \in {0, 1} : g[x].link[t] = IF h[x].link[t] = r THEN c ELSE h[x].link[t]
          BY <1>4 DEF LinksTurned
    <3>3. g[x].up = h[x].up \/ x = h[c].link[1 - s]
          BY <1>4
    <3> QED BY <1>1, <1>2, <1>4, <3>1, <3>2, <3>3, Zenon
  <2> QED BY <2>1
<1>10. Rotated(h, g, r, M, c)
  <2>1. \A x \in M : x = r \/ \E y \in AvlKeys, t \in {0, 1} : h[y].link[t] = x
        BY <1>1
  <2>2. g[c].up = h[r].up
        BY <1>1, <1>4
  <2> HIDE DEF g
  <2> QED BY <1>1, <1>4, <1>9, <2>1, <2>2 DEF Rotated
<1> HIDE DEF g, new
<1>11. Relevelled(g, ht, nh, r, M, c)
  <2>1. /\ nh \in [AvlKeys \union {0} -> Nat] /\ nh[c] = H + 2 /\ nh[r] = H + 1
        /\ \A x \in (AvlKeys \union {0}) \ M : nh[x] = ht[x]
    <3>1. \A x \in AvlKeys \union {0} :
             (IF x = r THEN H + 1 ELSE IF x = c THEN H + 2 ELSE ht[x]) \in Nat
      <4> HIDE DEF H
      <4> QED BY <1>1, <1>7
    <3>2. nh \in [AvlKeys \union {0} -> Nat]
      <4> HIDE DEF H
      <4> QED BY <3>1
    <3>3. \A x \in AvlKeys \union {0} :
             nh[x] = IF x = r THEN H + 1 ELSE IF x = c THEN H + 2 ELSE ht[x]
          OBVIOUS
    <3> HIDE DEF nh, H
    <3> QED BY <1>1, <3>2, <3>3
  <2>2. nh[inner] = H /\ nh[outer] = H + 1 /\ nh[other] = H
        BY <1>2, <1>7, <2>1, Zenon
  <2> HIDE DEF nh, H, inner, outer, other
  <2>3. LevelAt(g, nh, r, s, 1)
    <3>1. g[r].bf = 0 BY <1>1, <1>4
    <3> QED BY <1>7, <1>8, <2>1, <2>2, <3>1 DEF LevelAt, Higher
  <2>4. LevelAt(g, nh, c, s, 1)
    <3>1. g[c].bf = 0 BY <1>1, <1>4
    <3> QED BY <1>7, <1>8, <2>1, <2>2, <3>1 DEF LevelAt, Higher
  <2>5. \A x \in M : \E t \in {0, 1} : LevelAt(g, nh, x, t, 1)
        BY <1>1, <2>3, <2>4
  <2> QED BY <1>7, <2>1, <2>5 DEF Relevelled
<1>12. \A x \in M : g[x].bf \in -1 .. 1
       BY <1>1, <1>4
<1> HIDE DEF nh, M
<1>13. Restored(h, g, q, sub, r, c)
       BY <1>5, <1>6, <1>10, <1>11, <1>12, RotationRestores
<1> QED BY <1>13 DEF g

\* The child leans the other way: two rotations at once.
LEMMA DoubleTurn ==
    ASSUME NEW h, NEW q, NEW sub, NEW ht, NEW r, NEW s, NEW c,
           Leans(h, q, sub, ht, r, s, c),
           h[c].bf = IF s = 1 THEN -1 ELSE 1,
           NEW np \in AvlKeys
    PROVE  np = h[c].link[1 - s] => Restored(h, Avl!Double(h, r, s), q, sub, r, np)
<1>0. SUFFICES ASSUME np = h[c].link[1 - s]
               PROVE  Restored(h, Avl!Double(h, r, s), q, sub, r, np)
      OBVIOUS
<1> USE <1>0
<1> DEFINE g == Avl!Double(h, r, s)
           outer == h[c].link[s]
           other == h[r].link[1 - s]
           a == h[np].link[s]
           b == h[np].link[1 - s]
           H == ht[other]
           M == {r, c, np}
           nh == [x \in AvlKeys \union {0} |->
                    IF x = np THEN H + 2 ELSE IF x \in {r, c} THEN H + 1 ELSE ht[x]]
<1>1. /\ h \in [AvlKeys -> AvlNode] /\ SearchTree(AvlKeys, h, sub)
      /\ r \in AvlKeys /\ s \in {0, 1} /\ c \in AvlKeys /\ c = h[r].link[s] /\ c # r
      /\ OnlyLink(AvlKeys, h, r, s, c) /\ AvlOnlyFrom(h, h[r].up, r)
      /\ ht \in [AvlKeys \union {0} -> Nat]
      /\ AvlTree(h, q, sub) /\ Heights(AvlKeys, h, ht, r) /\ Balances(h, ht)
      BY DEF Leans, AvlTree, Levels, Heights
<1>2. 1 - s \in {0, 1} /\ s # 1 - s /\ \A t \in {0, 1} : t = s \/ t = 1 - s
      BY <1>1
<1>3. /\ OnlyLink(AvlKeys, h, c, 1 - s, np)
      /\ np # c /\ np # r
      /\ outer \notin M /\ other \notin M /\ a \notin M /\ b \notin M
      /\ outer \in AvlKeys \union {0} /\ other \in AvlKeys \union {0}
      /\ a \in AvlKeys \union {0} /\ b \in AvlKeys \union {0}
      /\ \A t \in {0, 1} : h[r].link[t] # r /\ h[c].link[t] # r /\ h[np].link[t] # r
  <2>1. OnlyLink(AvlKeys, h, c, 1 - s, np)
    <3>1. AvlTree(h, q, sub) /\ c \in AvlKeys /\ 1 - s \in {0, 1} /\ np # 0
          BY <1>1, <1>2, AvlKeysFacts
    <3> QED BY <3>1, LinkIn
  <2>2. /\ c \in sub[c] /\ \A t \in {0, 1} : h[r].link[t] # r /\ h[c].link[t] # c
        /\ \A x \in sub[c], t \in {0, 1} : h[x].link[t] # r
    <3>1. Below(h, sub, r, c)
          BY <1>1, AvlApart
    <3> QED BY <3>1 DEF Below
  <2>3. /\ np # c /\ np \in sub[np] /\ sub[np] \subseteq sub[c]
        /\ \A t \in {0, 1} : h[np].link[t] # np
        /\ \A x \in sub[np], t \in {0, 1} : h[x].link[t] # c
    <3>1. Below(h, sub, c, np)
          BY <1>1, <1>2, AvlApart
    <3> QED BY <3>1 DEF Below
  <2>4. \A x \in AvlKeys, t \in {0, 1} : h[x].link[t] \in AvlKeys \union {0}
        BY <1>1 DEF SearchTree
  <2>5. np # r
        BY <1>2, <2>2
  <2>6. other # c /\ other # np /\ outer # np
        BY <1>1, <1>2, <2>1 DEF OnlyLink
  <2>7. \A t \in {0, 1} : h[r].link[t] # r /\ h[c].link[t] # r /\ h[np].link[t] # r
        BY <2>2, <2>3
  <2>8. \A t \in {0, 1} : h[np].link[t] # c
        BY <2>3
  <2> HIDE <1>0
  <2> QED BY <1>1, <1>2, <2>1, <2>2, <2>3, <2>4, <2>5, <2>6, <2>7, <2>8, Zenon
<1>4. h[np].bf \in -1 .. 1
      BY <1>3, Zenon DEF Leans
<1>5. DoubleNodes(h, g, r, s, c, np)
  <2>1. /\ h \in [AvlKeys -> AvlNode] /\ r \in AvlKeys /\ s \in {0, 1} /\ c \in AvlKeys
        /\ c = h[r].link[s] /\ c # r /\ np # c /\ np # r
        /\ AvlOnlyFrom(h, h[r].up, r)
        BY <1>1, <1>3, Zenon
  <2>2. \A t \in {0, 1} : h[r].link[t] # r /\ h[c].link[t] # r /\ h[np].link[t] # r
        BY <1>3, Zenon
  <2> QED BY <1>4, <2>1, <2>2, DoubleIs, Zenon
<1> HIDE DEF g
<1>6. PICK new : /\ SearchTree(AvlKeys, g, new)
                 /\ new[np] = sub[r]
                 /\ \A x \in AvlKeys \union {0} : x \notin {r, c, np} => new[x] = sub[x]
  <2>1. /\ SearchTree(AvlKeys, h, sub) /\ r \in AvlKeys /\ s \in {0, 1}
        /\ c \in AvlKeys /\ c = h[r].link[s] /\ OnlyLink(AvlKeys, h, r, s, c)
        BY <1>1
  <2>2. OnlyLink(AvlKeys, h, c, 1 - s, np)
        BY <1>3, Zenon
  <2>3. TurnedTwice(g, sub, r, c, np)
        BY <1>5, <2>1, <2>2, DoubleTree
  <2> QED BY <2>3 DEF TurnedTwice
<1>7. Resub(sub, new, r, M, np)
      BY <1>6 DEF Resub
<1>8. Rotated(h, g, r, M, np)
  <2>1. \A x \in M : x = r \/ \E y \in AvlKeys, t \in {0, 1} : h[y].link[t] = x
        BY <1>1, <1>2
  <2>2. ASSUME NEW x \in AvlKeys \ M
        PROVE  /\ \A t \in {0, 1} :
                     /\ h[x].link[t] \in M => h[x].link[t] = r
                     /\ g[x].link[t] = IF h[x].link[t] = r THEN np ELSE h[x].link[t]
               /\ g[x].bf = h[x].bf /\ g[x].up = h[x].up
    <3>1. \A t \in {0, 1} : h[x].link[t] \notin {c, np}
          BY <1>1, <1>3, Zenon DEF OnlyLink
    <3> QED BY <1>5, <3>1, Zenon DEF DoubleNodes
  <2>3. g \in [AvlKeys -> AvlNode] /\ g[np].up = h[r].up
        BY <1>5 DEF DoubleNodes
  <2> QED BY <1>1, <2>1, <2>2, <2>3, Zenon DEF Rotated
<1>9. /\ H \in Nat /\ ht[r] = H + 2 /\ ht[outer] = H
      /\ ht[a] \in Nat /\ ht[b] \in Nat
      /\ Higher(H, ht[a]) = H /\ Higher(ht[b], H) = H
      /\ g[c].bf = IF s = 1 THEN H - ht[a] ELSE ht[a] - H
      /\ g[r].bf = IF s = 1 THEN ht[b] - H ELSE H - ht[b]
  <2>1. /\ H \in Nat /\ ht[r] = H + 2 /\ ht[c] = H + 2
        /\ ht[outer] \in Nat /\ ht[np] \in Nat
        /\ ht[c] = Higher(ht[outer], ht[np]) + 1
        /\ h[c].bf = IF s = 1 THEN ht[outer] - ht[np] ELSE ht[np] - ht[outer]
        BY HeavyLevels
  <2>2. /\ ht[a] \in Nat /\ ht[b] \in Nat
        /\ h[np].bf = IF s = 1 THEN ht[a] - ht[b] ELSE ht[b] - ht[a]
        /\ ht[np] = Higher(ht[a], ht[b]) + IF np = r THEN 0 ELSE 1
    <3>1. /\ SearchTree(AvlKeys, h, sub) /\ Heights(AvlKeys, h, ht, r)
          /\ Balances(h, ht) /\ s \in {0, 1}
          BY <1>1
    <3> HIDE <1>0
    <3> QED BY <3>1, AvlSides
  <2>3. ht[np] = Higher(ht[a], ht[b]) + 1
        BY <1>3, <2>2, Zenon
  <2>4. /\ g[c].bf = (IF h[np].bf = (IF s = 1 THEN -1 ELSE 1) THEN -h[np].bf ELSE 0)
        /\ g[r].bf = (IF h[np].bf = (IF s = 1 THEN 1 ELSE -1) THEN -h[np].bf ELSE 0)
        BY <1>5, Zenon DEF DoubleNodes
  <2>5. H + 2 = Higher(ht[outer], ht[np]) + 1
        BY <2>1
  <2> HIDE DEF H, outer, a, b
  <2>6. /\ ht[outer] = H /\ Higher(H, ht[a]) = H /\ Higher(ht[b], H) = H
        /\ (IF h[np].bf = (IF s = 1 THEN -1 ELSE 1) THEN -h[np].bf ELSE 0)
              = IF s = 1 THEN H - ht[a] ELSE ht[a] - H
        /\ (IF h[np].bf = (IF s = 1 THEN 1 ELSE -1) THEN -h[np].bf ELSE 0)
              = IF s = 1 THEN ht[b] - H ELSE H - ht[b]
    <3> HIDE <1>0
    <3>1. CASE s = 0
      <4>1. /\ ht[outer] \in Nat /\ ht[np] \in Nat /\ H \in Nat
            /\ ht[a] \in Nat /\ ht[b] \in Nat
            /\ ht[np] - ht[outer] = 1 /\ h[np].bf = ht[b] - ht[a]
            BY <2>1, <2>2, <3>1
      <4>2. ht[outer] = H /\ ht[np] = H + 1
        <5>1. Higher(ht[outer], ht[np]) = Higher(ht[np], ht[outer])
              BY <4>1, HigherSwaps
        <5>2. H + 2 = Higher(ht[np], ht[outer]) + 1
              BY <2>5, <5>1
        <5>3. ht[np] = ht[outer] + 1
              BY <4>1
        <5> QED BY ONLY <4>1, <5>2, <5>3, UpByOne
      <4>3. Higher(ht[a], ht[b]) = H
            BY <2>3, <4>1, <4>2 DEF Higher
      <4>4. ht[b] - ht[a] \in -1 .. 1
            BY <1>4, <4>1
      <4> QED BY <3>1, <4>1, <4>2, <4>3, <4>4 DEF Higher
    <3>2. CASE s = 1
      <4>1. /\ ht[outer] \in Nat /\ ht[np] \in Nat /\ H \in Nat
            /\ ht[a] \in Nat /\ ht[b] \in Nat
            /\ ht[outer] - ht[np] = -1 /\ h[np].bf = ht[a] - ht[b]
            BY <2>1, <2>2, <3>2
      <4>2. ht[outer] = H /\ ht[np] = H + 1
        <5>1. Higher(ht[outer], ht[np]) = Higher(ht[np], ht[outer])
              BY <4>1, HigherSwaps
        <5>2. H + 2 = Higher(ht[np], ht[outer]) + 1
              BY <2>5, <5>1
        <5>3. ht[np] = ht[outer] + 1
              BY <4>1
        <5> QED BY ONLY <4>1, <5>2, <5>3, UpByOne
      <4>3. Higher(ht[a], ht[b]) = H
            BY <2>3, <4>1, <4>2 DEF Higher
      <4>4. ht[a] - ht[b] \in -1 .. 1
            BY <1>4, <4>1
      <4> QED BY <3>2, <4>1, <4>2, <4>3, <4>4 DEF Higher
    <3> QED BY <1>1, <3>1, <3>2
  <2> QED BY <2>1, <2>2, <2>4, <2>6
<1>10. /\ g[c].link[s] = outer /\ g[c].link[1 - s] = a
       /\ g[r].link[s] = b /\ g[r].link[1 - s] = other
       /\ g[np].link[s] = c /\ g[np].link[1 - s] = r
       /\ g[np].bf = 0
       BY <1>1, <1>2, <1>5, Zenon DEF DoubleNodes
<1> HIDE DEF H, outer, other, a, b
<1>11. Relevelled(g, ht, nh, r, M, np)
  <2>1. /\ nh \in [AvlKeys \union {0} -> Nat]
        /\ nh[np] = H + 2 /\ nh[c] = H + 1 /\ nh[r] = H + 1
        /\ \A x \in (AvlKeys \union {0}) \ M : nh[x] = ht[x]
    <3>1. \A x \in AvlKeys \union {0} :
             (IF x = np THEN H + 2 ELSE IF x \in {r, c} THEN H + 1 ELSE ht[x]) \in Nat
      <4>1. H \in Nat
            BY <1>9
      <4> QED BY <1>1, <4>1
    <3>2. nh \in [AvlKeys \union {0} -> Nat]
          BY <3>1
    <3>3. \A x \in AvlKeys \union {0} :
             nh[x] = IF x = np THEN H + 2 ELSE IF x \in {r, c} THEN H + 1 ELSE ht[x]
          OBVIOUS
    <3> HIDE DEF nh
    <3> QED BY <1>1, <1>3, <3>2, <3>3, Zenon
  <2>2. nh[outer] = H /\ nh[other] = H /\ nh[a] = ht[a] /\ nh[b] = ht[b]
    <3>1. ht[outer] = H
          BY <1>9
    <3>2. ht[other] = H
          BY DEF H
    <3>3. \A x \in {outer, other, a, b} : nh[x] = ht[x]
      <4>1. \A x \in {outer, other, a, b} : x \in (AvlKeys \union {0}) \ M
            BY <1>3
      <4> HIDE DEF nh, M
      <4> QED BY <2>1, <4>1
    <3> QED BY <3>1, <3>2, <3>3
  <2> HIDE DEF nh
  <2>3. LevelAt(g, nh, r, s, 1)
    <3>1. /\ H \in Nat /\ ht[b] \in Nat /\ Higher(ht[b], H) = H
          /\ g[r].bf = IF s = 1 THEN ht[b] - H ELSE H - ht[b]
          BY <1>9
    <3>2. nh[b] = ht[b] /\ nh[other] = H /\ nh[r] = H + 1
          BY <2>1, <2>2
    <3> QED BY <1>10, <3>1, <3>2 DEF LevelAt
  <2>4. LevelAt(g, nh, c, s, 1)
    <3>1. /\ H \in Nat /\ ht[a] \in Nat /\ Higher(H, ht[a]) = H
          /\ g[c].bf = IF s = 1 THEN H - ht[a] ELSE ht[a] - H
          BY <1>9
    <3>2. nh[outer] = H /\ nh[a] = ht[a] /\ nh[c] = H + 1
          BY <2>1, <2>2
    <3> QED BY <1>10, <3>1, <3>2 DEF LevelAt
  <2>5. LevelAt(g, nh, np, s, 1)
    <3>1. H \in Nat /\ nh[np] = Higher(H + 1, H + 1) + 1
      <4>1. H \in Nat BY <1>9
      <4> QED BY <2>1, <4>1 DEF Higher
    <3>2. nh[c] = H + 1 /\ nh[r] = H + 1
          BY <2>1
    <3> QED BY <1>10, <3>1, <3>2 DEF LevelAt
  <2>6. \A x \in M : \E t \in {0, 1} : LevelAt(g, nh, x, t, 1)
        BY <1>1, <2>3, <2>4, <2>5
  <2> QED BY <1>9, <2>1, <2>6 DEF Relevelled
<1>12. \A x \in M : g[x].bf \in -1 .. 1
  <2>1. /\ g[c].bf = (IF h[np].bf = (IF s = 1 THEN -1 ELSE 1) THEN -h[np].bf ELSE 0)
        /\ g[r].bf = (IF h[np].bf = (IF s = 1 THEN 1 ELSE -1) THEN -h[np].bf ELSE 0)
        BY <1>5 DEF DoubleNodes
  <2> QED BY <1>4, <1>10, <2>1
<1> HIDE DEF nh, M
<1>13. Restored(h, g, q, sub, r, np)
       BY <1>6, <1>7, <1>8, <1>11, <1>12, RotationRestores
<1> QED BY <1>13 DEF g

-----------------------------------------------------------------------------
(***************************************************************************)
(* What a call does to the tree, and to the set of keys KeySet speaks of.  *)
(***************************************************************************)
LEMMA AvlHeld ==
    ASSUME NEW sub, SearchTree(AvlKeys, node, sub), kind = "avl"
    PROVE  Held = sub[root]
<1>1. Avl!InTree = UnderIn(AvlKeys, node, root)
      BY DEF Avl!InTree, Avl!Under, UnderIn, Avl!Ref, Avl!NULL
<1>2. UnderIn(AvlKeys, node, root) = sub[root]
      BY UnderIs
<1> QED BY <1>1, <1>2 DEF Held

LEMMA AvlHeldNext ==
    ASSUME NEW sub, SearchTree(AvlKeys, node', sub), kind' = "avl"
    PROVE  Held' = sub[root']
<1>1. Avl!InTree' = UnderIn(AvlKeys, node', root')
      BY DEF Avl!InTree, Avl!Under, UnderIn, Avl!Ref, Avl!NULL
<1>2. UnderIn(AvlKeys, node', root') = sub[root']
      BY UnderIs
<1> QED BY <1>1, <1>2 DEF Held

\* What the invariant says of a state in which kind is the AVL tree.
AvlAt(sub, ht) == kind = "avl" /\ AvlState(op, node, root, sub, ht)

\* A step of the tree keeps the invariant, and is one of KeySet.
AvlGood == AvlInv' /\ [Set!Next]_(Set!vars)

\* A call goes on, or asks, or returns; the tree holds the same keys.
LEMMA AvlQuiet ==
    ASSUME NEW sub, NEW ht, AvlAt(sub, ht), UNCHANGED kind,
           NEW new, NEW nh, AvlState(op', node', root', new, nh),
           new[root'] = sub[root],
           \/ UNCHANGED <<op.call, op.key, op.ret>>
           \/ /\ op.pc = "idle" /\ op'.call # "none" /\ op'.key \in AvlKeys
              /\ op'.ret = "none"
           \/ op.pc = "done" /\ op'.pc = "idle"
    PROVE  AvlGood
<1>1. AvlInv'
      BY DEF AvlInv
<1>2. Held' = Held
  <2>1. SearchTree(AvlKeys, node, sub) /\ SearchTree(AvlKeys, node', new)
        BY DEF AvlAt, AvlState, AvlTree
  <2> QED BY <2>1, AvlHeld, AvlHeldNext DEF AvlAt
<1>3. CASE UNCHANGED <<op.call, op.key, op.ret>>
      BY <1>1, <1>2, <1>3 DEF AvlGood, Set!vars, Held
<1>4. CASE /\ op.pc = "idle" /\ op'.call # "none" /\ op'.key \in AvlKeys
           /\ op'.ret = "none"
  <2>1. op.call = "none" /\ op.key = 0 /\ op.ret = "none"
        BY <1>4 DEF AvlAt, AvlState, AvlOp
  <2>2. op'.call \in {"insert", "lookup"}
        BY <1>4 DEF AvlState, AvlOp
  <2>3. Set!Ask(op'.call, op'.key)
        BY <1>2, <1>4, <2>1 DEF Set!Ask, Set!NoCall, Held
  <2> QED BY <1>1, <1>4, <2>2, <2>3 DEF AvlGood, Set!Next
<1>5. CASE op.pc = "done" /\ op'.pc = "idle"
  <2>1. op.ret # "none"
        BY <1>5 DEF AvlAt, AvlState, AvlOp
  <2>2. op'.call = "none" /\ op'.key = 0 /\ op'.ret = "none"
        BY <1>5 DEF AvlState, AvlOp
  <2>3. Set!Return
        BY <1>2, <2>1, <2>2 DEF Set!Return, Set!NoCall, Held
  <2> QED BY <1>1, <2>3 DEF AvlGood, Set!Next
<1> QED BY <1>3, <1>4, <1>5

\* A call is answered.
LEMMA AvlAnswer ==
    ASSUME NEW sub, NEW ht, AvlAt(sub, ht), UNCHANGED kind,
           NEW new, NEW nh, AvlState(op', node', root', new, nh),
           op.ret = "none", op'.ret \in {"yes", "no"},
           op'.call = op.call, op'.key = op.key,
           \/ /\ op.call = "insert"
              /\ new[root'] = sub[root] \union {op.key}
              /\ op'.ret = "yes" <=> op.key \notin sub[root]
           \/ /\ op.call = "lookup"
              /\ new[root'] = sub[root]
              /\ op'.ret = "yes" <=> op.key \in sub[root]
    PROVE  AvlGood
<1>1. AvlInv'
      BY DEF AvlInv
<1>2. Held = sub[root] /\ Held' = new[root']
  <2>1. SearchTree(AvlKeys, node, sub) /\ SearchTree(AvlKeys, node', new)
        BY DEF AvlAt, AvlState, AvlTree
  <2> QED BY <2>1, AvlHeld, AvlHeldNext DEF AvlAt
<1>3. CASE op.call = "insert"
  <2>1. Set!Insert
        BY <1>2, <1>3 DEF Set!Insert, Set!Pending, Set!YesNo, Held
  <2> QED BY <1>1, <2>1 DEF AvlGood, Set!Next
<1>4. CASE op.call = "lookup"
  <2>1. Set!Lookup
        BY <1>2, <1>4 DEF Set!Lookup, Set!Pending, Set!YesNo, Held
  <2> QED BY <1>1, <2>1 DEF AvlGood, Set!Next
<1> QED BY <1>3, <1>4

-----------------------------------------------------------------------------
(***************************************************************************)
(* The steps that leave the nodes as they are.                             *)
(***************************************************************************)
\* What the invariant says of the nodes.
LEMMA AvlParts ==
    ASSUME NEW sub, NEW ht, AvlAt(sub, ht)
    PROVE  /\ node \in [AvlKeys -> AvlNode] /\ SearchTree(AvlKeys, node, sub)
           /\ AvlTree(node, root, sub)
           /\ root \in AvlKeys \union {0} /\ sub[0] = {}
           /\ \A x \in AvlKeys \union {0} : sub[x] \subseteq AvlKeys
           /\ root # 0 => node[root].up = 0 /\ root \in sub[root]
           /\ \A x \in AvlKeys \ sub[root] : node[x] = Avl!NewNode
           /\ Heights(AvlKeys, node, ht, GrownOf(op)) /\ Balances(node, ht)
           /\ AvlOp(op, node, root, sub)
<1>1. /\ node \in [AvlKeys -> AvlNode] /\ SearchTree(AvlKeys, node, sub)
      /\ AvlTree(node, root, sub)
      /\ root \in AvlKeys \union {0} /\ (root # 0 => node[root].up = 0)
      /\ \A x \in AvlKeys \ sub[root] : node[x] = Avl!NewNode
      /\ Heights(AvlKeys, node, ht, GrownOf(op)) /\ Balances(node, ht)
      /\ AvlOp(op, node, root, sub)
      BY DEF AvlAt, AvlState, AvlTree
<1>2. sub[0] = {} /\ \A x \in AvlKeys \union {0} : sub[x] \subseteq AvlKeys
      BY <1>1 DEF SearchTree
<1>3. root # 0 => root \in sub[root]
      BY <1>1, NodeFacts
<1> QED BY <1>1, <1>2, <1>3

LEMMA AvlCall ==
    ASSUME NEW sub, NEW ht, AvlAt(sub, ht), UNCHANGED kind,
           NEW c \in {"insert", "lookup"}, NEW k \in AvlKeys, Avl!Call(c, k)
    PROVE  AvlGood
<1>1. /\ op.pc = "idle" /\ node' = node /\ root' = root
      /\ op' = [Avl!Idle EXCEPT !.pc = c, !.call = c, !.key = k, !.cur = root]
      BY DEF Avl!Call
<1>2. /\ op' \in [pc : {c}, call : {c}, key : {k}, cur : {root}, from : {0},
                  ub : {0}, ret : {"none"}]
      BY <1>1 DEF Avl!Idle, Avl!NULL
<1>3. /\ root \in AvlKeys \union {0} /\ sub[0] = {} /\ k # 0
      /\ root # 0 => root \in sub[root]
      /\ SearchTree(AvlKeys, node, sub) /\ AvlOp(op, node, root, sub)
      BY AvlParts, AvlKeysFacts
<1>4. root # 0 => OnWay(sub, root, k, root)
      BY <1>3 DEF OnWay
<1>5. root # 0 => Traced(node, root, sub, root)
  <2> SUFFICES ASSUME root # 0, NEW x \in sub[root], x # root, root \in sub[x]
               PROVE  FALSE
      BY DEF Traced
  <2>1. root \in AvlKeys
        BY <1>3
  <2>2. PICK t \in {0, 1} : x \in sub[node[root].link[t]]
        BY <1>3, <2>1, NodeFacts
  <2>3. /\ root \notin sub[node[root].link[t]]
        /\ node[root].link[t] \in AvlKeys \union {0}
        BY <1>3, <2>1, NodeFacts
  <2>4. sub[x] \subseteq sub[node[root].link[t]]
        BY <1>3, <2>2, <2>3, SubTrans
  <2> QED BY <2>3, <2>4
<1>6. AvlOp(op', node, root, sub)
  <2>1. \A x \in AvlKeys : node[x].bf \in -1 .. 1
        BY <1>1, <1>3 DEF AvlOp
  <2> QED BY <1>2, <1>3, <1>4, <1>5, <2>1 DEF AvlOp
<1>7. AvlState(op', node', root', sub, ht)
  <2>1. GrownOf(op') = 0 /\ GrownOf(op) = 0
        BY <1>1, <1>2 DEF GrownOf
  <2> QED BY <1>1, <1>6, <2>1 DEF AvlAt, AvlState
<1>8. op'.call # "none" /\ op'.key \in AvlKeys /\ op'.ret = "none"
      BY <1>2
<1> QED BY <1>1, <1>7, <1>8, AvlQuiet

LEMMA AvlRefuse ==
    ASSUME NEW sub, NEW ht, AvlAt(sub, ht), UNCHANGED kind, Avl!InsertRefuse
    PROVE  AvlGood
<1>1. /\ op.pc = "insert" /\ op.key = op.cur /\ UNCHANGED <<node, root>>
      /\ op' = [op EXCEPT !.pc = "done", !.ret = "no"]
      BY DEF Avl!InsertRefuse
<1>2. /\ AvlOp(op, node, root, sub) /\ sub[0] = {} /\ root \in AvlKeys \union {0}
      BY AvlParts
<1>3. op.key # 0 /\ op.call = "insert" /\ op.ret = "none" /\ op.key \in sub[root]
      BY <1>1, <1>2 DEF AvlOp, OnWay
<1>4. /\ op'.pc = "done" /\ op'.ret = "no" /\ op'.call = op.call /\ op'.key = op.key
      /\ op' \in [pc : {"done"}, call : {"insert"}, key : AvlKeys \union {0},
                  cur : AvlKeys \union {0}, from : AvlKeys \union {0},
                  ub : AvlKeys \union {0}, ret : {"no"}]
      BY <1>1, <1>2, <1>3 DEF AvlOp
<1>5. AvlOp(op', node, root, sub)
      BY <1>1, <1>2, <1>3, <1>4 DEF AvlOp
<1>6. AvlState(op', node', root', sub, ht)
  <2>1. GrownOf(op') = 0 /\ GrownOf(op) = 0
        BY <1>1, <1>4 DEF GrownOf
  <2> QED BY <1>1, <1>5, <2>1 DEF AvlAt, AvlState
<1>7. sub[root'] = sub[root] \union {op.key}
      BY <1>1, <1>3
<1> QED BY <1>3, <1>4, <1>6, <1>7, AvlAnswer

LEMMA AvlLookupDescend ==
    ASSUME NEW sub, NEW ht, AvlAt(sub, ht), UNCHANGED kind, Avl!LookupDescend
    PROVE  AvlGood
<1> DEFINE s == IF op.key > op.cur THEN 1 ELSE 0
           next == node[op.cur].link[s]
<1>1. /\ op.pc = "lookup" /\ op.cur # 0 /\ op.cur # op.key /\ UNCHANGED <<node, root>>
      /\ op' = [op EXCEPT !.cur = next]
      BY DEF Avl!LookupDescend, Avl!Toward, Avl!SideOf, Avl!NULL
<1>2. /\ AvlOp(op, node, root, sub) /\ sub[0] = {} /\ root \in AvlKeys \union {0}
      /\ SearchTree(AvlKeys, node, sub)
      BY AvlParts
<1>3. /\ op.cur \in AvlKeys /\ op.key \in AvlKeys /\ OnWay(sub, root, op.key, op.cur)
      /\ root \in AvlKeys
  <2>1. OnWay(sub, root, op.key, op.cur) /\ op.cur \in AvlKeys /\ op.key \in AvlKeys
        BY <1>1, <1>2 DEF AvlOp
  <2> QED BY <1>2, <2>1 DEF OnWay
<1>4. /\ next = 0 => op.key \notin sub[root]
      /\ next # 0 => OnWay(sub, root, op.key, next)
      BY <1>1, <1>2, <1>3, OnWayDown
<1>5. next \in AvlKeys \union {0}
      BY <1>2, <1>3, NodeFacts
<1> HIDE DEF next
<1>6. /\ op'.pc = "lookup" /\ op'.ret = op.ret /\ op'.call = op.call
      /\ op'.key = op.key /\ op'.cur = next
      /\ op' \in [pc : {"lookup"}, call : {"lookup"}, key : AvlKeys,
                  cur : AvlKeys \union {0}, from : AvlKeys \union {0},
                  ub : AvlKeys \union {0}, ret : {"none"}]
      BY <1>1, <1>2, <1>3, <1>5 DEF AvlOp
<1>7. AvlOp(op', node, root, sub)
  <2>1. \A x \in AvlKeys : node[x].bf \in -1 .. 1
        BY <1>1, <1>2 DEF AvlOp
  <2> QED BY <1>4, <1>6, <2>1, AvlKeysFacts DEF AvlOp
<1>8. AvlState(op', node', root', sub, ht)
  <2>1. GrownOf(op') = 0 /\ GrownOf(op) = 0
        BY <1>1, <1>6 DEF GrownOf
  <2> QED BY <1>1, <1>7, <2>1 DEF AvlAt, AvlState
<1> QED BY <1>1, <1>6, <1>8, AvlQuiet

LEMMA AvlLookupEnd ==
    ASSUME NEW sub, NEW ht, AvlAt(sub, ht), UNCHANGED kind, Avl!LookupEnd
    PROVE  AvlGood
<1> DEFINE ret == IF op.cur = 0 THEN "no" ELSE "yes"
<1>1. /\ op.pc = "lookup" /\ op.cur \in {0, op.key} /\ UNCHANGED <<node, root>>
      /\ op' = [op EXCEPT !.pc = "done", !.ret = ret]
      BY DEF Avl!LookupEnd, Avl!NULL
<1>2. AvlOp(op, node, root, sub) /\ sub[0] = {} /\ root \in AvlKeys \union {0}
      BY AvlParts
<1>3. /\ op.key # 0 /\ op.call = "lookup" /\ op.ret = "none"
      /\ ret = "yes" <=> op.key \in sub[root]
      BY <1>1, <1>2 DEF AvlOp, OnWay
<1>4. ret \in {"yes", "no"}
      OBVIOUS
<1> HIDE DEF ret
<1>5. /\ op'.pc = "done" /\ op'.ret = ret /\ op'.call = op.call /\ op'.key = op.key
      /\ op' \in [pc : {"done"}, call : {"lookup"}, key : AvlKeys \union {0},
                  cur : AvlKeys \union {0}, from : AvlKeys \union {0},
                  ub : AvlKeys \union {0}, ret : {"yes", "no"}]
      BY <1>1, <1>2, <1>3, <1>4 DEF AvlOp
<1>6. AvlOp(op', node, root, sub)
      BY <1>1, <1>2, <1>3, <1>4, <1>5 DEF AvlOp
<1>7. AvlState(op', node', root', sub, ht)
  <2>1. GrownOf(op') = 0 /\ GrownOf(op) = 0
        BY <1>1, <1>5 DEF GrownOf
  <2> QED BY <1>1, <1>6, <2>1 DEF AvlAt, AvlState
<1>8. sub[root'] = sub[root]
      BY <1>1
<1> QED BY <1>3, <1>4, <1>5, <1>7, <1>8, AvlAnswer

LEMMA AvlReturn ==
    ASSUME NEW sub, NEW ht, AvlAt(sub, ht), UNCHANGED kind, Avl!Return
    PROVE  AvlGood
<1>1. op.pc = "done" /\ op' = Avl!Idle /\ UNCHANGED <<node, root>>
      BY DEF Avl!Return
<1>2. AvlOp(op, node, root, sub)
      BY AvlParts
<1>3. op'.pc = "idle" /\ AvlOp(op', node, root, sub)
      BY <1>1, <1>2 DEF AvlOp, Avl!Idle, Avl!NULL
<1>4. AvlState(op', node', root', sub, ht)
  <2>1. GrownOf(op') = 0 /\ GrownOf(op) = 0
        BY <1>1, <1>3 DEF GrownOf
  <2> QED BY <1>1, <1>3, <2>1 DEF AvlAt, AvlState
<1> QED BY <1>1, <1>3, <1>4, AvlQuiet

LEMMA AvlStutter ==
    ASSUME NEW sub, NEW ht, AvlAt(sub, ht), UNCHANGED vars
    PROVE  AvlGood
<1>1. UNCHANGED <<kind, node, root, op>>
      BY DEF vars
<1>2. AvlState(op', node', root', sub, ht)
      BY <1>1 DEF AvlAt
<1> QED BY <1>1, <1>2, AvlQuiet

-----------------------------------------------------------------------------
(***************************************************************************)
(* The steps of an insertion.                                              *)
(***************************************************************************)
LEMMA AvlInsertFirst ==
    ASSUME NEW sub, NEW ht, AvlAt(sub, ht), UNCHANGED kind, Avl!InsertFirst
    PROVE  AvlGood
<1>1. /\ op.pc = "insert" /\ root = 0 /\ root' = op.key /\ node' = node
      /\ op' = [op EXCEPT !.pc = "done", !.ret = "yes"]
      BY DEF Avl!InsertFirst, Avl!NULL
<1>2. /\ AvlOp(op, node, root, sub) /\ sub[0] = {}
      /\ node \in [AvlKeys -> AvlNode] /\ SearchTree(AvlKeys, node, sub)
      /\ \A x \in AvlKeys : node[x] = Avl!NewNode
      BY <1>1, AvlParts
<1>3. op.key \in AvlKeys /\ op.call = "insert" /\ op.ret = "none"
      BY <1>1, <1>2 DEF AvlOp
<1>4. sub[op.key] = {op.key}
  <2>1. \A t \in {0, 1} : node[op.key].link[t] = 0
        BY <1>2, <1>3, AvlNewNodeIs
  <2>2. sub[op.key] = {op.key} \union sub[node[op.key].link[0]]
                               \union sub[node[op.key].link[1]]
        BY <1>2, <1>3 DEF SearchTree
  <2> QED BY <1>2, <2>1, <2>2
<1>5. AvlTree(node', root', sub)
      BY <1>1, <1>2, <1>3, AvlNewNodeIs DEF AvlTree
<1>6. /\ op'.pc = "done" /\ op'.ret = "yes" /\ op'.call = op.call /\ op'.key = op.key
      /\ op' \in [pc : {"done"}, call : {"insert"}, key : AvlKeys,
                  cur : AvlKeys \union {0}, from : AvlKeys \union {0},
                  ub : AvlKeys \union {0}, ret : {"yes"}]
      BY <1>1, <1>2, <1>3 DEF AvlOp
<1>7. AvlOp(op', node', root', sub)
  <2>1. \A x \in AvlKeys : node[x].bf \in -1 .. 1
        BY <1>1, <1>2 DEF AvlOp
  <2> QED BY <1>1, <1>3, <1>6, <2>1, AvlKeysFacts DEF AvlOp
<1>8. AvlState(op', node', root', sub, ht)
  <2>1. GrownOf(op') = 0 /\ GrownOf(op) = 0
        BY <1>1, <1>6 DEF GrownOf
  <2> QED BY <1>1, <1>5, <1>7, <2>1 DEF AvlAt, AvlState
<1>9. sub[root'] = sub[root] \union {op.key} /\ op.key \notin sub[root]
      BY <1>1, <1>2, <1>4
<1> QED BY <1>3, <1>6, <1>8, <1>9, AvlAnswer

\* The tree is the same as long as its links are.
LEMMA SameTree ==
    ASSUME NEW h, NEW r, NEW sub, AvlTree(h, r, sub),
           NEW g \in [AvlKeys -> AvlNode], \A x \in AvlKeys : g[x].link = h[x].link,
           \A x \in AvlKeys \ sub[r] : g[x] = h[x],
           r # 0 => g[r].up = h[r].up
    PROVE  AvlTree(g, r, sub)
<1>1. /\ SearchTree(AvlKeys, h, sub) /\ r \in AvlKeys \union {0}
      /\ r # 0 => h[r].up = 0
      /\ \A x \in AvlKeys \ sub[r] : h[x] = Avl!NewNode
      BY DEF AvlTree
<1>2. SearchTree(AvlKeys, g, sub)
      BY <1>1 DEF SearchTree
<1> QED BY <1>1, <1>2 DEF AvlTree

\* The descent puts the parent link of the child it goes to right.
LEMMA AvlInsertDescend ==
    ASSUME NEW sub, NEW ht, AvlAt(sub, ht), UNCHANGED kind, Avl!InsertDescend
    PROVE  AvlGood
<1> DEFINE c == op.cur
           s == IF op.key > c THEN 1 ELSE 0
           d == node[c].link[s]
           g == [node EXCEPT ![d].up = c]
<1>1. /\ op.pc = "insert" /\ c # 0 /\ c # op.key /\ d # 0
      /\ node' = g /\ root' = root /\ op' = [op EXCEPT !.cur = d]
      BY DEF Avl!InsertDescend, Avl!Toward, Avl!SideOf, Avl!NULL
<1>2. /\ AvlOp(op, node, root, sub) /\ sub[0] = {} /\ root \in AvlKeys \union {0}
      /\ SearchTree(AvlKeys, node, sub) /\ AvlTree(node, root, sub)
      /\ node \in [AvlKeys -> AvlNode]
      /\ Heights(AvlKeys, node, ht, GrownOf(op)) /\ Balances(node, ht)
      BY AvlParts
<1>3. /\ root # 0 /\ root \in AvlKeys
      /\ c \in AvlKeys /\ op.key \in AvlKeys /\ s \in {0, 1}
      /\ OnWay(sub, root, op.key, c) /\ Traced(node, root, sub, c)
      /\ op.call = "insert" /\ op.ret = "none"
      /\ \A x \in AvlKeys : node[x].bf \in -1 .. 1
      BY <1>1, <1>2, AvlKeysFacts DEF AvlOp
<1> HIDE DEF c, g
<1>4. OnWay(sub, root, op.key, d)
      BY <1>1, <1>2, <1>3, OnWayDown
<1>5. d \in AvlKeys /\ d # root /\ d \in sub[root] /\ c \in sub[root]
      BY <1>1, <1>2, <1>3, LinkIn
<1>6. /\ g \in [AvlKeys -> AvlNode]
      /\ \A x \in AvlKeys : /\ g[x].link = node[x].link /\ g[x].bf = node[x].bf
                            /\ g[x].up = IF x = d THEN c ELSE node[x].up
      /\ \A x \in AvlKeys : x # d => g[x] = node[x]
  <2> HIDE DEF d
  <2> QED BY <1>2, <1>3, <1>5 DEF g, AvlNode
<1>7. AvlTree(g, root, sub)
      BY <1>2, <1>5, <1>6, SameTree
<1>8. Traced(g, root, sub, d)
  <2> SUFFICES ASSUME NEW x \in sub[root], x # root, d \in sub[x]
               PROVE  g[x].up # 0 /\ \E t \in {0, 1} : g[g[x].up].link[t] = x
      BY DEF Traced
  <2>1. x \in AvlKeys
        BY <1>2, <1>3, NodeFacts
  <2>2. CASE x = d
    <3>1. g[x].up = c /\ g[c].link[s] = x
          BY <1>3, <1>6, <2>1, <2>2
    <3> QED BY <1>1, <1>3, <3>1
  <2>3. CASE x # d
    <3>1. c \in sub[x]
          BY <1>2, <1>3, <1>5, <2>3, ParentUnder
    <3>2. node[x].up # 0 /\ \E t \in {0, 1} : node[node[x].up].link[t] = x
          BY <1>3, <3>1 DEF Traced
    <3>3. node[x].up \in AvlKeys /\ g[x].up = node[x].up
          BY <1>2, <1>6, <2>1, <2>3, <3>2 DEF AvlNode
    <3> QED BY <1>6, <3>2, <3>3
  <2> QED BY <2>2, <2>3
<1>9. Heights(AvlKeys, g, ht, GrownOf(op)) /\ Balances(g, ht)
      BY <1>2, <1>6 DEF Heights, Balances
<1> HIDE DEF d
<1>10. /\ op'.pc = "insert" /\ op'.ret = op.ret /\ op'.call = op.call
       /\ op'.key = op.key /\ op'.cur = d
       /\ op' \in [pc : {"insert"}, call : {"insert"}, key : AvlKeys,
                   cur : AvlKeys, from : AvlKeys \union {0},
                   ub : AvlKeys \union {0}, ret : {"none"}]
       BY <1>1, <1>2, <1>3, <1>5 DEF AvlOp
<1>11. AvlOp(op', g, root, sub)
       BY <1>3, <1>4, <1>6, <1>8, <1>10, AvlKeysFacts DEF AvlOp
<1>12. AvlState(op', node', root', sub, ht)
  <2>1. GrownOf(op') = GrownOf(op)
        BY <1>1, <1>10 DEF GrownOf
  <2> QED BY <1>1, <1>7, <1>9, <1>11, <2>1 DEF AvlState
<1> QED BY <1>1, <1>10, <1>12, AvlQuiet

\* The new leaf: it is linked, and nobody knows yet.
LEMMA AvlInsertLink ==
    ASSUME NEW sub, NEW ht, AvlAt(sub, ht), UNCHANGED kind, Avl!InsertLink
    PROVE  AvlGood
<1> DEFINE p == op.cur
           k == op.key
           s == IF k > p THEN 1 ELSE 0
           g == [node EXCEPT ![k].up = p, ![p].link[s] = k]
           new == WithLeaf(sub, p, k)
           nh == [ht EXCEPT ![k] = 0]
<1>1. /\ op.pc = "insert" /\ p # 0 /\ p # k /\ node[p].link[s] = 0
      /\ node' = g /\ root' = root
      /\ op' = [op EXCEPT !.pc = "fix", !.from = k, !.ret = "yes"]
      BY DEF Avl!InsertLink, Avl!Toward, Avl!SideOf, Avl!NULL
<1>2. /\ AvlOp(op, node, root, sub) /\ sub[0] = {} /\ root \in AvlKeys \union {0}
      /\ SearchTree(AvlKeys, node, sub) /\ AvlTree(node, root, sub)
      /\ node \in [AvlKeys -> AvlNode]
      /\ root # 0 => node[root].up = 0 /\ root \in sub[root]
      /\ \A x \in AvlKeys : sub[x] \subseteq AvlKeys
      /\ \A x \in AvlKeys \ sub[root] : node[x] = Avl!NewNode
      /\ Heights(AvlKeys, node, ht, GrownOf(op)) /\ Balances(node, ht)
      BY AvlParts
<1>3. /\ root # 0 /\ root \in AvlKeys
      /\ p \in AvlKeys /\ k \in AvlKeys /\ s \in {0, 1}
      /\ OnWay(sub, root, k, p) /\ Traced(node, root, sub, p)
      /\ op.call = "insert" /\ op.ret = "none"
      /\ \A x \in AvlKeys : node[x].bf \in -1 .. 1
      /\ p \in sub[root]
      BY <1>1, <1>2, AvlKeysFacts DEF AvlOp, OnWay
<1>4. k \notin sub[root]
      BY <1>1, <1>2, <1>3, OnWayDown
<1> HIDE DEF p, k, g, new, nh
<1>5. /\ g \in [AvlKeys -> AvlNode]
      /\ \A x \in AvlKeys : /\ g[x].up = IF x = k THEN p ELSE node[x].up
                            /\ g[x].bf = node[x].bf
                            /\ \A t \in {0, 1} : g[x].link[t] =
                                  IF x = p /\ t = s THEN k ELSE node[x].link[t]
      /\ \A x \in AvlKeys \ {k, p} : g[x] = node[x]
  <2> HIDE DEF s
  <2> DEFINE f == [node EXCEPT ![k].up = p]
  <2>1. /\ f \in [AvlKeys -> AvlNode]
        /\ \A x \in AvlKeys : /\ f[x].up = IF x = k THEN p ELSE node[x].up
                              /\ f[x].link = node[x].link /\ f[x].bf = node[x].bf
                              /\ x # k => f[x] = node[x]
        BY <1>2, <1>3 DEF AvlNode
  <2>2. g = [f EXCEPT ![p].link[s] = k]
        BY DEF g
  <2> HIDE DEF f
  <2>3. /\ g \in [AvlKeys -> AvlNode]
        /\ \A x \in AvlKeys : /\ g[x].up = f[x].up /\ g[x].bf = f[x].bf
                              /\ \A t \in {0, 1} : g[x].link[t] =
                                    IF x = p /\ t = s THEN k ELSE f[x].link[t]
                              /\ x # p => g[x] = f[x]
        BY <1>3, <2>1, <2>2, SMTT(30) DEF AvlNode
  <2> QED BY <2>1, <2>3
<1>6. /\ sub[k] = {k} /\ \A t \in {0, 1} : node[k].link[t] = 0
  <2>1. \A t \in {0, 1} : node[k].link[t] = 0
        BY <1>2, <1>3, <1>4, AvlNewNodeIs
  <2>2. sub[k] = {k} \union sub[node[k].link[0]] \union sub[node[k].link[1]]
        BY <1>2, <1>3 DEF SearchTree
  <2> QED BY <1>2, <2>1, <2>2
<1>7. \A x \in AvlKeys : p \in sub[x] => x \in sub[root]
  <2> SUFFICES ASSUME NEW x \in AvlKeys, p \in sub[x], x \notin sub[root] PROVE FALSE
      OBVIOUS
  <2>1. \A t \in {0, 1} : node[x].link[t] = 0
        BY <1>2, AvlNewNodeIs
  <2>2. sub[x] = {x} \union sub[node[x].link[0]] \union sub[node[x].link[1]]
        BY <1>2 DEF SearchTree
  <2>3. p = x BY <1>2, <2>1, <2>2
  <2> QED BY <1>3, <2>3
<1>8. SearchTree(AvlKeys, g, new)
  <2>1. LinksLeaf(AvlKeys, node, g, p, s, k)
        BY <1>5 DEF LinksLeaf
  <2> QED BY <1>1, <1>2, <1>3, <1>4, <1>6, <1>7, <2>1, InsertLeaf DEF new
<1>9. /\ DOMAIN sub = AvlKeys \union {0}
      /\ new[root] = sub[root] \union {k} /\ new[k] = {k}
      /\ \A x \in AvlKeys : new[x] = IF p \in sub[x] THEN sub[x] \union {k} ELSE sub[x]
  <2>1. DOMAIN sub = AvlKeys \union {0}
        BY <1>2 DEF SearchTree
  <2>2. p \notin sub[k]
        BY <1>1, <1>6
  <2> QED BY <1>3, <1>6, <2>1, <2>2 DEF new, WithLeaf
<1> HIDE DEF s
<1>10. AvlTree(g, root, new)
  <2>1. g[root].up = 0
        BY <1>2, <1>3, <1>4, <1>5
  <2>2. ASSUME NEW x \in AvlKeys, x \notin new[root]
        PROVE  g[x] = Avl!NewNode
    <3>1. x \notin sub[root] /\ x # k /\ x # p
          BY <1>3, <1>9, <2>2
    <3> QED BY <1>2, <1>5, <3>1
  <2> QED BY <1>3, <1>5, <1>8, <2>1, <2>2 DEF AvlTree
<1>11. Traced(g, root, new, k)
  <2> SUFFICES ASSUME NEW x \in new[root], x # root, k \in new[x]
               PROVE  g[x].up # 0 /\ \E t \in {0, 1} : g[g[x].up].link[t] = x
      BY DEF Traced
  <2>1. CASE x = k
    <3>1. g[x].up = p /\ g[p].link[s] = x
          BY <1>3, <1>5, <2>1
    <3> QED BY <1>1, <1>3, <3>1
  <2>2. CASE x # k
    <3>1. x \in sub[root] /\ x \in AvlKeys /\ x # 0
          BY <1>2, <1>3, <1>9, <2>2, AvlKeysFacts
    <3>2. k \notin sub[x]
      <4>1. sub[x] \subseteq sub[root]
            BY <1>2, <1>3, <3>1, SubTrans
      <4> QED BY <1>4, <4>1
    <3>3. p \in sub[x]
          BY <1>9, <3>1, <3>2
    <3>4. node[x].up # 0 /\ \E t \in {0, 1} : node[node[x].up].link[t] = x
          BY <1>3, <3>1, <3>3 DEF Traced
    <3>5. node[x].up \in AvlKeys /\ g[x].up = node[x].up
          BY <1>2, <1>5, <2>2, <3>1, <3>4 DEF AvlNode
    <3>6. PICK t \in {0, 1} : node[node[x].up].link[t] = x
          BY <3>4
    <3>7. g[node[x].up].link[t] = x
          BY <1>1, <1>5, <3>1, <3>5, <3>6
    <3> QED BY <3>4, <3>5, <3>7
  <2> QED BY <2>1, <2>2
<1>12. /\ op'.pc = "fix" /\ op'.ret = "yes" /\ op'.call = op.call
       /\ op'.key = k /\ op'.from = k
       /\ op' \in [pc : {"fix"}, call : {"insert"}, key : AvlKeys,
                   cur : AvlKeys \union {0}, from : AvlKeys,
                   ub : AvlKeys \union {0}, ret : {"yes"}]
  <2> HIDE DEF k
  <2>1. op.key = k
        BY DEF k
  <2> QED BY <1>1, <1>2, <1>3, <2>1 DEF AvlOp
<1>13. \A x \in AvlKeys : g[x].bf \in -1 .. 1
       BY <1>3, <1>5
<1>14. AvlOp(op', g, root, new)
  <2>1. \A t \in {0, 1} : g[k].link[t] = 0
        BY <1>1, <1>3, <1>5, <1>6
  <2> QED BY <1>9, <1>11, <1>12, <1>13, <2>1, AvlKeysFacts DEF AvlOp
<1>15. Heights(AvlKeys, g, nh, k) /\ Balances(g, nh)
  <2>1. /\ ht \in [AvlKeys \union {0} -> Nat] /\ ht[0] = 0
        /\ \A x \in AvlKeys : /\ ht[x] = Higher(ht[node[x].link[0]], ht[node[x].link[1]]) + 1
                              /\ node[x].bf = ht[node[x].link[1]] - ht[node[x].link[0]]
    <3>1. GrownOf(op) = 0
          BY <1>1 DEF GrownOf
    <3> QED BY <1>2, <3>1, AvlKeysFacts DEF Heights, Balances
  <2>2. /\ nh \in [AvlKeys \union {0} -> Nat] /\ nh[0] = 0 /\ nh[k] = 0
        /\ \A x \in AvlKeys \union {0} : x # k => nh[x] = ht[x]
        BY <1>3, <2>1, AvlKeysFacts DEF nh
  <2>3. ASSUME NEW x \in AvlKeys, NEW t \in {0, 1}
        PROVE  nh[g[x].link[t]] = ht[node[x].link[t]]
    <3>1. CASE x = p /\ t = s
          BY <1>1, <1>5, <2>1, <2>2, <3>1
    <3>2. CASE ~(x = p /\ t = s)
      <4>1. g[x].link[t] = node[x].link[t]
            BY <1>5, <3>2
      <4>2. node[x].link[t] # k
        <5>1. node[x].link[t] # 0 => node[x].link[t] \in sub[root]
              BY <1>2, LinkIn
        <5> QED BY <1>3, <1>4, <5>1, AvlKeysFacts
      <4>3. node[x].link[t] \in AvlKeys \union {0}
            BY <1>2 DEF SearchTree
      <4> QED BY <2>2, <4>1, <4>2, <4>3
    <3> QED BY <3>1, <3>2
  <2>4. ASSUME NEW x \in AvlKeys
        PROVE  /\ nh[x] = Higher(nh[g[x].link[0]], nh[g[x].link[1]]) + IF x = k THEN 0 ELSE 1
               /\ g[x].bf = nh[g[x].link[1]] - nh[g[x].link[0]]
    <3>1. nh[g[x].link[0]] = ht[node[x].link[0]] /\ nh[g[x].link[1]] = ht[node[x].link[1]]
          BY <2>3
    <3>2. g[x].bf = node[x].bf
          BY <1>5
    <3>3. CASE x = k
      <4>1. nh[g[x].link[0]] = 0 /\ nh[g[x].link[1]] = 0
            BY <1>6, <2>1, <3>1, <3>3
      <4> QED BY <2>1, <2>2, <3>1, <3>2, <3>3, <4>1 DEF Higher
    <3>4. CASE x # k
          BY <2>1, <2>2, <3>1, <3>2, <3>4
    <3> QED BY <3>3, <3>4
  <2> QED BY <2>2, <2>4 DEF Heights, Balances
<1>16. AvlState(op', node', root', new, nh)
  <2>1. GrownOf(op') = k
        BY <1>12 DEF GrownOf
  <2> QED BY <1>1, <1>10, <1>14, <1>15, <2>1 DEF AvlState
<1>17. /\ new[root'] = sub[root] \union {op.key} /\ op.key \notin sub[root]
       /\ op'.key = op.key
       BY <1>1, <1>4, <1>9, <1>12 DEF k
<1> QED BY <1>3, <1>12, <1>16, <1>17, AvlAnswer

\* g is h but for the balance factor of p.
Leaning(h, p, b, g) ==
    \A x \in AvlKeys : /\ g[x].link = h[x].link
                       /\ g[x].bf = IF x = p THEN b ELSE h[x].bf

\* p has grown with its child f unless it is even now.
Counted(ht, f, p, b, g) ==
    /\ \E nh : Levels(g, nh, IF b = 0 THEN 0 ELSE p)
    /\ b \in {-2, 2} => ht[f] # 0

\* Node p counts that its child f has grown.
LEMMA ClimbLevels ==
    ASSUME NEW h, NEW sub, SearchTree(AvlKeys, h, sub),
           NEW ht, NEW f \in AvlKeys, Levels(h, ht, f),
           NEW p \in AvlKeys, p # f, NEW s \in {0, 1}, h[p].link[s] = f,
           OnlyLink(AvlKeys, h, p, s, f), h[p].bf \in -1 .. 1,
           NEW b, b = h[p].bf + (IF s = 1 THEN 1 ELSE -1),
           NEW g, Leaning(h, p, b, g)
    PROVE  Counted(ht, f, p, b, g)
<1> USE DEF Leaning
<1> DEFINE nh == [ht EXCEPT ![f] = ht[f] + 1]
           e == IF b = 0 THEN 0 ELSE p
<1>1. /\ Heights(AvlKeys, h, ht, f) /\ Balances(h, ht)
      /\ ht \in [AvlKeys \union {0} -> Nat] /\ ht[0] = 0
      /\ \A x \in AvlKeys, t \in {0, 1} : h[x].link[t] \in AvlKeys \union {0}
      BY DEF Levels, Heights, SearchTree
<1>2. /\ nh \in [AvlKeys \union {0} -> Nat] /\ nh[0] = 0 /\ nh[f] = ht[f] + 1
      /\ \A x \in AvlKeys \union {0} : x # f => nh[x] = ht[x]
      BY <1>1, AvlKeysFacts
<1> HIDE DEF nh
<1>3. /\ h[p].link[1 - s] \in AvlKeys \union {0} /\ h[p].link[1 - s] # f
      /\ ht[f] \in Nat /\ ht[h[p].link[1 - s]] \in Nat
      /\ h[p].bf = IF s = 1 THEN ht[f] - ht[h[p].link[1 - s]]
                            ELSE ht[h[p].link[1 - s]] - ht[f]
      /\ ht[p] = Higher(ht[f], ht[h[p].link[1 - s]]) + 1
  <2>1. /\ h[p].link[1 - s] \in AvlKeys \union {0}
        /\ ht[h[p].link[s]] \in Nat /\ ht[h[p].link[1 - s]] \in Nat
        /\ h[p].bf = IF s = 1 THEN ht[h[p].link[s]] - ht[h[p].link[1 - s]]
                              ELSE ht[h[p].link[1 - s]] - ht[h[p].link[s]]
        /\ ht[p] = Higher(ht[h[p].link[s]], ht[h[p].link[1 - s]])
                     + IF p = f THEN 0 ELSE 1
    <3> QED BY <1>1, AvlSides
  <2>2. h[p].link[1 - s] # f
    <3>1. 1 - s \in {0, 1} /\ 1 - s # s
          OBVIOUS
    <3> QED BY <3>1 DEF OnlyLink
  <2> QED BY <2>1, <2>2
<1>4. LevelAt(g, nh, p, s, IF b = 0 THEN 1 ELSE 0)
  <2> DEFINE o == ht[h[p].link[1 - s]]
  <2>1. /\ nh[g[p].link[s]] = ht[f] + 1 /\ nh[g[p].link[1 - s]] = o
        /\ nh[p] = ht[p] /\ g[p].bf = b
        BY <1>2, <1>3
  <2>2. o \in Nat /\ ht[f] \in Nat /\ ht[p] = Higher(ht[f], o) + 1
        BY <1>3
  <2>3. h[p].bf = IF s = 1 THEN ht[f] - o ELSE o - ht[f]
        BY <1>3
  <2> HIDE DEF o
  <2>4. b = IF s = 1 THEN ht[f] + 1 - o ELSE o - (ht[f] + 1)
        BY <2>2, <2>3
  <2>5. ht[p] = Higher(ht[f] + 1, o) + IF b = 0 THEN 1 ELSE 0
    <3>1. CASE s = 0
          BY <2>2, <2>3, <2>4, <3>1 DEF Higher
    <3>2. CASE s = 1
          BY <2>2, <2>3, <2>4, <3>2 DEF Higher
    <3> QED BY <3>1, <3>2
  <2> QED BY <2>1, <2>2, <2>4, <2>5 DEF LevelAt
<1>5. ASSUME NEW x \in AvlKeys
      PROVE  /\ nh[x] = Higher(nh[g[x].link[0]], nh[g[x].link[1]]) + IF x = e THEN 0 ELSE 1
             /\ g[x].bf = nh[g[x].link[1]] - nh[g[x].link[0]]
  <2>1. CASE x = p
    <3>1. LevelAt(g, nh, x, 0, IF b = 0 THEN 1 ELSE 0)
          BY <1>4, <2>1, LevelSides
    <3>2. 1 - 0 = 1
          OBVIOUS
    <3>3. (IF x = e THEN 0 ELSE 1) = IF b = 0 THEN 1 ELSE 0
          BY <2>1, AvlKeysFacts
    <3> HIDE DEF e
    <3>4. nh[x] = Higher(nh[g[x].link[0]], nh[g[x].link[1]]) + IF b = 0 THEN 1 ELSE 0
          BY <3>1, <3>2 DEF LevelAt
    <3>5. g[x].bf = nh[g[x].link[1]] - nh[g[x].link[0]]
          BY <3>1, <3>2 DEF LevelAt
    <3> QED BY <3>3, <3>4, <3>5
  <2>2. CASE x # p
    <3>1. ASSUME NEW t \in {0, 1} PROVE nh[g[x].link[t]] = ht[h[x].link[t]]
      <4>1. h[x].link[t] # f
            BY <2>2 DEF OnlyLink
      <4> QED BY <1>1, <1>2, <4>1
    <3>2. x # e
          BY <2>2, AvlKeysFacts
    <3>3. /\ ht[x] = Higher(ht[h[x].link[0]], ht[h[x].link[1]]) + IF x = f THEN 0 ELSE 1
          /\ h[x].bf = ht[h[x].link[1]] - ht[h[x].link[0]]
          BY <1>1 DEF Heights, Balances
    <3>4. nh[g[x].link[0]] = ht[h[x].link[0]] /\ nh[g[x].link[1]] = ht[h[x].link[1]]
          BY <3>1
    <3>0. ht[x] \in Nat /\ Higher(ht[h[x].link[0]], ht[h[x].link[1]]) \in Nat
      <4>1. ht[x] \in Nat /\ ht[h[x].link[0]] \in Nat /\ ht[h[x].link[1]] \in Nat
            BY <1>1
      <4> QED BY <4>1 DEF Higher
    <3>5. nh[x] = Higher(ht[h[x].link[0]], ht[h[x].link[1]]) + 1
      <4>1. CASE x = f
            BY <1>2, <3>0, <3>3, <4>1
      <4>2. CASE x # f
            BY <1>2, <3>3, <4>2
      <4> QED BY <4>1, <4>2
    <3>6. g[x].bf = h[x].bf
          BY <2>2
    <3> QED BY <3>2, <3>3, <3>4, <3>5, <3>6
  <2> QED BY <2>1, <2>2
<1>6. Levels(g, nh, e)
      BY <1>2, <1>5 DEF Levels, Heights, Balances
<1>7. b \in {-2, 2} => ht[f] # 0
  <2>1. CASE s = 0
        BY <1>3, <2>1
  <2>2. CASE s = 1
        BY <1>3, <2>2
  <2> QED BY <2>1, <2>2
<1> QED BY <1>6, <1>7 DEF Counted

\* do_fix_balance() goes one node up.
LEMMA AvlClimb ==
    ASSUME NEW sub, NEW ht, AvlAt(sub, ht), UNCHANGED kind, Avl!Climb
    PROVE  AvlGood
<1> DEFINE f == op.from
           p == node[f].up
           b == node[p].bf + (IF node[p].link[1] = f THEN 1 ELSE -1)
           g == [node EXCEPT ![p].bf = b]
<1>1. /\ op.pc = "fix" /\ f # root /\ node' = g /\ root' = root
      /\ op' = CASE b \in {2, -2} -> [op EXCEPT !.pc = "pivot", !.ub = p]
                 [] b = 0 -> [op EXCEPT !.pc = "done"]
                 [] OTHER -> [op EXCEPT !.from = p]
  <2>1. Avl!NewBf = b /\ Avl!Parent = p
        BY DEF Avl!NewBf, Avl!Parent, Avl!Weight
  <2> HIDE DEF b
  <2> QED BY <2>1 DEF Avl!Climb, Avl!NULL
<1>2. /\ AvlOp(op, node, root, sub) /\ sub[0] = {} /\ root \in AvlKeys \union {0}
      /\ SearchTree(AvlKeys, node, sub) /\ AvlTree(node, root, sub)
      /\ node \in [AvlKeys -> AvlNode]
      /\ \A x \in AvlKeys \union {0} : sub[x] \subseteq AvlKeys
      /\ Heights(AvlKeys, node, ht, GrownOf(op)) /\ Balances(node, ht)
      BY AvlParts
<1>3. /\ f \in sub[root] /\ f \in AvlKeys /\ op.key \in sub[f]
      /\ op.key \in sub[root] /\ Traced(node, root, sub, op.key)
      /\ op.call = "insert" /\ op.ret # "none"
      /\ node[f].bf = 0 => \A t \in {0, 1} : node[f].link[t] = 0
      /\ \A x \in AvlKeys : node[x].bf \in -1 .. 1
      BY <1>1, <1>2 DEF AvlOp
<1>4. /\ p \in AvlKeys /\ p \in sub[root] /\ p # f /\ op.key \in sub[p]
      /\ \E s \in {0, 1} : node[p].link[s] = f /\ OnlyLink(AvlKeys, node, p, s, f)
  <2>1. /\ AvlTree(node, root, sub) /\ Traced(node, root, sub, op.key)
        /\ f \in sub[root] /\ op.key \in sub[f] /\ f # root
        BY <1>1, <1>2, <1>3
  <2> HIDE DEF f, b, g
  <2> QED BY <2>1, PathParent
<1>5. PICK s \in {0, 1} : node[p].link[s] = f /\ OnlyLink(AvlKeys, node, p, s, f)
      BY <1>4
<1>6. b = node[p].bf + (IF s = 1 THEN 1 ELSE -1)
  <2>1. node[p].link[1] = f <=> s = 1
    <3> HIDE DEF p, f
    <3> QED BY <1>4, <1>5 DEF OnlyLink
  <2> QED BY <2>1
<1> HIDE DEF f, p, b, g
<1>7. /\ node[p].bf \in -1 .. 1 /\ b \in -2 .. 2
  <2>1. node[p].bf \in -1 .. 1
        BY <1>3, <1>4
  <2> QED BY <1>6, <2>1
<1>8. /\ g \in [AvlKeys -> AvlNode]
      /\ \A x \in AvlKeys : /\ g[x].link = node[x].link
                            /\ g[x].up = node[x].up
                            /\ g[x].bf = IF x = p THEN b ELSE node[x].bf
                            /\ x # p => g[x] = node[x]
      BY <1>2, <1>4, <1>7 DEF g, AvlNode
<1>9. /\ Levels(node, ht, f)
      /\ \E nh : Levels(g, nh, IF b = 0 THEN 0 ELSE p)
      /\ b \in {-2, 2} => ht[f] # 0
  <2>1. Levels(node, ht, f)
    <3>1. GrownOf(op) = f
          BY <1>1 DEF GrownOf, f
    <3> QED BY <1>2, <3>1 DEF Levels
  <2>2. Leaning(node, p, b, g)
        BY <1>8 DEF Leaning
  <2>3. SearchTree(AvlKeys, node, sub) /\ f \in AvlKeys /\ p \in AvlKeys /\ p # f
        BY <1>2, <1>3, <1>4
  <2>4. Counted(ht, f, p, b, g)
        BY <1>5, <1>6, <1>7, <2>1, <2>2, <2>3, ClimbLevels
  <2> QED BY <2>1, <2>4 DEF Counted
<1>10. b \in {-2, 2} => node[f].bf # 0
  <2> SUFFICES ASSUME b \in {-2, 2}, node[f].bf = 0 PROVE FALSE
      OBVIOUS
  <2>1. ht[f] # 0
        BY <1>9
  <2>2. ht[f] = Higher(ht[0], ht[0]) + 0 /\ ht[0] = 0
        BY <1>3, <1>9 DEF Levels, Heights
  <2> QED BY <2>1, <2>2 DEF Higher
<1>11. AvlTree(g, root, sub)
  <2>1. \A x \in AvlKeys \ sub[root] : g[x] = node[x]
        BY <1>4, <1>8
  <2>2. root # 0 => g[root].up = node[root].up
        BY <1>2, <1>8
  <2> QED BY <1>2, <1>8, <2>1, <2>2, SameTree
<1>12. Traced(g, root, sub, op.key)
  <2> SUFFICES ASSUME NEW x \in sub[root], x # root, op.key \in sub[x]
               PROVE  g[x].up # 0 /\ \E t \in {0, 1} : g[g[x].up].link[t] = x
      BY DEF Traced
  <2>1. node[x].up # 0 /\ \E t \in {0, 1} : node[node[x].up].link[t] = x
        BY <1>3 DEF Traced
  <2>2. x \in AvlKeys
        BY <1>2
  <2>3. node[x].up \in AvlKeys /\ g[x].up = node[x].up
        BY <1>2, <1>8, <2>1, <2>2 DEF AvlNode
  <2> QED BY <1>8, <2>1, <2>3
<1>13. UNCHANGED <<op.call, op.key, op.ret>>
  <2>1. op \in [pc : {"idle", "insert", "lookup", "fix", "pivot", "done"},
                call : {"none", "insert", "lookup"},
                key : AvlKeys \union {0}, cur : AvlKeys \union {0},
                from : AvlKeys \union {0}, ub : AvlKeys \union {0},
                ret : {"none", "yes", "no"}]
        BY <1>2 DEF AvlOp
  <2>2. CASE b \in {-2, 2}
    <3>1. op' = [op EXCEPT !.pc = "pivot", !.ub = p]
          BY <1>1, <2>2
    <3> QED BY <2>1, <3>1
  <2>3. CASE b = 0
    <3>1. op' = [op EXCEPT !.pc = "done"]
          BY <1>1, <2>3
    <3> QED BY <2>1, <3>1
  <2>4. CASE b \notin {-2, 0, 2}
    <3>1. op' = [op EXCEPT !.from = p]
          BY <1>1, <2>4
    <3> QED BY <2>1, <3>1
  <2> QED BY <2>2, <2>3, <2>4
<1>14. AvlOp(op', g, root, sub) /\ GrownOf(op') = IF b = 0 THEN 0 ELSE p
  <2>1. /\ op'.call = "insert" /\ op'.key = op.key /\ op'.ret = op.ret
        BY <1>3, <1>13
  <2>2. CASE b \in {-2, 2}
    <3>1. op' = [op EXCEPT !.pc = "pivot", !.ub = p]
          BY <1>1, <2>2
    <3>2. /\ op'.pc = "pivot" /\ op'.ub = p
          /\ op' \in [pc : {"pivot"}, call : {"insert"}, key : AvlKeys \union {0},
                      cur : AvlKeys \union {0}, from : AvlKeys \union {0},
                      ub : AvlKeys, ret : {"yes", "no"}]
          BY <1>2, <1>3, <1>4, <3>1 DEF AvlOp
    <3>3. /\ g[p].bf = b
          /\ \A x \in AvlKeys : g[x].bf \in -1 .. 1 \/ x = p
          BY <1>3, <1>4, <1>8
    <3>4. g[g[p].link[IF b < 0 THEN 0 ELSE 1]].bf # 0
      <4>1. s = IF b < 0 THEN 0 ELSE 1
            BY <1>6, <1>7, <2>2
      <4>2. g[p].link[s] = f
            BY <1>4, <1>5, <1>8
      <4>3. g[f].bf # 0
            BY <1>3, <1>4, <1>8, <1>10, <2>2
      <4> QED BY <4>1, <4>2, <4>3
    <3>5. op'.key # 0 /\ op'.call # "none" /\ op'.ret # "none"
          BY <1>2, <1>3, <2>1, AvlKeysFacts
    <3>6. AvlOp(op', g, root, sub)
          BY <1>3, <1>4, <1>12, <2>1, <2>2, <3>2, <3>3, <3>4, <3>5 DEF AvlOp
    <3>7. GrownOf(op') = p
          BY <3>2 DEF GrownOf
    <3> QED BY <2>2, <3>6, <3>7
  <2>3. ASSUME b \notin {-2, 2} PROVE \A x \in AvlKeys : g[x].bf \in -1 .. 1
        BY <1>3, <1>7, <1>8, <2>3
  <2>4. CASE b = 0
    <3>1. op' = [op EXCEPT !.pc = "done"]
          BY <1>1, <2>4
    <3>2. /\ op'.pc = "done"
          /\ op' \in [pc : {"done"}, call : {"insert"}, key : AvlKeys \union {0},
                      cur : AvlKeys \union {0}, from : AvlKeys \union {0},
                      ub : AvlKeys \union {0}, ret : {"yes", "no"}]
          BY <1>2, <1>3, <3>1 DEF AvlOp
    <3>3. op'.key # 0 /\ op'.call # "none" /\ op'.ret # "none"
          BY <1>2, <1>3, <2>1, AvlKeysFacts
    <3>4. AvlOp(op', g, root, sub)
          BY <2>3, <2>4, <3>2, <3>3 DEF AvlOp
    <3>5. GrownOf(op') = 0
          BY <3>2 DEF GrownOf
    <3> QED BY <2>4, <3>4, <3>5
  <2>5. CASE b \notin {-2, 0, 2}
    <3>1. op' = [op EXCEPT !.from = p]
          BY <1>1, <2>5
    <3>2. /\ op'.pc = "fix" /\ op'.from = p
          /\ op' \in [pc : {"fix"}, call : {"insert"}, key : AvlKeys \union {0},
                      cur : AvlKeys \union {0}, from : AvlKeys,
                      ub : AvlKeys \union {0}, ret : {"yes", "no"}]
          BY <1>1, <1>2, <1>3, <1>4, <3>1 DEF AvlOp
    <3>3. op'.key # 0 /\ op'.call # "none" /\ op'.ret # "none"
          BY <1>2, <1>3, <2>1, AvlKeysFacts
    <3>4. g[p].bf # 0
          BY <1>4, <1>8, <2>5
    <3>5. AvlOp(op', g, root, sub)
          BY <1>3, <1>4, <1>12, <2>1, <2>3, <2>5, <3>2, <3>3, <3>4 DEF AvlOp
    <3>6. GrownOf(op') = p
          BY <3>2 DEF GrownOf
    <3> QED BY <2>5, <3>5, <3>6
  <2> QED BY <2>2, <2>4, <2>5
<1>15. PICK nh : Levels(g, nh, IF b = 0 THEN 0 ELSE p)
       BY <1>9
<1>16. AvlState(op', node', root', sub, nh)
       BY <1>1, <1>11, <1>14, <1>15 DEF AvlState, Levels
<1>17. sub[root'] = sub[root]
       BY <1>1
<1> QED BY <1>13, <1>16, <1>17, AvlQuiet

\* The climb has come to the root: the whole tree is higher.
LEMMA AvlClimbEnd ==
    ASSUME NEW sub, NEW ht, AvlAt(sub, ht), UNCHANGED kind, Avl!ClimbEnd
    PROVE  AvlGood
<1> DEFINE nh == [ht EXCEPT ![root] = ht[root] + 1]
<1>1. /\ op.pc = "fix" /\ op.from = root /\ node' = node /\ root' = root
      /\ op' = [op EXCEPT !.pc = "done"]
      BY DEF Avl!ClimbEnd
<1>2. /\ AvlOp(op, node, root, sub) /\ sub[0] = {}
      /\ SearchTree(AvlKeys, node, sub) /\ AvlTree(node, root, sub)
      /\ \A x \in AvlKeys \union {0} : sub[x] \subseteq AvlKeys
      /\ root \in AvlKeys \union {0}
      /\ Heights(AvlKeys, node, ht, GrownOf(op)) /\ Balances(node, ht)
      BY AvlParts
<1>3. /\ root \in AvlKeys /\ op.key \in AvlKeys /\ op.call = "insert" /\ op.ret # "none"
      /\ \A x \in AvlKeys : node[x].bf \in -1 .. 1
      BY <1>1, <1>2 DEF AvlOp
<1>4. /\ op'.pc = "done" /\ op'.ret = op.ret /\ op'.call = op.call /\ op'.key = op.key
      /\ op' \in [pc : {"done"}, call : {"insert"}, key : AvlKeys,
                  cur : AvlKeys \union {0}, from : AvlKeys \union {0},
                  ub : AvlKeys \union {0}, ret : {"yes", "no"}]
      BY <1>1, <1>2, <1>3 DEF AvlOp
<1>5. AvlOp(op', node, root, sub)
      BY <1>3, <1>4, AvlKeysFacts DEF AvlOp
<1>6. Heights(AvlKeys, node, nh, 0) /\ Balances(node, nh)
  <2>1. /\ ht \in [AvlKeys \union {0} -> Nat] /\ ht[0] = 0
        /\ \A x \in AvlKeys :
              /\ ht[x] = Higher(ht[node[x].link[0]], ht[node[x].link[1]])
                           + IF x = root THEN 0 ELSE 1
              /\ node[x].bf = ht[node[x].link[1]] - ht[node[x].link[0]]
    <3>1. GrownOf(op) = root
          BY <1>1 DEF GrownOf
    <3> QED BY <1>2, <3>1 DEF Heights, Balances
  <2>2. /\ nh \in [AvlKeys \union {0} -> Nat] /\ nh[0] = 0 /\ nh[root] = ht[root] + 1
        /\ \A x \in AvlKeys \union {0} : x # root => nh[x] = ht[x]
        BY <1>3, <2>1, AvlKeysFacts
  <2> HIDE DEF nh
  <2>3. ASSUME NEW x \in AvlKeys, NEW t \in {0, 1}
        PROVE  nh[node[x].link[t]] = ht[node[x].link[t]]
    <3>1. node[x].link[t] # 0 => node[x].link[t] # root
          BY <1>2, LinkIn
    <3>2. node[x].link[t] \in AvlKeys \union {0}
          BY <1>2 DEF SearchTree
    <3> QED BY <1>3, <2>2, <3>1, <3>2, AvlKeysFacts
  <2>4. ASSUME NEW x \in AvlKeys
        PROVE  /\ nh[x] = Higher(nh[node[x].link[0]], nh[node[x].link[1]])
                            + IF x = 0 THEN 0 ELSE 1
               /\ node[x].bf = nh[node[x].link[1]] - nh[node[x].link[0]]
    <3>1. /\ nh[node[x].link[0]] = ht[node[x].link[0]]
          /\ nh[node[x].link[1]] = ht[node[x].link[1]]
          BY <2>3
    <3>2. x # 0 /\ Higher(ht[node[x].link[0]], ht[node[x].link[1]]) \in Nat
      <4>1. ht[node[x].link[0]] \in Nat /\ ht[node[x].link[1]] \in Nat
            BY <1>2, <2>1 DEF SearchTree
      <4> QED BY <4>1, AvlKeysFacts DEF Higher
    <3>3. CASE x = root
      <4>1. ht[x] = Higher(ht[node[x].link[0]], ht[node[x].link[1]])
            BY <2>1, <3>2, <3>3
      <4> QED BY <2>1, <2>2, <3>1, <3>2, <3>3, <4>1
    <3>4. CASE x # root
          BY <2>1, <2>2, <3>1, <3>2, <3>4
    <3> QED BY <3>3, <3>4
  <2> QED BY <2>2, <2>4 DEF Heights, Balances
<1> HIDE DEF nh
<1>7. AvlState(op', node', root', sub, nh)
  <2>1. GrownOf(op') = 0
        BY <1>4 DEF GrownOf
  <2> QED BY <1>1, <1>2, <1>5, <1>6, <2>1 DEF AvlState
<1>8. sub[root'] = sub[root]
      BY <1>1
<1> QED BY <1>4, <1>7, <1>8, AvlQuiet

\* do_pivot(): the rotation makes the tree as high as it was before the insertion.
LEMMA AvlPivot ==
    ASSUME NEW sub, NEW ht, AvlAt(sub, ht), UNCHANGED kind, Avl!Pivot
    PROVE  AvlGood
<1> DEFINE r == op.ub
           s == IF node[r].bf < 0 THEN 0 ELSE 1
           c == node[r].link[s]
           np == node[c].link[1 - s]
           top == IF Avl!IsDouble THEN np ELSE c
<1>1. /\ op.pc = "pivot"
      /\ node' = IF Avl!IsDouble THEN Avl!Double(node, r, s) ELSE Avl!Single(node, r, s)
      /\ root' = IF node'[top].up # 0 THEN root ELSE top
      /\ op' = [op EXCEPT !.pc = "done"]
  <2>1. Avl!HeavySide = s /\ Avl!Heavy = c
        BY DEF Avl!HeavySide, Avl!Heavy
  <2> HIDE DEF s, c
  <2> QED BY <2>1 DEF Avl!Pivot, Avl!NULL
<1>2. Avl!IsDouble <=> node[c].bf * Avl!Weight(s) < 0
      BY DEF Avl!IsDouble, Avl!HeavySide, Avl!Heavy
<1>3. /\ Leans(node, root, sub, ht, r, s, c)
      /\ node[c].bf = (IF s = 1 THEN -1 ELSE 1) => np \in AvlKeys
      BY <1>1, PivotReady, Zenon DEF AvlAt
<1> HIDE DEF r, s
<1>4. s \in {0, 1} /\ node[c].bf \in {-1, 1}
      BY <1>3 DEF Leans
<1>5. Restored(node, node', root, sub, r, top)
  <2>1. Avl!IsDouble <=> node[c].bf = (IF s = 1 THEN -1 ELSE 1)
    <3> HIDE DEF c
    <3>1. CASE s = 0
          BY <1>2, <1>4, <3>1 DEF Avl!Weight
    <3>2. CASE s = 1
          BY <1>2, <1>4, <3>2 DEF Avl!Weight
    <3> QED BY <1>4, <3>1, <3>2
  <2>2. CASE Avl!IsDouble
    <3>1. np \in AvlKeys /\ top = np /\ node' = Avl!Double(node, r, s)
          BY <1>1, <1>3, <2>1, <2>2
    <3>2. Restored(node, Avl!Double(node, r, s), root, sub, r, np)
          BY <1>3, <2>1, <2>2, <3>1, DoubleTurn
    <3> QED BY <3>1, <3>2
  <2>3. CASE ~Avl!IsDouble
    <3>1. top = c /\ node' = Avl!Single(node, r, s)
          BY <1>1, <2>3
    <3>2. node[c].bf = IF s = 1 THEN 1 ELSE -1
      <4> HIDE DEF c
      <4> QED BY <1>4, <2>1, <2>3
    <3>3. Restored(node, Avl!Single(node, r, s), root, sub, r, c)
      <4> HIDE DEF c
      <4> QED BY <1>3, <3>2, SingleTurn
    <3> QED BY <3>1, <3>3
  <2> QED BY <2>2, <2>3
<1> HIDE DEF top, c, np
<1>6. PICK new, nh :
         LET p == IF node[r].up = 0 THEN top ELSE root
         IN /\ AvlTree(node', p, new) /\ new[p] = sub[root]
            /\ Levels(node', nh, 0)
            /\ \A x \in AvlKeys : node'[x].bf \in -1 .. 1
            /\ node'[top].up = node[r].up
      BY <1>5 DEF Restored
<1>7. /\ AvlTree(node', root', new) /\ new[root'] = sub[root]
      /\ Levels(node', nh, 0)
      /\ \A x \in AvlKeys : node'[x].bf \in -1 .. 1
  <2>1. root' = IF node[r].up = 0 THEN top ELSE root
        BY <1>1, <1>6
  <2> QED BY <1>6, <2>1
<1>8. AvlOp(op, node, root, sub)
      BY AvlParts
<1>9. /\ op.call = "insert" /\ op.ret # "none" /\ op.key # 0
      BY <1>1, <1>8 DEF AvlOp
<1>10. /\ op'.pc = "done" /\ op'.ret = op.ret /\ op'.call = op.call /\ op'.key = op.key
       /\ op' \in [pc : {"done"}, call : {"insert"}, key : AvlKeys \union {0},
                   cur : AvlKeys \union {0}, from : AvlKeys \union {0},
                   ub : AvlKeys \union {0}, ret : {"yes", "no"}]
       BY <1>1, <1>8, <1>9 DEF AvlOp
<1>11. AvlOp(op', node', root', new)
       BY <1>7, <1>9, <1>10 DEF AvlOp
<1>12. AvlState(op', node', root', new, nh)
  <2>1. GrownOf(op') = 0
        BY <1>10 DEF GrownOf
  <2> QED BY <1>7, <1>11, <2>1 DEF AvlState, Levels
<1> QED BY <1>7, <1>10, <1>12, AvlQuiet

-----------------------------------------------------------------------------
(***************************************************************************)
(* The invariant and the theorems.                                         *)
(***************************************************************************)
LEMMA AvlStep ==
    ASSUME AvlInv, kind = "avl", [Next]_vars
    PROVE  AvlGood /\ kind' = "avl"
<1>1. PICK sub, ht : AvlAt(sub, ht)
      BY DEF AvlInv, AvlAt
<1>2. CASE UNCHANGED vars
      BY <1>1, <1>2, AvlStutter DEF vars
<1>3. CASE Next
  <2>1. UNCHANGED kind /\ Avl!Next
        BY <1>3 DEF Next
  <2>2. CASE \E c \in {"insert", "lookup"}, k \in AvlKeys : Avl!Call(c, k)
        BY <1>1, <2>1, <2>2, AvlCall
  <2>3. CASE Avl!InsertFirst
        BY <1>1, <2>1, <2>3, AvlInsertFirst
  <2>4. CASE Avl!InsertDescend
        BY <1>1, <2>1, <2>4, AvlInsertDescend
  <2>5. CASE Avl!InsertLink
        BY <1>1, <2>1, <2>5, AvlInsertLink
  <2>6. CASE Avl!InsertRefuse
        BY <1>1, <2>1, <2>6, AvlRefuse
  <2>7. CASE Avl!Climb
        BY <1>1, <2>1, <2>7, AvlClimb
  <2>8. CASE Avl!ClimbEnd
        BY <1>1, <2>1, <2>8, AvlClimbEnd
  <2>9. CASE Avl!Pivot
        BY <1>1, <2>1, <2>9, AvlPivot
  <2>10. CASE Avl!LookupDescend
        BY <1>1, <2>1, <2>10, AvlLookupDescend
  <2>11. CASE Avl!LookupEnd
        BY <1>1, <2>1, <2>11, AvlLookupEnd
  <2>12. CASE Avl!Return
        BY <1>1, <2>1, <2>12, AvlReturn
  <2> QED BY <2>1, <2>2, <2>3, <2>4, <2>5, <2>6, <2>7, <2>8, <2>9, <2>10, <2>11,
             <2>12 DEF Avl!Next, Avl!Step
<1> QED BY <1>2, <1>3

\* To begin with no node is linked.
LEMMA AvlInit ==
    ASSUME Init, kind = "avl"
    PROVE  AvlInv /\ Set!Init
<1> DEFINE sub == [x \in AvlKeys \union {0} |-> IF x = 0 THEN {} ELSE {x}]
           ht == [x \in AvlKeys \union {0} |-> IF x = 0 THEN 0 ELSE 1]
<1>1. /\ node \in [AvlKeys -> AvlNode] /\ \A x \in AvlKeys : node[x] = Avl!NewNode
      /\ root = 0 /\ op = Avl!Idle
      BY AvlNewNodeIs DEF Init, Avl!Init, Avl!NULL
<1>2. \A x \in AvlKeys : node[x].bf = 0 /\ \A t \in {0, 1} : node[x].link[t] = 0
      BY <1>1, AvlNewNodeIs
<1>3. SearchTree(AvlKeys, node, sub) /\ sub[0] = {}
  <2>1. sub \in [AvlKeys \union {0} -> SUBSET AvlKeys] /\ sub[0] = {}
        BY AvlKeysFacts
  <2>2. \A x \in AvlKeys : sub[x] = {x}
        BY AvlKeysFacts
  <2>3. \A x \in AvlKeys : IsFiniteSet({x})
        BY FS_Singleton
  <2> HIDE DEF sub
  <2> QED BY <1>2, <2>1, <2>2, <2>3, AvlKeysFacts DEF SearchTree
<1> HIDE DEF sub
<1>4. AvlTree(node, root, sub)
      BY <1>1, <1>3 DEF AvlTree
<1>5. op.pc = "idle" /\ AvlOp(op, node, root, sub)
      BY <1>1, <1>2 DEF AvlOp, Avl!Idle, Avl!NULL
<1>6. Heights(AvlKeys, node, ht, GrownOf(op)) /\ Balances(node, ht)
  <2>1. /\ ht \in [AvlKeys \union {0} -> Nat] /\ ht[0] = 0
        /\ \A x \in AvlKeys : ht[x] = 1
        BY AvlKeysFacts
  <2> HIDE DEF ht
  <2>2. GrownOf(op) = 0
        BY <1>5 DEF GrownOf
  <2>3. \A x \in AvlKeys : x # 0
        BY AvlKeysFacts
  <2> QED BY <1>2, <2>1, <2>2, <2>3 DEF Heights, Balances, Higher
<1> HIDE DEF ht
<1>7. AvlInv
      BY <1>4, <1>5, <1>6 DEF AvlInv, AvlState
<1>8. Held = {}
      BY <1>1, <1>3, AvlHeld
<1>9. Set!Init
      BY <1>1, <1>8 DEF Set!Init, Set!NoCall, Avl!Idle, Avl!NULL, Held
<1> QED BY <1>7, <1>9

AvlIInv == kind = "avl" => AvlInv

LEMMA AvlIInvNext == AvlIInv /\ [Next]_vars => AvlIInv'
<1> SUFFICES ASSUME AvlIInv, [Next]_vars, kind' = "avl" PROVE AvlInv'
    BY DEF AvlIInv
<1>1. kind = "avl"
      BY DEF Next, vars
<1> QED BY <1>1, AvlStep DEF AvlIInv, AvlGood

LEMMA AvlIInvAlways == Spec => []AvlIInv
<1>1. Init => AvlIInv
      BY AvlInit DEF AvlIInv
<1> QED BY <1>1, AvlIInvNext, PTL DEF Spec

\* While do_fix_balance() climbs and a rotation runs, whatever the keys, parent
\* links lead from the new node to the root: the trace back of the descent has
\* mended what earlier double rotations left stale.
THEOREM AvlLinks == Spec => [](kind = "avl" => LinksAgree)
<1>1. AvlIInv => (kind = "avl" => LinksAgree)
      BY AvlMeans DEF AvlIInv
<1> QED BY <1>1, AvlIInvAlways, PTL

\* Between calls smaller keys are left of each node and greater ones right of it,
\* and its sub-trees differ by at most one level.
THEOREM AvlOrder == Spec => [](kind = "avl" => Ordered)
<1>1. AvlIInv => (kind = "avl" => Ordered)
      BY AvlMeans DEF AvlIInv
<1> QED BY <1>1, AvlIInvAlways, PTL

\* At every step of an insertion the balance factors are exact for who does not
\* know of the sub-tree that has grown: the climb of do_fix_balance() may stop at a
\* node it makes even, and after one rotation; no BUG() of avl.c is reached, and
\* the nodes a rotation needs are there.
THEOREM AvlBalance == Spec => []BalanceExact
<1>1. AvlIInv => BalanceExact
      BY AvlMeans DEF AvlIInv, BalanceExact
<1> QED BY <1>1, AvlIInvAlways, PTL

\* The tree of avl.c does for its callers what KeySet says: the new key is there
\* from the moment its node is linked, and no rotation loses or adds one.
THEOREM AvlIsSet == Spec /\ kind = "avl" => Implements
<1> DEFINE I == kind = "avl" /\ AvlInv
<1>1. Init /\ kind = "avl" => I /\ Set!Init
      BY AvlInit
<1>2. I /\ [Next]_vars => I' /\ [Set!Next]_(Set!vars)
      BY AvlStep DEF AvlGood
<1> HIDE DEF I
<1> QED BY <1>1, <1>2, PTL DEF Spec, Implements, Set!Spec
=============================================================================
