------------------------------- MODULE Linked -------------------------------
(***************************************************************************)
(* Lemmas about linked structures: how to reason by induction along links, *)
(* and what holds of the sub-trees of a search tree, whoever keeps it.     *)
(***************************************************************************)
EXTENDS Integers, FiniteSetTheorems, WellFoundedInduction, TLAPS

\* Every non-empty set of numbers has a least one.
LEMMA LeastNatural ==
    ASSUME NEW T \in SUBSET Nat, T # {}
    PROVE  \E m \in T : \A n \in T : m <= n
<1>1. \E R : /\ IsWellFoundedOn(R, Nat)
              /\ \A m, n \in Nat : n < m => <<n, m>> \in R
  <2>1. IsWellFoundedOn(OpToRel(<, Nat), Nat)
        BY ONLY NatLessThanWellFounded, Zenon
  <2>2. \A m, n \in Nat : n < m => <<n, m>> \in OpToRel(<, Nat)
        BY SMT DEF OpToRel
  <2> QED BY ONLY <2>1, <2>2, Zenon
<1>2. PICK R : IsWellFoundedOn(R, Nat) /\ \A m, n \in Nat : n < m => <<n, m>> \in R
      BY <1>1
<1>3. PICK m \in T : \A n \in T : ~(<<n, m>> \in R)
      BY <1>2, WFMin
<1>4. \A n \in T : ~(n < m)
      BY <1>2, <1>3
<1>5. T \subseteq Nat
      OBVIOUS
<1> QED BY <1>4, <1>5

\* Of finite sets, some includes no other: induction along links is induction on
\* what is still to come.
LEMMA LeastSet ==
    ASSUME NEW C, C # {}, \A c \in C : IsFiniteSet(c)
    PROVE  \E c \in C : \A d \in C : d \subseteq c => d = c
<1> DEFINE T == {Cardinality(c) : c \in C}
<1>1. T \in SUBSET Nat /\ T # {}
      BY FS_CardinalityType
<1>2. PICK m \in T : \A n \in T : m <= n
  <2> HIDE DEF T
  <2> QED BY <1>1, LeastNatural
<1>3. PICK c \in C : m = Cardinality(c)
      OBVIOUS
<1>4. ASSUME NEW d \in C, d \subseteq c PROVE d = c
  <2>1. Cardinality(c) <= Cardinality(d)
        BY <1>2, <1>3
  <2>2. /\ Cardinality(d) <= Cardinality(c)
        /\ Cardinality(c) = Cardinality(d) => c = d
        BY <1>4, FS_Subset
  <2>3. Cardinality(c) \in Nat /\ Cardinality(d) \in Nat
        BY FS_CardinalityType
  <2> QED BY <2>1, <2>2, <2>3
<1> QED BY <1>4

-----------------------------------------------------------------------------
(***************************************************************************)
(* Search trees.  The nodes h are named by their keys, of K, and 0 is no   *)
(* node; a node that is in no tree is a tree of its own.                   *)
(***************************************************************************)
\* sub tells which keys are under each node, itself included: smaller ones on
\* side 0, greater ones on side 1.
SearchTree(K, h, sub) ==
    /\ K \subseteq Nat \ {0}
    /\ sub \in [K \union {0} -> SUBSET K]
    /\ sub[0] = {}
    /\ \A y \in K :
          /\ IsFiniteSet(sub[y])
          /\ \A s \in {0, 1} :
                /\ h[y].link[s] \in K \union {0}
                /\ \A k \in sub[h[y].link[s]] : IF s = 0 THEN k < y ELSE k > y
          /\ sub[y] = {y} \union sub[h[y].link[0]] \union sub[h[y].link[1]]

\* What a node says of its children, and they of it.
LEMMA NodeFacts ==
    ASSUME NEW K, NEW h, NEW sub, SearchTree(K, h, sub),
           NEW y \in K
    PROVE  /\ K \subseteq Nat /\ 0 \notin K
           /\ y \in Nat /\ y # 0 /\ y \in sub[y] /\ sub[y] \subseteq K
           /\ sub[0] = {}
           /\ \A s \in {0, 1} :
                 /\ h[y].link[s] \in K \union {0}
                 /\ sub[h[y].link[s]] \subseteq sub[y]
                 /\ sub[h[y].link[s]] \subseteq K
                 /\ y \notin sub[h[y].link[s]]
                 /\ h[y].link[s] # y
                 /\ h[y].link[s] # 0 => h[y].link[s] \in sub[h[y].link[s]]
           /\ \A k \in sub[y] : k = y \/ \E s \in {0, 1} : k \in sub[h[y].link[s]]
<1>1. K \subseteq Nat /\ 0 \notin K /\ y \in Nat /\ y # 0
      BY DEF SearchTree
<1>2. /\ sub[0] = {} /\ sub[y] \subseteq K
      /\ sub[y] = {y} \union sub[h[y].link[0]] \union sub[h[y].link[1]]
      BY DEF SearchTree
<1>3. ASSUME NEW s \in {0, 1}
      PROVE  /\ h[y].link[s] \in K \union {0}
             /\ sub[h[y].link[s]] \subseteq sub[y]
             /\ y \notin sub[h[y].link[s]]
             /\ h[y].link[s] # 0 => h[y].link[s] \in sub[h[y].link[s]]
  <2>1. h[y].link[s] \in K \union {0}
        BY DEF SearchTree
  <2>2. sub[h[y].link[s]] \subseteq sub[y]
        BY <1>2
  <2>3. y \notin sub[h[y].link[s]]
    <3>1. \A k \in sub[h[y].link[s]] : k < y \/ k > y
          BY DEF SearchTree
    <3> QED BY <3>1, <1>1
  <2>4. \A z \in K : z \in sub[z]
        BY DEF SearchTree
  <2> QED BY <2>1, <2>2, <2>3, <2>4
<1>4. \A s \in {0, 1} : h[y].link[s] # y
      BY <1>3, <1>1
<1>5. \A k \in sub[y] : k = y \/ \E s \in {0, 1} : k \in sub[h[y].link[s]]
  <2>1. \A k \in sub[y] : k = y \/ k \in sub[h[y].link[0]] \/ k \in sub[h[y].link[1]]
        BY <1>2
  <2> QED BY <2>1
<1> QED BY <1>1, <1>2, <1>3, <1>4, <1>5

\* No key is under both of them.
LEMMA OneSide ==
    ASSUME NEW K, NEW h, NEW sub, SearchTree(K, h, sub),
           NEW y \in K, NEW s \in {0, 1}, NEW t \in {0, 1},
           NEW k \in sub[h[y].link[s]], k \in sub[h[y].link[t]]
    PROVE  s = t
<1>1. k \in Nat /\ y \in Nat BY NodeFacts
<1>2. (IF s = 0 THEN k < y ELSE k > y) /\ (IF t = 0 THEN k < y ELSE k > y)
      BY DEF SearchTree
<1> QED BY <1>1, <1>2

\* Induction from the leaves up: of the nodes for which something does not hold,
\* one has no child for which it does not.
LEMMA LowestNode ==
    ASSUME NEW K, NEW h, NEW sub, SearchTree(K, h, sub),
           NEW B, B \subseteq K, B # {}
    PROVE  \E y \in B : y \in K /\ h[y].link[0] \notin B /\ h[y].link[1] \notin B
<1>1. PICK y \in B : \A z \in B : sub[z] \subseteq sub[y] => sub[z] = sub[y]
  <2> DEFINE C == {sub[x] : x \in B}
  <2>1. \A c \in C : IsFiniteSet(c)
        BY DEF SearchTree
  <2>2. PICK c \in C : \A d \in C : d \subseteq c => d = c
    <3>1. C # {} OBVIOUS
    <3> HIDE DEF C
    <3> QED BY <2>1, <3>1, LeastSet
  <2> QED BY <2>2
<1>2. y \in K
      OBVIOUS
<1>3. \A s \in {0, 1} : y \notin sub[h[y].link[s]]
      BY <1>2, NodeFacts
<1>4. \A s \in {0, 1} : sub[h[y].link[s]] \subseteq sub[y] /\ y \in sub[y]
      BY <1>2, NodeFacts
<1>5. \A s \in {0, 1} : h[y].link[s] \notin B
      BY <1>1, <1>3, <1>4
<1> QED BY <1>2, <1>5

LEMMA SubTrans ==
    ASSUME NEW K, NEW h, NEW sub, SearchTree(K, h, sub),
           NEW y \in K, NEW z \in sub[y]
    PROVE  sub[z] \subseteq sub[y]
<1> DEFINE B == {x \in K : \E k \in sub[x] : ~(sub[k] \subseteq sub[x])}
<1>1. SUFFICES ASSUME B # {} PROVE FALSE
      OBVIOUS
<1>2. PICK x \in B : h[x].link[0] \notin B /\ h[x].link[1] \notin B
  <2> HIDE DEF B
  <2>1. B \subseteq K BY DEF B
  <2> QED BY <1>1, <2>1, LowestNode
<1>3. PICK k \in sub[x] : ~(sub[k] \subseteq sub[x])
      OBVIOUS
<1>4. x \in K OBVIOUS
<1>5. PICK s \in {0, 1} : k \in sub[h[x].link[s]]
      BY <1>3, <1>4, NodeFacts
<1>6. h[x].link[s] \in K
      BY <1>4, <1>5, NodeFacts
<1>7. sub[k] \subseteq sub[h[x].link[s]]
      BY <1>2, <1>5, <1>6
<1> QED BY <1>3, <1>4, <1>7, NodeFacts

\* The keys under a node are neighbours: whatever is not under it lies on one
\* side of all of them.
LEMMA Convex ==
    ASSUME NEW K, NEW h, NEW sub, SearchTree(K, h, sub),
           NEW y \in K, NEW a \in sub[y], NEW x \in sub[y] \ sub[a], NEW z \in sub[a]
    PROVE  x < z <=> x < a
<1> DEFINE P(t) == \A b \in sub[t] : \A u \in sub[t] \ sub[b] : \A v \in sub[b] :
                      u < v <=> u < b
           B == {t \in K : ~P(t)}
<1>1. SUFFICES ASSUME B # {} PROVE FALSE
      OBVIOUS
<1>2. PICK t \in B : h[t].link[0] \notin B /\ h[t].link[1] \notin B
  <2> HIDE DEF B
  <2>1. B \subseteq K BY DEF B
  <2> QED BY <1>1, <2>1, LowestNode
<1>3. t \in K /\ t \in Nat /\ K \subseteq Nat
      BY DEF SearchTree
<1>4. \A s \in {0, 1} : h[t].link[s] # 0 => P(h[t].link[s])
  <2> HIDE DEF P
  <2> SUFFICES ASSUME NEW s \in {0, 1}, h[t].link[s] # 0 PROVE P(h[t].link[s])
      OBVIOUS
  <2>1. h[t].link[s] \in K \union {0} /\ h[t].link[s] \notin B
        BY <1>2, <1>3, NodeFacts
  <2> QED BY <2>1
<1>5. PICK b \in sub[t], u \in sub[t], v \in K :
         u \notin sub[b] /\ v \in sub[b] /\ ~(u < v <=> u < b)
  <2>1. \A c \in sub[t] : sub[c] \subseteq K
        BY <1>3, NodeFacts
  <2>2. ~P(t)
        OBVIOUS
  <2> QED BY <2>1, <2>2
<1> HIDE DEF P, B
<1>6. b # t
      BY <1>5
<1>7. PICK s \in {0, 1} : b \in sub[h[t].link[s]]
      BY <1>3, <1>5, <1>6, NodeFacts
<1>8. h[t].link[s] \in K /\ sub[b] \subseteq sub[h[t].link[s]]
      BY <1>3, <1>7, NodeFacts, SubTrans
<1>9. u \notin sub[h[t].link[s]]
  <2>1. P(h[t].link[s])
        BY <1>3, <1>4, <1>7, <1>8, NodeFacts
  <2> QED BY <1>5, <1>7, <2>1 DEF P
<1>10. /\ u \in Nat /\ v \in Nat /\ b \in Nat
  <2>1. sub[t] \subseteq K BY <1>3, NodeFacts
  <2>2. sub[b] \subseteq sub[t] BY <1>3, <1>5, SubTrans
  <2> QED BY <1>3, <1>5, <2>1, <2>2
<1>11. u = t \/ u \in sub[h[t].link[1 - s]]
      BY <1>3, <1>5, <1>9, NodeFacts
<1>12. CASE s = 0
  <2>1. b < t /\ v < t /\ t <= u
        BY <1>3, <1>7, <1>8, <1>5, <1>11, <1>12, <1>10 DEF SearchTree
  <2> QED BY <1>3, <1>5, <1>10, <2>1
<1>13. CASE s = 1
  <2>1. b > t /\ v > t /\ t >= u
        BY <1>3, <1>7, <1>8, <1>5, <1>11, <1>13, <1>10 DEF SearchTree
  <2> QED BY <1>3, <1>5, <1>10, <2>1
<1> QED BY <1>12, <1>13

\* Two sub-trees of a tree have no key in common, or one is part of the other.
LEMMA Nested ==
    ASSUME NEW K, NEW h, NEW sub, SearchTree(K, h, sub),
           NEW y \in K, NEW a \in sub[y], NEW b \in sub[y]
    PROVE  a \in sub[b] \/ b \in sub[a] \/ sub[a] \intersect sub[b] = {}
<1> DEFINE P(t) == \A u, v \in sub[t] :
                      u \in sub[v] \/ v \in sub[u] \/ sub[u] \intersect sub[v] = {}
           B == {t \in K : ~P(t)}
<1>1. SUFFICES ASSUME B # {} PROVE FALSE
      OBVIOUS
<1>2. PICK t \in B : h[t].link[0] \notin B /\ h[t].link[1] \notin B
  <2> HIDE DEF B
  <2>1. B \subseteq K BY DEF B
  <2> QED BY <1>1, <2>1, LowestNode
<1>3. t \in K
      OBVIOUS
<1>4. \A s \in {0, 1} : h[t].link[s] # 0 => P(h[t].link[s])
  <2> HIDE DEF P
  <2> SUFFICES ASSUME NEW s \in {0, 1}, h[t].link[s] # 0 PROVE P(h[t].link[s])
      OBVIOUS
  <2>1. h[t].link[s] \in K \union {0} /\ h[t].link[s] \notin B
        BY <1>2, <1>3, NodeFacts
  <2> QED BY <2>1
<1>5. PICK u \in sub[t], v \in sub[t] :
         u \notin sub[v] /\ v \notin sub[u] /\ sub[u] \intersect sub[v] # {}
      BY <1>2
<1> HIDE DEF P, B
<1>6. u # t /\ v # t
      BY <1>5
<1>7. PICK p \in {0, 1}, q \in {0, 1} :
         u \in sub[h[t].link[p]] /\ v \in sub[h[t].link[q]]
      BY <1>3, <1>5, <1>6, NodeFacts
<1>8. /\ h[t].link[p] \in K /\ sub[u] \subseteq sub[h[t].link[p]]
      /\ h[t].link[q] \in K /\ sub[v] \subseteq sub[h[t].link[q]]
      /\ h[t].link[p] # 0 /\ h[t].link[q] # 0
  <2>1. ASSUME NEW i \in {0, 1}, NEW d \in sub[h[t].link[i]]
        PROVE  /\ h[t].link[i] \in K /\ sub[d] \subseteq sub[h[t].link[i]]
               /\ h[t].link[i] # 0
    <3>1. h[t].link[i] \in K \union {0} /\ h[t].link[i] # 0
          BY <1>3, <2>1, NodeFacts
    <3>2. h[t].link[i] \in K
          BY <3>1
    <3> QED BY <2>1, <3>1, <3>2, SubTrans
  <2> QED BY <1>7, <2>1
<1>9. CASE p = q
      BY <1>4, <1>5, <1>7, <1>8, <1>9 DEF P
<1>10. CASE p # q
  <2>1. PICK k \in sub[u] : k \in sub[v]
        BY <1>5
  <2>2. k \in sub[h[t].link[p]] /\ k \in sub[h[t].link[q]]
        BY <1>8, <2>1
  <2> QED BY <1>3, <1>10, <2>2, OneSide
<1> QED BY <1>9, <1>10

\* Every node of a tree but its root is the child of one,
LEMMA HasParent ==
    ASSUME NEW K, NEW h, NEW sub, SearchTree(K, h, sub),
           NEW y \in K, NEW c \in sub[y], c # y
    PROVE  \E p \in sub[y], s \in {0, 1} : h[p].link[s] = c
<1> DEFINE P(t) == \A d \in sub[t] \ {t} : \E p \in sub[t], s \in {0, 1} : h[p].link[s] = d
           B == {t \in K : ~P(t)}
<1>1. SUFFICES ASSUME B # {} PROVE FALSE
      OBVIOUS
<1>2. PICK t \in B : h[t].link[0] \notin B /\ h[t].link[1] \notin B
  <2> HIDE DEF B
  <2>1. B \subseteq K BY DEF B
  <2> QED BY <1>1, <2>1, LowestNode
<1>3. t \in K
      OBVIOUS
<1>4. \A s \in {0, 1} : h[t].link[s] # 0 => P(h[t].link[s])
  <2> HIDE DEF P
  <2> SUFFICES ASSUME NEW s \in {0, 1}, h[t].link[s] # 0 PROVE P(h[t].link[s])
      OBVIOUS
  <2>1. h[t].link[s] \in K \union {0} /\ h[t].link[s] \notin B
        BY <1>2, <1>3, NodeFacts
  <2> QED BY <2>1
<1>5. PICK d \in sub[t] \ {t} : ~ \E p \in sub[t], s \in {0, 1} : h[p].link[s] = d
      BY <1>2
<1> HIDE DEF P, B
<1>6. PICK s \in {0, 1} : d \in sub[h[t].link[s]]
      BY <1>3, <1>5, NodeFacts
<1>7. /\ h[t].link[s] # 0 /\ h[t].link[s] # d
      /\ sub[h[t].link[s]] \subseteq sub[t] /\ t \in sub[t]
      BY <1>3, <1>5, <1>6, NodeFacts
<1> QED BY <1>4, <1>5, <1>6, <1>7 DEF P

\* and by one link only.
LEMMA OneParent ==
    ASSUME NEW K, NEW h, NEW sub, SearchTree(K, h, sub),
           NEW y \in K, NEW p \in sub[y], NEW q \in sub[y],
           NEW s \in {0, 1}, NEW t \in {0, 1},
           h[p].link[s] # 0, h[p].link[s] = h[q].link[t]
    PROVE  p = q /\ s = t
<1>1. p \in K /\ q \in K
      BY NodeFacts
<1>2. ASSUME NEW a \in K, NEW b \in sub[a], a # b,
             NEW i \in {0, 1}, NEW j \in {0, 1},
             h[a].link[i] # 0, h[a].link[i] = h[b].link[j]
      PROVE  FALSE
  <2>1. PICK k \in {0, 1} : b \in sub[h[a].link[k]]
        BY <1>2, NodeFacts
  <2>2. b \in K /\ h[b].link[j] \in sub[b]
        BY <1>2, NodeFacts
  <2>3. h[a].link[k] \in K /\ sub[b] \subseteq sub[h[a].link[k]]
        BY <2>1, NodeFacts, SubTrans
  <2>4. h[a].link[i] \in sub[h[a].link[k]] /\ h[a].link[i] \in sub[h[a].link[i]]
        BY <1>2, <2>2, <2>3, NodeFacts
  <2>5. k = i
        BY <2>4, OneSide
  <2> QED BY <1>2, <2>1, <2>2, <2>5, NodeFacts
<1>3. h[p].link[s] \in sub[p] /\ h[p].link[s] \in sub[q]
      BY <1>1, NodeFacts
<1>4. p = q
      BY <1>1, <1>2, <1>3, Nested
<1>5. s = t
  <2>1. h[p].link[s] \in sub[h[p].link[s]] /\ h[p].link[s] \in sub[h[p].link[t]]
        BY <1>1, <1>4, NodeFacts
  <2> QED BY <1>1, <2>1, OneSide
<1> QED BY <1>4, <1>5

\* A sub-tree that has a child, and not as its root, has the parent.
LEMMA ParentUnder ==
    ASSUME NEW K, NEW h, NEW sub, SearchTree(K, h, sub),
           NEW y \in K, NEW p \in sub[y], NEW x \in sub[y], NEW s \in {0, 1},
           h[p].link[s] \in sub[x], h[p].link[s] # x
    PROVE  p \in sub[x]
<1>1. x \in K /\ p \in K /\ sub[x] \subseteq sub[y]
      BY NodeFacts, SubTrans
<1>2. PICK q \in sub[x], t \in {0, 1} : h[q].link[t] = h[p].link[s]
      BY <1>1, HasParent
<1>3. h[p].link[s] # 0
  <2>1. sub[x] \subseteq K /\ 0 \notin K BY <1>1, NodeFacts
  <2> QED BY <2>1
<1> QED BY <1>1, <1>2, <1>3, OneParent

\* The keys under the nodes satisfy the equation of a recursive function, and no
\* other function does.
LEMMA OnlySub ==
    ASSUME NEW K, NEW h, NEW sub, SearchTree(K, h, sub)
    PROVE  /\ sub = [y \in K \union {0} |->
                       IF y = 0 THEN {}
                       ELSE {y} \union sub[h[y].link[0]] \union sub[h[y].link[1]]]
           /\ \A u : u = [y \in K \union {0} |->
                            IF y = 0 THEN {}
                            ELSE {y} \union u[h[y].link[0]] \union u[h[y].link[1]]]
                     => u = sub
<1>1. \A y \in K : y # 0
      BY DEF SearchTree
<1>2. sub = [y \in K \union {0} |->
               IF y = 0 THEN {}
               ELSE {y} \union sub[h[y].link[0]] \union sub[h[y].link[1]]]
      BY <1>1 DEF SearchTree
<1>3. ASSUME NEW u,
             u = [y \in K \union {0} |->
                    IF y = 0 THEN {}
                    ELSE {y} \union u[h[y].link[0]] \union u[h[y].link[1]]]
      PROVE  u = sub
  <2>1. /\ DOMAIN u = K \union {0} /\ u[0] = {}
        /\ \A y \in K : u[y] = {y} \union u[h[y].link[0]] \union u[h[y].link[1]]
        BY <1>1, <1>3
  <2> DEFINE B == {y \in K : u[y] # sub[y]}
  <2>2. SUFFICES ASSUME B # {} PROVE FALSE
    <3>1. B = {} => \A y \in K \union {0} : u[y] = sub[y]
          BY <2>1 DEF SearchTree
    <3>2. (\A y \in K \union {0} : u[y] = sub[y]) => u = sub
      <4>1. u = [y \in K \union {0} |-> u[y]] BY <1>3
      <4>2. sub = [y \in K \union {0} |-> sub[y]] BY DEF SearchTree
      <4> QED BY <4>1, <4>2
    <3> QED BY <3>1, <3>2
  <2>3. PICK x \in B : h[x].link[0] \notin B /\ h[x].link[1] \notin B
    <3> HIDE DEF B
    <3>1. B \subseteq K BY DEF B
    <3> QED BY <2>2, <3>1, LowestNode
  <2>4. \A s \in {0, 1} : u[h[x].link[s]] = sub[h[x].link[s]]
    <3>1. \A s \in {0, 1} : /\ h[x].link[s] \in K \union {0}
                             /\ h[x].link[s] \notin B
          BY <2>3, NodeFacts
    <3>2. sub[0] = {}
          BY DEF SearchTree
    <3> QED BY <2>1, <3>1, <3>2
  <2>5. x \in K /\ u[x] # sub[x]
        OBVIOUS
  <2>6. sub[x] = {x} \union sub[h[x].link[0]] \union sub[h[x].link[1]]
        BY <2>5 DEF SearchTree
  <2> QED BY <2>1, <2>4, <2>5, <2>6
<1> QED BY <1>2, <1>3

\* The keys under x, as the trees define them.
UnderIn(K, h, x) ==
    LET u[y \in K \union {0}] ==
            IF y = 0 THEN {}
            ELSE {y} \union u[h[y].link[0]] \union u[h[y].link[1]]
    IN u[x]

LEMMA UnderIs ==
    ASSUME NEW K, NEW h, NEW sub, SearchTree(K, h, sub)
    PROVE  \A x : UnderIn(K, h, x) = sub[x]
<1> DEFINE Eq(u) == u = [y \in K \union {0} |->
                          IF y = 0 THEN {}
                          ELSE {y} \union u[h[y].link[0]] \union u[h[y].link[1]]]
           under == CHOOSE u : Eq(u)
<1>1. Eq(sub) /\ \A u : Eq(u) => u = sub
      BY OnlySub
<1>2. under = sub
  <2> HIDE DEF Eq
  <2> QED BY <1>1
<1>3. \A x : UnderIn(K, h, x) = under[x]
      BY DEF UnderIn
<1> HIDE DEF under
<1> QED BY <1>2, <1>3

-----------------------------------------------------------------------------
(***************************************************************************)
(* The search for a key from root y, and the insertion of a leaf.          *)
(***************************************************************************)
\* The search for key has come to c: it has left nothing behind that is the key,
\* or lies between c and the key.
OnWay(sub, y, key, c) ==
    /\ c \in sub[y]
    /\ \A x \in sub[y] \ sub[c] : x # key /\ (x < key <=> x < c)

\* It goes on, or the key is not there.
LEMMA OnWayDown ==
    ASSUME NEW K, NEW h, NEW sub, SearchTree(K, h, sub),
           NEW y \in K, NEW key \in K, NEW c \in K, OnWay(sub, y, key, c), key # c,
           NEW s \in {0, 1}, s = IF key > c THEN 1 ELSE 0
    PROVE  /\ h[c].link[s] = 0 => key \notin sub[y]
           /\ h[c].link[s] # 0 => OnWay(sub, y, key, h[c].link[s])
           /\ IF s = 0 THEN key < c ELSE key > c
<1>1. /\ K \subseteq Nat /\ c \in sub[y] /\ sub[y] \subseteq K
      /\ sub[c] \subseteq sub[y]
      BY NodeFacts, SubTrans DEF OnWay
<1>2. IF s = 0 THEN key < c ELSE key > c
      BY <1>1
<1>3. \A x \in sub[h[c].link[0]] : x < c
      BY DEF SearchTree
<1>4. \A x \in sub[h[c].link[1]] : x > c
      BY DEF SearchTree
<1>5. h[c].link[s] = 0 => key \notin sub[y]
  <2> SUFFICES ASSUME h[c].link[s] = 0, key \in sub[y] PROVE FALSE
      OBVIOUS
  <2>1. key \in sub[c] BY DEF OnWay
  <2>2. PICK t \in {0, 1} : key \in sub[h[c].link[t]]
        BY <2>1, NodeFacts
  <2>3. t = s
        BY <1>1, <1>2, <1>3, <1>4, <2>2
  <2> QED BY <2>2, <2>3, NodeFacts
<1>6. ASSUME h[c].link[s] # 0 PROVE OnWay(sub, y, key, h[c].link[s])
  <2> DEFINE d == h[c].link[s]
  <2>1. d \in sub[c] /\ d \in sub[y] /\ d \in sub[d] /\ d \in Nat
        BY <1>1, <1>6, NodeFacts
  <2>2. IF s = 0 THEN d < c ELSE d > c
        BY <1>3, <1>4, <2>1
  <2>3. ASSUME NEW x \in sub[y], x \notin sub[d]
        PROVE  x # key /\ (x < key <=> x < d)
    <3>1. x \in Nat /\ key \in Nat /\ c \in Nat
          BY <1>1
    <3>2. CASE x \notin sub[c]
      <4>1. x # key /\ (x < key <=> x < c)
            BY <3>2 DEF OnWay
      <4>2. x < d <=> x < c
            BY <1>1, <2>1, <3>2, Convex
      <4> QED BY <4>1, <4>2
    <3>3. CASE x = c
          BY <1>2, <2>1, <2>2, <3>1, <3>3
    <3>4. CASE x \in sub[c] /\ x # c
      <4>1. PICK t \in {0, 1} : x \in sub[h[c].link[t]]
            BY <3>4, NodeFacts
      <4>2. t # s BY <4>1, <2>3
      <4>3. IF s = 0 THEN x > c ELSE x < c
            BY <1>3, <1>4, <4>1, <4>2
      <4> QED BY <1>2, <2>1, <2>2, <3>1, <4>3
    <3> QED BY <3>2, <3>3, <3>4
  <2> QED BY <2>1, <2>3 DEF OnWay
<1> QED BY <1>2, <1>5, <1>6

\* The nodes on the way to p have k under them once it is linked to p.
WithLeaf(sub, p, k) ==
    [x \in DOMAIN sub |-> IF p \in sub[x] THEN sub[x] \union {k} ELSE sub[x]]

LinksLeaf(K, h, g, p, s, k) ==
    \A x \in K : \A t \in {0, 1} :
       g[x].link[t] = IF x = p /\ t = s THEN k ELSE h[x].link[t]

LEMMA InsertLeaf ==
    ASSUME NEW K, NEW h, NEW sub, SearchTree(K, h, sub),
           NEW y \in K, NEW p \in K, NEW k \in K, OnWay(sub, y, k, p), k # p,
           k \notin sub[y], sub[k] = {k},
           \A x \in K : p \in sub[x] => x \in sub[y],
           NEW s \in {0, 1}, s = IF k > p THEN 1 ELSE 0, h[p].link[s] = 0,
           NEW g, LinksLeaf(K, h, g, p, s, k)
    PROVE  SearchTree(K, g, WithLeaf(sub, p, k))
<1> USE DEF LinksLeaf
<1> DEFINE new == WithLeaf(sub, p, k)
<1>1. /\ K \subseteq Nat \ {0} /\ p \in sub[y] /\ sub[y] \subseteq K
      /\ sub \in [K \union {0} -> SUBSET K] /\ sub[0] = {}
      /\ p \in Nat /\ k \in Nat /\ p \in sub[p]
      BY NodeFacts DEF OnWay, SearchTree
<1>2. /\ new \in [K \union {0} -> SUBSET K] /\ new[0] = {}
      /\ \A x \in K \union {0} : new[x] = IF p \in sub[x] THEN sub[x] \union {k} ELSE sub[x]
      /\ new[k] = {k}
      BY <1>1 DEF WithLeaf
<1> HIDE DEF new
<1>3. ASSUME NEW x \in K
      PROVE  /\ IsFiniteSet(new[x])
             /\ \A t \in {0, 1} :
                   /\ g[x].link[t] \in K \union {0}
                   /\ \A j \in new[g[x].link[t]] : IF t = 0 THEN j < x ELSE j > x
             /\ new[x] = {x} \union new[g[x].link[0]] \union new[g[x].link[1]]
  <2>0. x \in Nat
        BY <1>1
  <2>1. IsFiniteSet(new[x])
    <3>1. IsFiniteSet(sub[x]) /\ IsFiniteSet(sub[x] \union {k})
          BY FS_AddElement DEF SearchTree
    <3> QED BY <1>2, <3>1
  <2>2. \A t \in {0, 1} : h[x].link[t] \in K \union {0} /\ g[x].link[t] \in K \union {0}
        BY NodeFacts
  <2>3. sub[x] = {x} \union sub[h[x].link[0]] \union sub[h[x].link[1]]
        BY DEF SearchTree
  <2>4. ASSUME NEW t \in {0, 1}, NEW j \in new[g[x].link[t]]
        PROVE  IF t = 0 THEN j < x ELSE j > x
    <3>1. CASE x = p /\ t = s
      <4>1. j = k BY <1>2, <2>4, <3>1
      <4> QED BY <1>1, <3>1, <4>1
    <3>2. CASE ~(x = p /\ t = s)
      <4>1. g[x].link[t] = h[x].link[t] BY <3>2
      <4>2. CASE j \in sub[h[x].link[t]]
            BY <4>2 DEF SearchTree
      <4>3. CASE j \notin sub[h[x].link[t]]
        <5>1. j = k /\ p \in sub[h[x].link[t]]
              BY <1>2, <2>2, <2>4, <4>1, <4>3, ZenonT(40)
        <5>2. IF t = 0 THEN p < x ELSE p > x
              BY <5>1 DEF SearchTree
        <5>3. x \in sub[y] /\ x # p
          <6>1. p \in sub[x] BY <2>3, <5>1
          <6> QED BY <6>1, <5>2, <2>0, <1>1
        <5>4. x \notin sub[p]
          <6>1. sub[p] \subseteq sub[h[x].link[t]]
                BY <2>2, <5>1, SubTrans, <1>1
          <6>2. x \notin sub[h[x].link[t]]
                BY NodeFacts
          <6> QED BY <6>1, <6>2
        <5>5. x # k /\ (x < k <=> x < p)
              BY <5>3, <5>4 DEF OnWay
        <5> QED BY <1>1, <2>0, <5>1, <5>2, <5>5
      <4> QED BY <4>2, <4>3
    <3> QED BY <3>1, <3>2
  <2>5. new[x] = {x} \union new[g[x].link[0]] \union new[g[x].link[1]]
    <3>1. CASE x = p
      <4>1. new[x] = sub[x] \union {k}
            BY <1>1, <1>2, <3>1
      <4>2. new[g[x].link[s]] = {k} /\ sub[h[x].link[s]] = {}
            BY <1>1, <1>2, <3>1
      <4>3. \A t \in {0, 1} : t # s => new[g[x].link[t]] = sub[h[x].link[t]]
        <5>1. \A t \in {0, 1} : p \notin sub[h[x].link[t]]
              BY <3>1, NodeFacts
        <5> QED BY <1>2, <2>2, <5>1
      <4> QED BY <2>3, <4>1, <4>2, <4>3
    <3>2. CASE x # p
      <4>1. \A t \in {0, 1} : g[x].link[t] = h[x].link[t]
            BY <3>2
      <4>2. p \in sub[x] <=> \E t \in {0, 1} : p \in sub[h[x].link[t]]
            BY <2>3, <3>2
      <4>3. CASE p \in sub[x]
        <5>1. \A t \in {0, 1} : new[g[x].link[t]] =
                 IF p \in sub[h[x].link[t]] THEN sub[h[x].link[t]] \union {k}
                 ELSE sub[h[x].link[t]]
              BY <1>2, <2>2, <4>1, ZenonT(40)
        <5> QED BY <1>2, <2>3, <4>2, <4>3, <5>1
      <4>4. CASE p \notin sub[x]
        <5>1. \A t \in {0, 1} : new[g[x].link[t]] = sub[h[x].link[t]]
              BY <1>2, <2>2, <4>1, <4>2, <4>4, ZenonT(40)
        <5> QED BY <1>2, <2>3, <4>4, <5>1
      <4> QED BY <4>3, <4>4
    <3> QED BY <3>1, <3>2
  <2> QED BY <2>1, <2>2, <2>4, <2>5
<1>4. SearchTree(K, g, new)
      BY <1>1, <1>2, <1>3 DEF SearchTree
<1> QED BY <1>4 DEF new
-----------------------------------------------------------------------------
(***************************************************************************)
(* The removal of a node v.                                                *)
(***************************************************************************)
Without(sub, v) == [x \in DOMAIN sub |-> IF x = v THEN {v} ELSE sub[x] \ {v}]

\* A node with one child, or none, leaves its place to the child kid.
LinksCut(K, h, g, v, kid) ==
    \A x \in K : \A t \in {0, 1} :
       g[x].link[t] = IF x = v THEN 0
                      ELSE IF h[x].link[t] = v THEN kid ELSE h[x].link[t]

LEMMA CutOut ==
    ASSUME NEW K, NEW h, NEW sub, SearchTree(K, h, sub), NEW v \in K,
           NEW i \in {0, 1}, h[v].link[1 - i] = 0,
           NEW g, LinksCut(K, h, g, v, h[v].link[i])
    PROVE  SearchTree(K, g, Without(sub, v))
<1> DEFINE new == Without(sub, v)
           kid == h[v].link[i]
<1> USE DEF LinksCut
<1>1. /\ K \subseteq Nat \ {0} /\ v \in Nat
      /\ sub \in [K \union {0} -> SUBSET K] /\ sub[0] = {}
      /\ kid \in K \union {0} /\ v \notin sub[kid]
  <2>1. /\ K \subseteq Nat \ {0}
        /\ sub \in [K \union {0} -> SUBSET K] /\ sub[0] = {}
        BY DEF SearchTree
  <2>2. kid \in K \union {0} /\ v \notin sub[kid]
        BY NodeFacts
  <2> QED BY <2>1, <2>2
<1>2. sub[v] = {v} \union sub[kid]
  <2>1. sub[v] = {v} \union sub[h[v].link[0]] \union sub[h[v].link[1]]
        BY DEF SearchTree
  <2>2. CASE i = 0 BY <2>1, <2>2, <1>1
  <2>3. CASE i = 1 BY <2>1, <2>3, <1>1
  <2> QED BY <2>2, <2>3
<1>3. /\ new \in [K \union {0} -> SUBSET K] /\ new[0] = {} /\ new[v] = {v}
      /\ \A x \in K \union {0} : x # v => new[x] = sub[x] \ {v}
      BY <1>1 DEF Without
<1> HIDE DEF new
<1>4. ASSUME NEW x \in K
      PROVE  /\ IsFiniteSet(new[x])
             /\ \A t \in {0, 1} :
                   /\ g[x].link[t] \in K \union {0}
                   /\ \A j \in new[g[x].link[t]] : IF t = 0 THEN j < x ELSE j > x
             /\ new[x] = {x} \union new[g[x].link[0]] \union new[g[x].link[1]]
  <2>1. IsFiniteSet(new[x])
    <3>1. IsFiniteSet(sub[x]) /\ IsFiniteSet(sub[x] \ {v}) /\ IsFiniteSet({v})
          BY FS_RemoveElement, FS_Singleton DEF SearchTree
    <3> QED BY <1>3, <3>1
  <2>2. CASE x = v
    <3>1. g[x].link[0] = 0 /\ g[x].link[1] = 0
          BY <2>2
    <3> QED BY <1>3, <2>1, <2>2, <3>1
  <2>3. CASE x # v
    <3>1. ASSUME NEW t \in {0, 1}
          PROVE  /\ g[x].link[t] \in K \union {0}
                 /\ new[g[x].link[t]] = sub[h[x].link[t]] \ {v}
      <4>1. h[x].link[t] \in K \union {0}
            BY DEF SearchTree
      <4>2. CASE h[x].link[t] = v
        <5>1. g[x].link[t] = kid BY <2>3, <4>2
        <5>2. kid # v BY <1>1, NodeFacts
        <5>3. new[kid] = sub[kid]
          <6>1. sub[kid] \ {v} = sub[kid] BY <1>1
          <6> QED BY <1>1, <1>3, <5>2, <6>1
        <5> QED BY <1>1, <1>2, <4>2, <5>1, <5>3
      <4>3. CASE h[x].link[t] # v
            BY <1>3, <2>3, <4>1, <4>3
      <4> QED BY <4>2, <4>3
    <3>2. \A t \in {0, 1} : \A j \in sub[h[x].link[t]] : IF t = 0 THEN j < x ELSE j > x
          BY DEF SearchTree
    <3>3. sub[x] = {x} \union sub[h[x].link[0]] \union sub[h[x].link[1]]
          BY DEF SearchTree
    <3>4. new[x] = sub[x] \ {v}
          BY <1>3, <2>3
    <3>5. new[x] = {x} \union new[g[x].link[0]] \union new[g[x].link[1]]
          BY <2>3, <3>1, <3>3, <3>4
    <3> QED BY <2>1, <3>1, <3>2, <3>5
  <2> QED BY <2>2, <2>3
<1>5. SearchTree(K, g, new)
      BY <1>1, <1>3, <1>4 DEF SearchTree
<1> QED BY <1>5 DEF new

\* s, the smallest key on side 1 of v, takes its place.
WithNext(sub, v, s) ==
    [x \in DOMAIN sub |-> CASE x = v -> {v}
                            [] x = s -> sub[v] \ {v}
                            [] x \notin {v, s} /\ v \in sub[x] -> sub[x] \ {v}
                            [] x \notin {v, s} /\ v \notin sub[x] -> sub[x] \ {s}]

LinksNext(K, h, g, v, s) ==
    \A x \in K : \A t \in {0, 1} :
       /\ x = v => g[x].link[t] = 0
       /\ x = s => g[x].link[t] =
             IF h[v].link[t] = s THEN h[s].link[1] ELSE h[v].link[t]
       /\ x \notin {v, s} => g[x].link[t] =
             IF h[x].link[t] = v THEN s
             ELSE IF h[x].link[t] = s THEN h[s].link[1] ELSE h[x].link[t]

LEMMA NextTakesPlace ==
    ASSUME NEW K, NEW h, NEW sub, SearchTree(K, h, sub), NEW v \in K,
           NEW s \in sub[h[v].link[1]], h[s].link[0] = 0,
           \A x \in sub[h[v].link[1]] \ sub[s] : x > s,
           NEW g, LinksNext(K, h, g, v, s)
    PROVE  SearchTree(K, g, WithNext(sub, v, s))
<1> DEFINE new == WithNext(sub, v, s)
           after == h[s].link[1]
           R == sub[h[v].link[1]]
<1> USE DEF LinksNext
<1>1. /\ K \subseteq Nat \ {0} /\ v \in Nat /\ 0 \notin K
      /\ sub \in [K \union {0} -> SUBSET K] /\ sub[0] = {}
      BY NodeFacts DEF SearchTree
<1>2. /\ h[v].link[1] \in K /\ v \notin R /\ R \subseteq sub[v] /\ v \in sub[v]
      /\ s \in K /\ s # v /\ s \in sub[v] /\ R \subseteq K
      BY <1>1, NodeFacts
<1>3. /\ after \in K \union {0} /\ s \in sub[s] /\ sub[s] \subseteq R
      /\ sub[s] = {s} \union sub[after] /\ s \notin sub[after]
      /\ after # s /\ after # v /\ v \notin sub[s] /\ v \notin sub[after]
  <2>1. sub[s] = {s} \union sub[h[s].link[0]] \union sub[after]
        BY <1>2 DEF SearchTree
  <2>2. sub[s] \subseteq R
        BY <1>2, SubTrans
  <2>3. /\ after \in K \union {0} /\ s \notin sub[after] /\ after # s
        /\ after # 0 => after \in sub[after]
        BY <1>2, NodeFacts
  <2> QED BY <1>1, <1>2, <2>1, <2>2, <2>3
<1>4. s \notin sub[h[v].link[0]]
      BY <1>2, OneSide
<1>5. /\ new \in [K \union {0} -> SUBSET K] /\ new[0] = {} /\ new[v] = {v}
      /\ new[s] = sub[v] \ {v}
      /\ \A x \in K \union {0} : x \notin {v, s} =>
            new[x] = IF v \in sub[x] THEN sub[x] \ {v} ELSE sub[x] \ {s}
      BY <1>1, <1>2 DEF WithNext
<1> HIDE DEF new
<1>6. new[after] = sub[after] /\ sub[after] = sub[s] \ {s}
  <2>1. sub[after] \ {s} = sub[after] BY <1>3
  <2>2. new[after] = sub[after] \ {s} BY <1>3, <1>5
  <2>3. sub[after] = sub[s] \ {s} BY <1>3
  <2> QED BY <2>1, <2>2, <2>3
<1>7. ASSUME NEW x \in K
      PROVE  /\ IsFiniteSet(new[x])
             /\ \A t \in {0, 1} :
                   /\ g[x].link[t] \in K \union {0}
                   /\ \A j \in new[g[x].link[t]] : IF t = 0 THEN j < x ELSE j > x
             /\ new[x] = {x} \union new[g[x].link[0]] \union new[g[x].link[1]]
  <2>1. IsFiniteSet(new[x])
    <3>1. /\ IsFiniteSet(sub[x]) /\ IsFiniteSet(sub[x] \ {v}) /\ IsFiniteSet({v})
          /\ IsFiniteSet(sub[x] \ {s}) /\ IsFiniteSet(sub[v] \ {v})
          BY FS_RemoveElement, FS_Singleton DEF SearchTree
    <3> QED BY <1>5, <3>1
  <2>2. CASE x = v
    <3>1. g[x].link[0] = 0 /\ g[x].link[1] = 0
          BY <2>2
    <3> QED BY <1>5, <2>1, <2>2, <3>1
  <2>3. CASE x = s
    <3>1. /\ g[x].link[0] = h[v].link[0]
          /\ g[x].link[1] = IF h[v].link[1] = s THEN after ELSE h[v].link[1]
      <4>1. h[v].link[0] # s
            BY <1>1, <1>2, <1>4, NodeFacts
      <4> QED BY <2>3, <4>1
    <3>2. /\ h[v].link[0] \in K \union {0} /\ h[v].link[0] # v /\ h[v].link[0] # s
          /\ v \notin sub[h[v].link[0]] /\ s \notin sub[h[v].link[0]]
          BY <1>2, <1>4, NodeFacts
    <3>3. new[g[x].link[0]] = sub[h[v].link[0]]
      <4>1. sub[h[v].link[0]] \ {s} = sub[h[v].link[0]] BY <3>2
      <4>2. new[h[v].link[0]] = sub[h[v].link[0]] \ {s} BY <1>5, <3>2
      <4> QED BY <3>1, <4>1, <4>2
    <3>4. g[x].link[1] \in K \union {0} /\ new[g[x].link[1]] = R \ {s}
      <4>1. CASE h[v].link[1] = s
            BY <1>3, <1>6, <3>1, <4>1
      <4>2. CASE h[v].link[1] # s
        <5>1. h[v].link[1] # v BY <1>2, NodeFacts
        <5> QED BY <1>2, <1>5, <3>1, <4>2, <5>1
      <4> QED BY <4>1, <4>2
    <3>5. \A j \in sub[h[v].link[0]] : j < s
      <4>1. v < s BY <1>2 DEF SearchTree
      <4>2. \A j \in sub[h[v].link[0]] : j < v /\ j \in K BY <1>1, <3>2 DEF SearchTree
      <4> QED BY <1>1, <1>2, <4>1, <4>2
    <3>6. \A j \in R \ {s} : j > s
      <4>1. \A j \in sub[after] : j > s BY <1>2 DEF SearchTree
      <4> QED BY <1>3, <4>1
    <3>7. sub[v] = {v} \union sub[h[v].link[0]] \union R
          BY DEF SearchTree
    <3>8. new[x] = {x} \union new[g[x].link[0]] \union new[g[x].link[1]]
      <4>1. new[x] = sub[h[v].link[0]] \union R
            BY <1>2, <1>5, <2>3, <3>2, <3>7
      <4>2. s \in R
            OBVIOUS
      <4> HIDE DEF R
      <4> QED BY <2>3, <3>3, <3>4, <4>1, <4>2
    <3>9. ASSUME NEW t \in {0, 1}, NEW j \in new[g[x].link[t]]
          PROVE  IF t = 0 THEN j < x ELSE j > x
          BY <2>3, <3>3, <3>4, <3>5, <3>6, <3>9
    <3>10. \A t \in {0, 1} : g[x].link[t] \in K \union {0}
          BY <3>1, <3>2, <3>4
    <3> QED BY <2>1, <3>8, <3>9, <3>10
  <2>4. CASE x \notin {v, s}
    <3>1. ASSUME NEW t \in {0, 1}
          PROVE  /\ g[x].link[t] \in K \union {0}
                 /\ new[g[x].link[t]] = IF v \in sub[h[x].link[t]]
                                        THEN sub[h[x].link[t]] \ {v}
                                        ELSE sub[h[x].link[t]] \ {s}
      <4>1. h[x].link[t] \in K \union {0}
            BY DEF SearchTree
      <4>2. CASE h[x].link[t] = v
        <5>1. g[x].link[t] = s BY <2>4, <4>2
        <5> QED BY <1>2, <1>5, <4>2, <5>1
      <4>3. CASE h[x].link[t] = s
        <5>1. g[x].link[t] = after BY <1>2, <2>4, <4>3
        <5>2. v \notin sub[h[x].link[t]] BY <1>3, <4>3
        <5> QED BY <1>3, <1>6, <4>3, <5>1, <5>2
      <4>4. CASE h[x].link[t] \notin {v, s}
        <5>1. g[x].link[t] = h[x].link[t] BY <2>4, <4>4
        <5> QED BY <1>5, <4>1, <4>4, <5>1, ZenonT(40)
      <4> QED BY <4>2, <4>3, <4>4
    <3>2. \A t \in {0, 1} : \A j \in sub[h[x].link[t]] : IF t = 0 THEN j < x ELSE j > x
          BY DEF SearchTree
    <3>3. sub[x] = {x} \union sub[h[x].link[0]] \union sub[h[x].link[1]]
          BY DEF SearchTree
    <3>4. new[x] = IF v \in sub[x] THEN sub[x] \ {v} ELSE sub[x] \ {s}
          BY <1>5, <2>4
    <3>5. ASSUME NEW t \in {0, 1}, v \in sub[h[x].link[t]]
          PROVE  s \notin sub[h[x].link[1 - t]] /\ v \notin sub[h[x].link[1 - t]]
      <4>1. h[x].link[t] \in K BY <3>5, <1>1 DEF SearchTree
      <4>2. s \in sub[h[x].link[t]] BY <1>2, <3>5, <4>1, SubTrans
      <4>3. 1 - t \in {0, 1} /\ 1 - t # t OBVIOUS
      <4> QED BY <3>5, <4>2, <4>3, OneSide
    <3>6. new[x] = {x} \union new[g[x].link[0]] \union new[g[x].link[1]]
      <4>1. CASE v \in sub[h[x].link[0]]
        <5>1. s \notin sub[h[x].link[1]] /\ v \notin sub[h[x].link[1]]
              BY <3>5, <4>1
        <5> QED BY <2>4, <3>1, <3>3, <3>4, <4>1, <5>1
      <4>2. CASE v \in sub[h[x].link[1]]
        <5>1. s \notin sub[h[x].link[0]] /\ v \notin sub[h[x].link[0]]
              BY <3>5, <4>2
        <5> QED BY <2>4, <3>1, <3>3, <3>4, <4>2, <5>1
      <4>3. CASE v \notin sub[h[x].link[0]] /\ v \notin sub[h[x].link[1]]
            BY <2>4, <3>1, <3>3, <3>4, <4>3
      <4> QED BY <4>1, <4>2, <4>3
    <3>7. ASSUME NEW t \in {0, 1}, NEW j \in new[g[x].link[t]]
          PROVE  IF t = 0 THEN j < x ELSE j > x
      <4>1. j \in sub[h[x].link[t]] BY <3>1, <3>7
      <4> QED BY <3>2, <4>1
    <3> QED BY <2>1, <3>1, <3>6, <3>7
  <2> QED BY <2>2, <2>3, <2>4
<1>8. SearchTree(K, g, new)
      BY <1>1, <1>5, <1>7 DEF SearchTree
<1> QED BY <1>8 DEF new
-----------------------------------------------------------------------------
(***************************************************************************)
(* Rotations: child c of r on side s takes its place, and r becomes a      *)
(* child of c.                                                             *)
(***************************************************************************)
\* x is linked from p on side s, if from anywhere.
OnlyLink(K, h, p, s, x) ==
    \A y \in K : \A t \in {0, 1} : h[y].link[t] = x => y = p /\ t = s

LinksTurned(K, h, g, r, s, c) ==
    \A x \in K : \A t \in {0, 1} :
       g[x].link[t] = IF x = r /\ t = s THEN h[c].link[1 - s]
                      ELSE IF x = c /\ t = 1 - s THEN r
                      ELSE IF h[x].link[t] = r THEN c ELSE h[x].link[t]

TurnedSub(sub, h, r, s, c) ==
    [x \in DOMAIN sub |->
       IF x = c THEN sub[r]
       ELSE IF x = r THEN {r} \union sub[h[r].link[1 - s]] \union sub[h[c].link[1 - s]]
       ELSE sub[x]]

LEMMA TurnTree ==
    ASSUME NEW K, NEW h, NEW sub, SearchTree(K, h, sub), NEW r \in K,
           NEW s \in {0, 1}, NEW c \in K, c = h[r].link[s], OnlyLink(K, h, r, s, c),
           NEW g, LinksTurned(K, h, g, r, s, c)
    PROVE  SearchTree(K, g, TurnedSub(sub, h, r, s, c))
<1> DEFINE new == TurnedSub(sub, h, r, s, c)
           inner == h[c].link[1 - s]
           outer == h[c].link[s]
           other == h[r].link[1 - s]
<1>1. /\ K \subseteq Nat \ {0} /\ 0 \notin K /\ r \in Nat /\ c \in Nat /\ c # 0
      /\ sub \in [K \union {0} -> SUBSET K] /\ sub[0] = {}
      /\ 1 - s \in {0, 1} /\ 1 - s # s /\ 1 - (1 - s) = s
      BY DEF SearchTree
<1>2. /\ c # r /\ c \in sub[c] /\ r \notin sub[c] /\ r \notin sub[other] /\ r \in sub[r]
      /\ other \in K \union {0} /\ inner \in K \union {0} /\ outer \in K \union {0}
      /\ c \notin sub[inner] /\ c \notin sub[outer]
      /\ sub[inner] \subseteq sub[c] /\ sub[outer] \subseteq sub[c]
      /\ sub[r] \subseteq K /\ sub[other] \subseteq sub[r] /\ sub[c] \subseteq sub[r]
  <2>1. ASSUME NEW y \in K, NEW t \in {0, 1}
        PROVE  /\ h[y].link[t] \in K \union {0}
               /\ sub[h[y].link[t]] \subseteq sub[y]
               /\ y \notin sub[h[y].link[t]]
               /\ y \in sub[y] /\ sub[y] \subseteq K
               /\ h[y].link[t] # y
        BY NodeFacts
  <2> QED BY <1>1, <2>1
<1>3. /\ inner # r /\ inner # c /\ outer # r /\ outer # c /\ other # r /\ other # c
  <2>1. c \notin sub[other]
        BY <1>1, <1>2, OneSide
  <2>2. \A y \in K : y \in sub[y]
        BY NodeFacts
  <2> QED BY <1>1, <1>2, <2>1, <2>2
<1>4. /\ sub[r] = {r} \union sub[c] \union sub[other]
      /\ sub[c] = {c} \union sub[outer] \union sub[inner]
  <2>1. /\ sub[r] = {r} \union sub[h[r].link[0]] \union sub[h[r].link[1]]
        /\ sub[c] = {c} \union sub[h[c].link[0]] \union sub[h[c].link[1]]
        BY DEF SearchTree
  <2>2. CASE s = 0
    <3>1. 1 - s = 1 BY <2>2
    <3> QED BY <2>1, <2>2, <3>1
  <2>3. CASE s = 1
    <3>1. 1 - s = 0 BY <2>3
    <3> QED BY <2>1, <2>3, <3>1
  <2> QED BY <2>2, <2>3
<1>5. /\ new \in [K \union {0} -> SUBSET K] /\ new[0] = {}
      /\ new[c] = sub[r]
      /\ new[r] = {r} \union sub[other] \union sub[inner]
      /\ \A x \in K \union {0} : x \notin {r, c} => new[x] = sub[x]
      BY <1>1, <1>2 DEF TurnedSub
<1>6. \A x \in K : IsFiniteSet(new[x])
  <2>1. \A y \in K \union {0} : IsFiniteSet(sub[y])
        BY <1>1, FS_EmptySet DEF SearchTree
  <2>2. IsFiniteSet({r} \union sub[other]) /\ IsFiniteSet(new[r])
    <3>1. IsFiniteSet({r}) BY FS_Singleton
    <3>2. IsFiniteSet(sub[other]) /\ IsFiniteSet(sub[inner]) BY <1>2, <2>1
    <3> HIDE DEF new, inner, other
    <3>3. IsFiniteSet({r} \union sub[other]) BY <3>1, <3>2, FS_Union
    <3>4. IsFiniteSet(({r} \union sub[other]) \union sub[inner])
          BY <3>2, <3>3, FS_Union
    <3> QED BY <1>5, <3>3, <3>4
  <2> HIDE DEF new
  <2> QED BY <1>5, <2>1, <2>2
<1>7. \A x \in K : \A t \in {0, 1} :
         h[x].link[t] \in K \union {0}
         /\ \A k \in sub[h[x].link[t]] : IF t = 0 THEN k < x ELSE k > x
      BY DEF SearchTree
<1>8. /\ g[r].link[s] = inner /\ g[r].link[1 - s] = other
      /\ g[c].link[1 - s] = r /\ g[c].link[s] = outer
      BY <1>1, <1>2, <1>3, ZenonT(40) DEF LinksTurned
<1>9. ASSUME NEW x \in K, x \notin {r, c}, NEW t \in {0, 1}
      PROVE  /\ g[x].link[t] \in K \union {0}
             /\ new[g[x].link[t]] = sub[h[x].link[t]]
  <2>1. g[x].link[t] = IF h[x].link[t] = r THEN c ELSE h[x].link[t]
        BY <1>9 DEF LinksTurned
  <2>2. h[x].link[t] # c
        BY <1>9 DEF OnlyLink
  <2> HIDE DEF new
  <2> QED BY <1>5, <1>7, <2>1, <2>2
<1>10. /\ new[inner] = sub[inner] /\ new[other] = sub[other] /\ new[outer] = sub[outer]
  <2> HIDE DEF new, inner, other, outer
  <2> QED BY <1>2, <1>3, <1>5
<1>11. \A t \in {0, 1} : t = s \/ t = 1 - s
       OBVIOUS
<1>12. /\ \A k \in sub[inner] : /\ IF s = 0 THEN k < r ELSE k > r
                                /\ IF 1 - s = 0 THEN k < c ELSE k > c
       /\ \A k \in sub[outer] : IF s = 0 THEN k < c ELSE k > c
       /\ \A k \in sub[other] : IF 1 - s = 0 THEN k < r ELSE k > r
       /\ IF s = 0 THEN c < r ELSE c > r
  <2>1. \A k \in sub[c] : IF s = 0 THEN k < r ELSE k > r
        BY <1>7
  <2> QED BY <1>1, <1>2, <1>7, <2>1
<1> HIDE DEF new, inner, other, outer
<1>13. ASSUME NEW t \in {0, 1}
       PROVE  /\ g[r].link[t] \in K \union {0}
              /\ \A k \in new[g[r].link[t]] : IF t = 0 THEN k < r ELSE k > r
  <2>1. CASE t = s
        BY <1>2, <1>8, <1>10, <1>12, <2>1
  <2>2. CASE t = 1 - s
        BY <1>1, <1>2, <1>8, <1>10, <1>12, <2>2
  <2> QED BY <1>11, <2>1, <2>2
<1>14. ASSUME NEW t \in {0, 1}
       PROVE  /\ g[c].link[t] \in K \union {0}
              /\ \A k \in new[g[c].link[t]] : IF t = 0 THEN k < c ELSE k > c
  <2>1. CASE t = s
        BY <1>2, <1>8, <1>10, <1>12, <2>1
  <2>2. CASE t = 1 - s
    <3>1. \A k \in sub[other] : IF 1 - s = 0 THEN k < c ELSE k > c
      <4>1. sub[other] \subseteq Nat
            BY <1>1, <1>2
      <4>2. CASE s = 0
            BY <1>1, <1>12, <4>1, <4>2
      <4>3. CASE s = 1
            BY <1>1, <1>12, <4>1, <4>3
      <4> QED BY <4>2, <4>3
    <3>2. IF 1 - s = 0 THEN r < c ELSE r > c
          BY <1>1, <1>12
    <3>3. \A k \in new[r] : k = r \/ k \in sub[other] \/ k \in sub[inner]
          BY <1>5
    <3>4. \A k \in new[r] : IF 1 - s = 0 THEN k < c ELSE k > c
          BY <1>12, <3>1, <3>2, <3>3
    <3> QED BY <1>8, <2>2, <3>4
  <2> QED BY <1>11, <2>1, <2>2
<1>15. ASSUME NEW x \in K, x \notin {r, c}, NEW t \in {0, 1}
       PROVE  /\ g[x].link[t] \in K \union {0}
              /\ \A k \in new[g[x].link[t]] : IF t = 0 THEN k < x ELSE k > x
       BY <1>7, <1>9, <1>15
<1>16. s = 0 => 1 - s = 1
       OBVIOUS
<1>17. s = 1 => 1 - s = 0
       OBVIOUS
<1>18. new[r] = {r} \union new[g[r].link[0]] \union new[g[r].link[1]]
  <2>1. CASE s = 0
        BY <1>5, <1>8, <1>10, <1>16, <2>1
  <2>2. CASE s = 1
        BY <1>5, <1>8, <1>10, <1>17, <2>2
  <2> QED BY <2>1, <2>2
<1>19. new[c] = {c} \union new[g[c].link[0]] \union new[g[c].link[1]]
  <2>1. new[c] = {c} \union sub[outer] \union new[r]
        BY <1>4, <1>5
  <2>2. CASE s = 0
    <3>1. g[c].link[0] = outer /\ g[c].link[1] = r
          BY <1>8, <1>16, <2>2
    <3> QED BY <1>10, <2>1, <3>1
  <2>3. CASE s = 1
    <3>1. g[c].link[1] = outer /\ g[c].link[0] = r
          BY <1>8, <1>17, <2>3
    <3> QED BY <1>10, <2>1, <3>1
  <2> QED BY <2>2, <2>3
<1>20. ASSUME NEW x \in K, x \notin {r, c}
       PROVE  new[x] = {x} \union new[g[x].link[0]] \union new[g[x].link[1]]
  <2>1. sub[x] = {x} \union sub[h[x].link[0]] \union sub[h[x].link[1]]
        BY DEF SearchTree
  <2>2. new[x] = sub[x]
        BY <1>5, <1>20
  <2> QED BY <1>9, <1>20, <2>1, <2>2
<1>21. SearchTree(K, g, new)
  <2>1. ASSUME NEW x \in K, NEW t \in {0, 1}
        PROVE  /\ g[x].link[t] \in K \union {0}
               /\ \A k \in new[g[x].link[t]] : IF t = 0 THEN k < x ELSE k > x
        BY <1>13, <1>14, <1>15
  <2>2. ASSUME NEW x \in K
        PROVE  new[x] = {x} \union new[g[x].link[0]] \union new[g[x].link[1]]
        BY <1>18, <1>19, <1>20
  <2> QED BY <1>1, <1>5, <1>6, <2>1, <2>2 DEF SearchTree
<1> QED BY <1>21 DEF new

-----------------------------------------------------------------------------
(***************************************************************************)
(* Trees in pieces: one is hung under a node of another, or cut off.       *)
(***************************************************************************)
LinkSet(K, h, g, t, s, q) ==
    \A x \in K : \A u \in {0, 1} :
       g[x].link[u] = IF x = t /\ u = s THEN q ELSE h[x].link[u]

Grafted(sub, t, q) ==
    [y \in DOMAIN sub |-> IF t \in sub[y] THEN sub[y] \union sub[q] ELSE sub[y]]

\* What is under q can go to a side of t where there is nothing, if it is on the
\* right side of whatever t is under.
LEMMA GraftTree ==
    ASSUME NEW K, NEW h, NEW sub, SearchTree(K, h, sub), NEW t \in K, NEW s \in {0, 1},
           h[t].link[s] = 0, NEW q \in K \union {0},
           \A k \in sub[q] : IF s = 0 THEN k < t ELSE k > t,
           \A y \in K, u \in {0, 1} : t \in sub[h[y].link[u]] =>
              \A k \in sub[q] : IF u = 0 THEN k < y ELSE k > y,
           NEW g, LinkSet(K, h, g, t, s, q)
    PROVE  SearchTree(K, g, Grafted(sub, t, q))
<1> DEFINE new == Grafted(sub, t, q)
<1>1. /\ K \subseteq Nat \ {0} /\ 0 \notin K
      /\ sub \in [K \union {0} -> SUBSET K] /\ sub[0] = {} /\ t \in sub[t]
      BY NodeFacts DEF SearchTree
<1>2. t \notin sub[q]
      BY <1>1
<1>3. /\ new \in [K \union {0} -> SUBSET K] /\ new[0] = {} /\ new[q] = sub[q]
      /\ \A y \in K \union {0} :
            new[y] = IF t \in sub[y] THEN sub[y] \union sub[q] ELSE sub[y]
      BY <1>1, <1>2 DEF Grafted
<1> HIDE DEF new
<1>4. ASSUME NEW y \in K
      PROVE  /\ IsFiniteSet(new[y])
             /\ \A u \in {0, 1} :
                   /\ g[y].link[u] \in K \union {0}
                   /\ \A k \in new[g[y].link[u]] : IF u = 0 THEN k < y ELSE k > y
             /\ new[y] = {y} \union new[g[y].link[0]] \union new[g[y].link[1]]
  <2>1. IsFiniteSet(new[y])
    <3>1. IsFiniteSet(sub[y]) /\ IsFiniteSet(sub[q])
          BY <1>1, FS_EmptySet DEF SearchTree
    <3>2. IsFiniteSet(sub[y] \union sub[q])
          BY <3>1, FS_Union
    <3> QED BY <1>3, <3>1, <3>2
  <2>2. \A u \in {0, 1} :
           /\ h[y].link[u] \in K \union {0}
           /\ \A k \in sub[h[y].link[u]] : IF u = 0 THEN k < y ELSE k > y
        BY DEF SearchTree
  <2>3. sub[y] = {y} \union sub[h[y].link[0]] \union sub[h[y].link[1]]
        BY DEF SearchTree
  <2>4. \A u \in {0, 1} : g[y].link[u] = IF y = t /\ u = s THEN q ELSE h[y].link[u]
        BY DEF LinkSet
  <2>5. \A u \in {0, 1} : g[y].link[u] \in K \union {0}
        BY <2>2, <2>4
  <2>6. ASSUME NEW u \in {0, 1}, NEW k \in new[g[y].link[u]]
        PROVE  IF u = 0 THEN k < y ELSE k > y
    <3>1. CASE y = t /\ u = s
      <4>1. k \in sub[q] BY <1>3, <2>4, <2>6, <3>1
      <4> QED BY <3>1, <4>1
    <3>2. CASE ~(y = t /\ u = s)
      <4>1. g[y].link[u] = h[y].link[u] BY <2>4, <3>2
      <4>2. k \in sub[h[y].link[u]] \/ (k \in sub[q] /\ t \in sub[h[y].link[u]])
            BY <1>3, <2>2, <2>6, <4>1
      <4> QED BY <2>2, <4>2
    <3> QED BY <3>1, <3>2
  <2>7. new[y] = {y} \union new[g[y].link[0]] \union new[g[y].link[1]]
    <3>1. CASE y = t
      <4>1. t \notin sub[h[t].link[0]] /\ t \notin sub[h[t].link[1]]
            BY NodeFacts
      <4>2. new[y] = sub[y] \union sub[q]
            BY <1>1, <1>3, <3>1
      <4>3. ASSUME NEW u \in {0, 1}, u # s PROVE new[g[y].link[u]] = sub[h[y].link[u]]
        <5>1. g[y].link[u] = h[y].link[u] /\ h[y].link[u] \in K \union {0}
              BY <2>2, <2>4, <4>3
        <5>2. t \notin sub[h[y].link[u]]
              BY <3>1, <4>1
        <5> QED BY <1>3, <5>1, <5>2
      <4>4. new[g[y].link[s]] = sub[q] /\ sub[h[y].link[s]] = {}
            BY <1>1, <1>3, <2>4, <3>1
      <4>5. CASE s = 0
            BY <2>3, <4>2, <4>3, <4>4, <4>5
      <4>6. CASE s = 1
            BY <2>3, <4>2, <4>3, <4>4, <4>6
      <4> QED BY <4>5, <4>6
    <3>2. CASE y # t
      <4>1. \A u \in {0, 1} : g[y].link[u] = h[y].link[u]
            BY <2>4, <3>2
      <4>2. \A u \in {0, 1} : new[g[y].link[u]] =
               IF t \in sub[h[y].link[u]] THEN sub[h[y].link[u]] \union sub[q]
                                          ELSE sub[h[y].link[u]]
        <5> TAKE u \in {0, 1}
        <5>1. g[y].link[u] = h[y].link[u] /\ h[y].link[u] \in K \union {0}
              BY <2>2, <4>1
        <5> QED BY <1>3, <5>1
      <4>3. t \in sub[y] <=> t \in sub[h[y].link[0]] \/ t \in sub[h[y].link[1]]
            BY <2>3, <3>2
      <4>4. new[y] = IF t \in sub[y] THEN sub[y] \union sub[q] ELSE sub[y]
            BY <1>3
      <4> QED BY <2>3, <4>2, <4>3, <4>4
    <3> QED BY <3>1, <3>2
  <2> QED BY <2>1, <2>5, <2>6, <2>7
<1> QED BY <1>1, <1>3, <1>4 DEF SearchTree, new

Pruned(sub, h, x, s) ==
    [y \in DOMAIN sub |-> IF y = x THEN {x} \union sub[h[x].link[1 - s]] ELSE sub[y]]

\* The root of a tree loses what is on one side of it.
LEMMA PruneTree ==
    ASSUME NEW K, NEW h, NEW sub, SearchTree(K, h, sub), NEW x \in K, NEW s \in {0, 1},
           \A y \in K, u \in {0, 1} : h[y].link[u] # x,
           NEW g, LinkSet(K, h, g, x, s, 0)
    PROVE  SearchTree(K, g, Pruned(sub, h, x, s))
<1> DEFINE new == Pruned(sub, h, x, s)
<1>1. /\ K \subseteq Nat \ {0} /\ 0 \notin K
      /\ sub \in [K \union {0} -> SUBSET K] /\ sub[0] = {}
      /\ 1 - s \in {0, 1}
      BY NodeFacts DEF SearchTree
<1>2. /\ h[x].link[1 - s] \in K \union {0} /\ sub[h[x].link[1 - s]] \subseteq sub[x]
      /\ x \in sub[x] /\ sub[x] \subseteq K
      BY <1>1, NodeFacts
<1>3. /\ new \in [K \union {0} -> SUBSET K] /\ new[0] = {}
      /\ new[x] = {x} \union sub[h[x].link[1 - s]]
      /\ \A y \in K \union {0} : y # x => new[y] = sub[y]
      BY <1>1, <1>2 DEF Pruned
<1> HIDE DEF new
<1>4. ASSUME NEW y \in K
      PROVE  /\ IsFiniteSet(new[y])
             /\ \A u \in {0, 1} :
                   /\ g[y].link[u] \in K \union {0}
                   /\ \A k \in new[g[y].link[u]] : IF u = 0 THEN k < y ELSE k > y
             /\ new[y] = {y} \union new[g[y].link[0]] \union new[g[y].link[1]]
  <2>1. IsFiniteSet(new[y])
    <3>1. IsFiniteSet(sub[y]) /\ IsFiniteSet({x}) /\ IsFiniteSet(sub[h[x].link[1 - s]])
          BY <1>1, <1>2, FS_EmptySet, FS_Singleton DEF SearchTree
    <3>2. IsFiniteSet({x} \union sub[h[x].link[1 - s]])
          BY <3>1, FS_Union
    <3> QED BY <1>3, <3>1, <3>2
  <2>2. \A u \in {0, 1} :
           /\ h[y].link[u] \in K \union {0} /\ h[y].link[u] # x
           /\ \A k \in sub[h[y].link[u]] : IF u = 0 THEN k < y ELSE k > y
        BY DEF SearchTree
  <2>3. sub[y] = {y} \union sub[h[y].link[0]] \union sub[h[y].link[1]]
        BY DEF SearchTree
  <2>4. \A u \in {0, 1} :
           /\ g[y].link[u] = IF y = x /\ u = s THEN 0 ELSE h[y].link[u]
           /\ g[y].link[u] \in K \union {0} /\ g[y].link[u] # x
        BY <1>1, <2>2 DEF LinkSet
  <2>5. \A u \in {0, 1} : new[g[y].link[u]] =
           IF y = x /\ u = s THEN {} ELSE sub[h[y].link[u]]
        BY <1>1, <1>3, <2>2, <2>4
  <2>6. new[y] = {y} \union new[g[y].link[0]] \union new[g[y].link[1]]
    <3>1. CASE y # x
          BY <1>3, <2>3, <2>5, <3>1
    <3>2. CASE y = x /\ s = 0
          BY <1>3, <2>5, <3>2
    <3>3. CASE y = x /\ s = 1
          BY <1>3, <2>5, <3>3
    <3> QED BY <3>1, <3>2, <3>3
  <2> QED BY <2>1, <2>2, <2>4, <2>5, <2>6
<1> QED BY <1>1, <1>3, <1>4 DEF SearchTree, new

\* R are the roots of the trees (or 0, for none), and a node in none of them has
\* no links.
Forest(K, h, sub, R) ==
    /\ R \subseteq K \union {0}
    /\ \A p, q \in R : p # q => sub[p] \intersect sub[q] = {}
    /\ \A x \in K : (\A p \in R : x \notin sub[p]) => \A t \in {0, 1} : h[x].link[t] = 0

\* What is over a node of a tree is in the same tree,
LEMMA ForestUnder ==
    ASSUME NEW K, NEW h, NEW sub, SearchTree(K, h, sub), NEW R, Forest(K, h, sub, R),
           NEW p \in R, NEW y \in K, NEW k \in sub[y], k \in sub[p]
    PROVE  y \in sub[p]
<1>1. CASE \A q \in R : y \notin sub[q]
  <2>1. h[y].link[0] = 0 /\ h[y].link[1] = 0
        BY <1>1 DEF Forest
  <2>2. sub[y] = {y} \union sub[h[y].link[0]] \union sub[h[y].link[1]] /\ sub[0] = {}
        BY DEF SearchTree
  <2> QED BY <2>1, <2>2
<1>2. ASSUME NEW q \in R, y \in sub[q] PROVE y \in sub[p]
  <2>1. q \in K
        BY <1>2 DEF Forest, SearchTree
  <2>2. sub[y] \subseteq sub[q]
        BY <1>2, <2>1, SubTrans
  <2>3. p = q
        BY <2>2 DEF Forest
  <2> QED BY <1>2, <2>3
<1> QED BY <1>1, <1>2

\* and nothing is over a root, or a node that is in no tree.
LEMMA ForestTop ==
    ASSUME NEW K, NEW h, NEW sub, SearchTree(K, h, sub), NEW R, Forest(K, h, sub, R),
           NEW x \in K, x \in R \/ \A q \in R : x \notin sub[q],
           NEW y \in K, x \in sub[y]
    PROVE  y = x
<1>1. CASE x \in R
  <2>1. x \in sub[x] BY NodeFacts
  <2>2. y \in sub[x] BY <1>1, <2>1, ForestUnder
  <2> SUFFICES ASSUME y # x PROVE FALSE
      OBVIOUS
  <2>3. PICK s \in {0, 1} : y \in sub[h[x].link[s]]
        BY <2>2, NodeFacts
  <2>4. h[x].link[s] \in K /\ x \notin sub[h[x].link[s]]
        BY <2>3, NodeFacts
  <2>5. sub[y] \subseteq sub[h[x].link[s]]
        BY <2>3, <2>4, SubTrans
  <2> QED BY <2>4, <2>5
<1>2. CASE \A q \in R : x \notin sub[q]
  <2>1. \A q \in R : y \notin sub[q]
    <3> SUFFICES ASSUME NEW q \in R, y \in sub[q] PROVE FALSE
        OBVIOUS
    <3>1. q \in K BY DEF Forest, SearchTree
    <3>2. sub[y] \subseteq sub[q] BY <3>1, SubTrans
    <3> QED BY <1>2, <3>2
  <2>2. h[y].link[0] = 0 /\ h[y].link[1] = 0
        BY <2>1 DEF Forest
  <2>3. sub[y] = {y} \union sub[h[y].link[0]] \union sub[h[y].link[1]] /\ sub[0] = {}
        BY DEF SearchTree
  <2> QED BY <2>2, <2>3
<1> QED BY <1>1, <1>2

\* No two links lead to the same node.
LEMMA ForestLink ==
    ASSUME NEW K, NEW h, NEW sub, SearchTree(K, h, sub), NEW R, Forest(K, h, sub, R),
           NEW y \in K, NEW z \in K, NEW s \in {0, 1}, NEW t \in {0, 1},
           h[y].link[s] # 0, h[y].link[s] = h[z].link[t]
    PROVE  y = z /\ s = t
<1>1. PICK p \in R : y \in sub[p]
      BY DEF Forest
<1>2. p \in K
      BY <1>1 DEF Forest, SearchTree
<1>3. h[y].link[s] \in sub[y] /\ h[y].link[s] \in sub[z] /\ sub[y] \subseteq sub[p]
  <2>1. h[y].link[s] \in sub[y] /\ h[z].link[t] \in sub[z] BY NodeFacts
  <2>2. sub[y] \subseteq sub[p] BY <1>1, <1>2, SubTrans
  <2> QED BY <2>1, <2>2
<1>4. z \in sub[p]
      BY <1>3, ForestUnder
<1> QED BY <1>1, <1>2, <1>4, OneParent
=============================================================================
