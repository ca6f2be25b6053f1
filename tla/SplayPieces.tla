----------------------------- MODULE SplayPieces -----------------------------
(***************************************************************************)
(* Lemmas about top_down_splay(), for every set of keys and every size of  *)
(* the nodes: the pieces it takes a tree apart into, and how they are put  *)
(* together with no key lost.                                              *)
(***************************************************************************)
EXTENDS SplayProps, Linked

SplayNode == [link : [{0, 1} -> Keys \union {0}], up : Keys \union {0}, max : Nat]

\* A splay is at work: the tree is in pieces that hang under head.
Apart(o) == o.pc \in {"splay", "assemble"}

AtCaller(o) == o.pc \in {"idle", "start", "done"}

\* A link that still leads to a node the tree of x has given away: that of the
\* last node hung under a tree of head, and the left one of a victim.
CutAt(o, x, t) ==
    \/ Apart(o) /\ x = o.tmax[t]
    \/ x = o.victim /\ t = 0

\* The nodes without these links.
Cut(o, h) ==
    [x \in Keys |-> [link |-> [t \in {0, 1} |->
                                 IF CutAt(o, x, t) THEN 0 ELSE h[x].link[t]]]]

\* The trees of head: 1 that of the smaller keys, 0 that of the greater ones.
Hung(h, s) == h[-1].link[s]

Before(s, a, b) == IF s = 1 THEN a < b ELSE a > b

All(o, h, r, sub) ==
    IF AtCaller(o) THEN sub[r]
    ELSE sub[o.cur] \union sub[o.victim] \union sub[Hung(h, 0)] \union sub[Hung(h, 1)]

SplayOp(o, r) ==
    /\ o \in [pc : {"idle", "start", "splay", "assemble", "climb", "splayed", "done"},
              call : {"none", "insert", "remove", "lookup"},
              key : Keys \union {0}, cur : Keys \union {0},
              tmax : [{0, 1} -> Keys \union {0, -1}],
              victim : Keys \union {0}, ret : {"none", "yes", "no"}]
    /\ r \in Keys \union {0}
    /\ o.pc = "idle" <=> o.call = "none"
    /\ o.pc = "idle" <=> o.key = 0
    /\ o.pc = "done" <=> o.ret # "none"
    /\ AtCaller(o) <=> o.cur = 0
    /\ o.victim # 0 => o.victim = o.key /\ o.call = "remove" /\ ~AtCaller(o)
    /\ \A s \in {0, 1} : /\ Apart(o) => o.tmax[s] # 0
                         /\ ~Apart(o) /\ o.pc # "climb" => o.tmax[s] = -1

SplayHeap(o, h) ==
    /\ h \in [Keys \union {-1} -> SplayNode]
    /\ ~Apart(o) => h[-1] = NewNode

\* Where the pieces are: the root the caller has is in one, what is in none is
\* linked nowhere, all of a tree of head is on the same side of the key and of
\* what is still to be looked at, and its last node is at its end.
Pieces(o, h, r, sub) ==
    /\ SearchTree(Keys, Cut(o, h), sub)
    /\ ~AtCaller(o) => r \in All(o, h, r, sub)
    /\ \A x \in Keys \ All(o, h, r, sub) : h[x] = NewNode
    /\ o.victim # 0 =>
          \A a \in sub[o.cur] \union sub[Hung(h, 0)] \union sub[Hung(h, 1)] : a < o.victim

Sides(o, h, sub) ==
    Apart(o) =>
      \A s \in {0, 1} :
         /\ \A a \in sub[Hung(h, s)] :
               /\ Before(s, a, o.key)
               /\ \A c \in sub[o.cur] : Before(s, a, c)
         /\ o.tmax[s] = -1 <=> Hung(h, s) = 0
         /\ Hung(h, s) # 0 =>
               /\ o.tmax[s] \in sub[Hung(h, s)]
               /\ \A a \in sub[Hung(h, s)] \ {o.tmax[s]} : Before(s, a, o.tmax[s])

\* Where the links that are cut lead.  What is still to be looked at has for its
\* parent the node hung last, or the victim.
Stale(o, h, sub) ==
    /\ Apart(o) =>
          \/ /\ \A s \in {0, 1} : o.tmax[s] = -1
             /\ h[o.cur].up = o.victim
             /\ o.victim # 0 => h[o.victim].link[0] = o.cur
          \/ \E s \in {0, 1} :
                /\ o.tmax[s] # -1
                /\ h[o.cur].up = o.tmax[s]
                /\ h[o.tmax[s]].link[s] = o.cur
                /\ o.tmax[1 - s] # -1 =>
                      h[o.tmax[1 - s]].link[1 - s] \in sub[Hung(h, s)]
                /\ o.victim # 0 => h[o.victim].link[0] = Hung(h, 1)
    /\ ~Apart(o) /\ o.victim # 0 => h[o.victim].link[0] \in sub[o.cur]

\* The key has been found, or the place where it would be.
Settled(o, h, sub) ==
    /\ o.pc = "assemble" =>
          \/ o.key = o.cur
          \/ h[o.cur].link[IF o.key < o.cur THEN 0 ELSE 1] = 0
    /\ o.pc \in {"climb", "splayed"} =>
          \A y \in sub[o.cur] \ {o.cur} : y # o.key /\ (y < o.key <=> y < o.cur)

Ups(o, h, r) ==
    /\ \A x \in Keys, t \in {0, 1} :
          h[x].link[t] # 0 /\ ~CutAt(o, x, t) => h[h[x].link[t]].up = x
    /\ AtCaller(o) /\ r # 0 => h[r].up = 0
    /\ o.pc \in {"climb", "splayed"} => h[o.cur].up = 0

\* m is the greatest size of the keys in S.
IsMax(m, S) ==
    /\ \E k \in S : Size[k] = m
    /\ \A k \in S : Size[k] <= m

\* max_size is right but above the ends of the climbs, and in the victim.
Sizes(o, h, r, sub) ==
    /\ \A y \in All(o, h, r, sub) :
          \/ y = o.victim
          \/ \E s \in {0, 1} : o.tmax[s] \in sub[y]
          \/ IsMax(h[y].max, sub[y])
    /\ o.pc = "climb" => \A s \in {0, 1} : o.tmax[s] \in Keys => o.tmax[s] \in sub[o.cur]

SplayTree(o, h, r, sub) ==
    /\ SplayOp(o, r)
    /\ SplayHeap(o, h)
    /\ Pieces(o, h, r, sub)
    /\ Sides(o, h, sub)
    /\ Stale(o, h, sub)
    /\ Settled(o, h, sub)
    /\ Ups(o, h, r)
    /\ Sizes(o, h, r, sub)

SplayInv == \E sub : SplayTree(op, node, root, sub)

-----------------------------------------------------------------------------
(***************************************************************************)
(* What the parts of the invariant say together.                           *)
(***************************************************************************)
LEMMA SplayKeysFacts ==
    /\ Keys \subseteq Nat \ {0} /\ 0 \notin Keys /\ -1 \notin Keys
    /\ Size \in [Keys -> Nat]
  BY KeysAssumption DEF NULL

LEMMA SplayNewNodeIs ==
    /\ NewNode \in SplayNode
    /\ NewNode.up = 0
    /\ \A t \in {0, 1} : NewNode.link[t] = 0
  BY DEF NewNode, SplayNode, NULL, Side

\* A node that is linked nowhere and says so is a new one.
LEMMA SplayBlank ==
    ASSUME NEW n \in SplayNode, n.up = 0, \A t \in {0, 1} : n.link[t] = 0, n.max = 0
    PROVE  n = NewNode
<1>1. n.link = [t \in {0, 1} |-> n.link[t]]
      BY DEF SplayNode
<1>2. n.link = [t \in {0, 1} |-> 0]
      BY <1>1
<1>3. n = [link |-> n.link, up |-> n.up, max |-> n.max]
      BY DEF SplayNode
<1> QED BY <1>2, <1>3 DEF NewNode, NULL, Side

LEMMA CutIs ==
    \A o, h : \A x \in Keys, t \in {0, 1} :
       Cut(o, h)[x].link[t] = IF CutAt(o, x, t) THEN 0 ELSE h[x].link[t]
  BY DEF Cut

LEMMA NodeTypes ==
    ASSUME NEW o, NEW h, SplayHeap(o, h), NEW x \in Keys \union {-1}
    PROVE  /\ h[x] \in SplayNode
           /\ h[x].up \in Keys \union {0} /\ h[x].max \in Nat
           /\ \A t \in {0, 1} : h[x].link[t] \in Keys \union {0}
           /\ \A t \in {0, 1} : Hung(h, t) \in Keys \union {0}
  BY DEF SplayHeap, SplayNode, Hung

\* What is in which tree.
LEMMA Trees ==
    ASSUME NEW o, NEW h, NEW r, NEW sub,
           SplayOp(o, r), SplayHeap(o, h), Pieces(o, h, r, sub)
    PROVE  /\ SearchTree(Keys, Cut(o, h), sub)
           /\ sub \in [Keys \union {0} -> SUBSET Keys] /\ sub[0] = {}
           /\ \A y \in Keys : y \in sub[y]
           /\ \A y \in Keys : \A k \in sub[y] : sub[k] \subseteq sub[y]
           /\ o.victim \in Keys \union {0} /\ r \in Keys \union {0}
           /\ ~AtCaller(o) => o.cur \in Keys /\ o.key \in Keys
           /\ AtCaller(o) => o.cur = 0 /\ o.victim = 0
           /\ \A s \in {0, 1} : /\ Hung(h, s) \in Keys \union {0}
                                /\ o.tmax[s] \in Keys \union {0, -1}
                                /\ ~Apart(o) => Hung(h, s) = 0
                                /\ AtCaller(o) => o.tmax[s] = -1
           /\ All(o, h, r, sub) \subseteq Keys
<1>1. SearchTree(Keys, Cut(o, h), sub)
      BY DEF Pieces
<1>2. /\ \A y \in Keys : y \in sub[y]
      /\ \A y \in Keys : \A k \in sub[y] : sub[k] \subseteq sub[y]
      BY <1>1, NodeFacts, SubTrans
<1>3. sub \in [Keys \union {0} -> SUBSET Keys] /\ sub[0] = {}
      BY <1>1 DEF SearchTree
<1>4. /\ o.victim \in Keys \union {0} /\ r \in Keys \union {0}
      /\ ~AtCaller(o) => o.cur \in Keys /\ o.key \in Keys
      /\ AtCaller(o) => o.cur = 0 /\ o.victim = 0
      BY DEF SplayOp, AtCaller
<1>5. \A s \in {0, 1} : /\ Hung(h, s) \in Keys \union {0}
                        /\ o.tmax[s] \in Keys \union {0, -1}
                        /\ ~Apart(o) => Hung(h, s) = 0
                        /\ AtCaller(o) => o.tmax[s] = -1
  <2> TAKE s \in {0, 1}
  <2>1. Hung(h, s) \in Keys \union {0} BY NodeTypes
  <2>2. o.tmax[s] \in Keys \union {0, -1} BY DEF SplayOp
  <2>3. ~Apart(o) => Hung(h, s) = 0 BY SplayNewNodeIs DEF SplayHeap, Hung
  <2>4. AtCaller(o) => o.tmax[s] = -1 BY DEF SplayOp, AtCaller, Apart
  <2> QED BY <2>1, <2>2, <2>3, <2>4
<1>6. All(o, h, r, sub) \subseteq Keys
      BY <1>3, <1>4, <1>5 DEF All
<1> QED BY <1>1, <1>2, <1>3, <1>4, <1>5, <1>6

Roots(o, h, r) ==
    IF AtCaller(o) THEN {r} ELSE {o.cur, o.victim, Hung(h, 0), Hung(h, 1)}

LEMMA RootsAll ==
    ASSUME NEW o, NEW h, NEW r, NEW sub
    PROVE  \A x : x \in All(o, h, r, sub) <=> \E p \in Roots(o, h, r) : x \in sub[p]
  BY DEF All, Roots

\* The pieces of the tree have no key in common.
LEMMA IsForest ==
    ASSUME NEW o, NEW h, NEW r, NEW sub,
           SplayOp(o, r), SplayHeap(o, h), Pieces(o, h, r, sub), Sides(o, h, sub)
    PROVE  Forest(Keys, Cut(o, h), sub, Roots(o, h, r))
<1>1. /\ sub \in [Keys \union {0} -> SUBSET Keys] /\ sub[0] = {}
      /\ o.victim \in Keys \union {0} /\ r \in Keys \union {0}
      /\ ~AtCaller(o) => o.cur \in Keys /\ o.key \in Keys
      /\ \A s \in {0, 1} : /\ Hung(h, s) \in Keys \union {0}
                           /\ ~Apart(o) => Hung(h, s) = 0
      /\ SearchTree(Keys, Cut(o, h), sub)
      BY Trees
<1>2. Roots(o, h, r) \subseteq Keys \union {0}
      BY <1>1 DEF Roots
<1>3. ASSUME NEW x \in Keys, \A p \in Roots(o, h, r) : x \notin sub[p], NEW t \in {0, 1}
      PROVE  Cut(o, h)[x].link[t] = 0
  <2>1. x \notin All(o, h, r, sub)
        BY <1>3, RootsAll
  <2>2. h[x].link[t] = 0
        BY <2>1, SplayNewNodeIs DEF Pieces
  <2> QED BY <2>2, CutIs
<1>4. ASSUME NEW p \in Roots(o, h, r), NEW q \in Roots(o, h, r), p # q,
             NEW k \in sub[p], k \in sub[q]
      PROVE  FALSE
  <2>1. ~AtCaller(o) /\ k \in Nat
        BY <1>1, <1>2, <1>4, SplayKeysFacts DEF Roots
  <2>2. ASSUME NEW a \in sub[o.victim] PROVE a >= o.victim
    <3>1. o.victim \in Keys BY <1>1, <2>2
    <3>2. Cut(o, h)[o.victim].link[0] = 0
          BY <3>1, CutIs, Zenon DEF CutAt
    <3>3. /\ sub[o.victim] = {o.victim} \union sub[Cut(o, h)[o.victim].link[0]]
                                        \union sub[Cut(o, h)[o.victim].link[1]]
          /\ \A u \in {0, 1} : \A j \in sub[Cut(o, h)[o.victim].link[u]] :
                IF u = 0 THEN j < o.victim ELSE j > o.victim
          BY <1>1, <3>1, Zenon DEF SearchTree
    <3>4. a = o.victim \/ a \in sub[Cut(o, h)[o.victim].link[1]]
          BY <1>1, <3>2, <3>3, Zenon
    <3>5. a > o.victim \/ a = o.victim BY <3>3, <3>4
    <3>6. a \in Nat /\ o.victim \in Nat BY <1>1, <2>2, <3>1, SplayKeysFacts
    <3> QED BY <3>5, <3>6
  <2>3. o.victim # 0 =>
           \A a \in sub[o.cur] \union sub[Hung(h, 0)] \union sub[Hung(h, 1)] : a < o.victim
        BY DEF Pieces
  <2>4. k \in sub[o.victim] =>
           k \notin sub[o.cur] \union sub[Hung(h, 0)] \union sub[Hung(h, 1)]
    <3> SUFFICES ASSUME k \in sub[o.victim], 
                        k \in sub[o.cur] \union sub[Hung(h, 0)] \union sub[Hung(h, 1)]
                 PROVE  FALSE
        OBVIOUS
    <3>1. o.victim \in Nat /\ o.victim # 0 BY <1>1, SplayKeysFacts
    <3> QED BY <2>1, <2>2, <2>3, <3>1
  <2>5. ASSUME NEW s \in {0, 1}, k \in sub[Hung(h, s)]
        PROVE  k \notin sub[o.cur] /\ Before(s, k, o.key)
    <3>1. Apart(o) BY <1>1, <2>5
    <3>2. Before(s, k, o.key) /\ \A c \in sub[o.cur] : Before(s, k, c)
          BY <2>5, <3>1 DEF Sides
    <3> QED BY <2>1, <3>2 DEF Before
  <2>6. ~(k \in sub[Hung(h, 0)] /\ k \in sub[Hung(h, 1)])
    <3> SUFFICES ASSUME k \in sub[Hung(h, 0)], k \in sub[Hung(h, 1)] PROVE FALSE
        OBVIOUS
    <3>1. Before(0, k, o.key) /\ Before(1, k, o.key) BY <2>5
    <3>2. k \in Nat /\ o.key \in Nat BY <1>1, <2>1, SplayKeysFacts
    <3> QED BY <3>1, <3>2 DEF Before
  <2> QED BY <1>4, <2>1, <2>4, <2>5, <2>6 DEF Roots
<1> QED BY <1>2, <1>3, <1>4 DEF Forest

\* Nothing is over a root, and over its keys only its own.
LEMMA Tops ==
    ASSUME NEW o, NEW h, NEW r, NEW sub, SplayOp(o, r), SplayHeap(o, h),
           Pieces(o, h, r, sub), Sides(o, h, sub), NEW x \in Keys,
           x \in Roots(o, h, r) \/ x \notin All(o, h, r, sub)
    PROVE  /\ \A y \in Keys : x \in sub[y] => y = x
           /\ \A y \in Keys, t \in {0, 1} : Cut(o, h)[y].link[t] # x
<1>1. /\ SearchTree(Keys, Cut(o, h), sub)
      /\ Forest(Keys, Cut(o, h), sub, Roots(o, h, r))
      BY IsForest DEF Pieces
<1>2. x \in Roots(o, h, r) \/ \A q \in Roots(o, h, r) : x \notin sub[q]
      BY RootsAll
<1>3. \A y \in Keys : x \in sub[y] => y = x
      BY <1>1, <1>2, ForestTop
<1>4. \A y \in Keys, t \in {0, 1} : Cut(o, h)[y].link[t] # x
  <2>1. \A y \in Keys, t \in {0, 1} : Cut(o, h)[y].link[t] = x => x \in sub[y] /\ x # y
        BY <1>1, NodeFacts
  <2> QED BY <1>3, <2>1
<1> QED BY <1>3, <1>4

LEMMA Apiece ==
    ASSUME NEW o, NEW h, NEW r, NEW sub, SplayOp(o, r), SplayHeap(o, h),
           Pieces(o, h, r, sub), Sides(o, h, sub), NEW p \in Roots(o, h, r)
    PROVE  /\ \A y \in Keys, k \in sub[p] : k \in sub[y] => y \in sub[p]
           /\ \A q \in Roots(o, h, r), k \in sub[p] : k \in sub[q] => p = q
<1>1. /\ SearchTree(Keys, Cut(o, h), sub)
      /\ Forest(Keys, Cut(o, h), sub, Roots(o, h, r))
      BY IsForest DEF Pieces
<1> QED BY <1>1, ForestUnder DEF Forest

-----------------------------------------------------------------------------
(***************************************************************************)
(* One field of one node, and what is computed of max_size.                *)
(***************************************************************************)
\* The nodes, head among them, with parents of U.
Heaps(U) ==
    [Keys \union {-1} -> [link : [{0, 1} -> Keys \union {0}], up : U, max : Nat]]

LinkPut(h, g, x, t, v) ==
    \A y \in Keys \union {-1} :
       /\ g[y].up = h[y].up /\ g[y].max = h[y].max
       /\ \A u \in {0, 1} : g[y].link[u] = IF y = x /\ u = t THEN v ELSE h[y].link[u]

UpPut(h, g, x, p) ==
    \A y \in Keys \union {-1} :
       /\ g[y].link = h[y].link /\ g[y].max = h[y].max
       /\ g[y].up = IF y = x THEN p ELSE h[y].up

MaxPut(h, g, x, m) ==
    \A y \in Keys \union {-1} :
       /\ g[y].link = h[y].link /\ g[y].up = h[y].up
       /\ g[y].max = IF y = x THEN m ELSE h[y].max

LEMMA HeapsAre == \A o, h : SplayHeap(o, h) => h \in Heaps(Keys \union {0})
  BY DEF SplayHeap, Heaps, SplayNode

LEMMA HeapTypes ==
    ASSUME NEW U, NEW h \in Heaps(U), NEW x \in Keys \union {-1}
    PROVE  /\ h[x].up \in U /\ h[x].max \in Nat
           /\ \A t \in {0, 1} : h[x].link[t] \in Keys \union {0}
  BY DEF Heaps

LEMMA PutLink ==
    ASSUME NEW U, NEW h \in Heaps(U), NEW x \in Keys \union {-1}, NEW t \in {0, 1},
           NEW v \in Keys \union {0}
    PROVE  /\ [h EXCEPT ![x].link[t] = v] \in Heaps(U)
           /\ LinkPut(h, [h EXCEPT ![x].link[t] = v], x, t, v)
  BY DEF Heaps, LinkPut

LEMMA PutUp ==
    ASSUME NEW U, NEW h \in Heaps(U), NEW x \in Keys \union {-1}, NEW p \in U
    PROVE  /\ [h EXCEPT ![x].up = p] \in Heaps(U)
           /\ UpPut(h, [h EXCEPT ![x].up = p], x, p)
  BY DEF Heaps, UpPut

LEMMA PutMax ==
    ASSUME NEW U, NEW h \in Heaps(U), NEW x \in Keys \union {-1}, NEW m \in Nat
    PROVE  /\ [h EXCEPT ![x].max = m] \in Heaps(U)
           /\ MaxPut(h, [h EXCEPT ![x].max = m], x, m)
  BY DEF Heaps, MaxPut

LEMMA SetParentIs ==
    ASSUME NEW U, NEW h \in Heaps(U), NEW x \in Keys \union {0}, NEW p \in U
    PROVE  /\ set_parent(h, x, p) \in Heaps(U)
           /\ UpPut(h, set_parent(h, x, p), x, p)
<1>1. CASE x = 0
  <2>1. set_parent(h, x, p) = h
        BY <1>1 DEF set_parent, NULL
  <2>2. x \notin Keys \union {-1}
        BY <1>1, SplayKeysFacts
  <2> QED BY <2>1, <2>2, Zenon DEF UpPut
<1>2. CASE x # 0
  <2>1. set_parent(h, x, p) = [h EXCEPT ![x].up = p]
        BY <1>2 DEF set_parent, NULL
  <2>2. x \in Keys \union {-1}
        BY <1>2
  <2>3. /\ [h EXCEPT ![x].up = p] \in Heaps(U)
        /\ UpPut(h, [h EXCEPT ![x].up = p], x, p)
        BY <2>2, PutUp
  <2> QED BY <2>1, <2>3, Zenon
<1> QED BY <1>1, <1>2

LEMMA MaxOfThree ==
    ASSUME NEW a \in Nat, NEW b \in Nat, NEW c \in Nat
    PROVE  /\ Max({a, b, c}) \in {a, b, c}
           /\ \A n \in {a, b, c} : Max({a, b, c}) >= n
<1> DEFINE P(m) == m \in {a, b, c} /\ \A n \in {a, b, c} : m >= n
<1>1. \E m : P(m)
  <2>1. P(a) \/ P(b) \/ P(c)
        OBVIOUS
  <2> QED BY <2>1
<1>2. P(CHOOSE m : P(m))
  <2> HIDE DEF P
  <2> QED BY <1>1
<1>3. Max({a, b, c}) = CHOOSE m : P(m)
      BY DEF Max
<1> QED BY <1>2, <1>3

\* x says what its children and itself make of it.
Computed(h, g, x) ==
    /\ g[x].max >= Size[x]
    /\ \A t \in {0, 1} : g[x].max >= MaxOf(h, h[x].link[t])
    /\ g[x].max = Size[x] \/ \E t \in {0, 1} : g[x].max = MaxOf(h, h[x].link[t])

LEMMA RefreshIs ==
    ASSUME NEW U, NEW h \in Heaps(U), NEW x \in Keys \union {0}
    PROVE  /\ Refresh(h, x) \in Heaps(U)
           /\ \A y \in Keys \union {-1} :
                 /\ Refresh(h, x)[y].link = h[y].link
                 /\ Refresh(h, x)[y].up = h[y].up
                 /\ y # x => Refresh(h, x)[y].max = h[y].max
           /\ x # 0 => Computed(h, Refresh(h, x), x)
<1>1. CASE x = 0
  <2>1. Refresh(h, x) = h
        BY <1>1 DEF Refresh, NULL
  <2> QED BY <1>1, <2>1
<1>2. CASE x # 0
  <2> DEFINE m == compute_subtree_max_size(h, x)
             a == MaxOf(h, h[x].link[0])
             b == MaxOf(h, h[x].link[1])
  <2>1. Refresh(h, x) = [h EXCEPT ![x].max = m] /\ x \in Keys
        BY <1>2 DEF Refresh, NULL
  <2>2. Size[x] \in Nat /\ a \in Nat /\ b \in Nat
    <3>1. \A t \in {0, 1} : h[x].link[t] \in Keys \union {0}
          BY <2>1, HeapTypes
    <3>2. \A y \in Keys : h[y].max \in Nat
          BY HeapTypes
    <3> QED BY <2>1, <3>1, <3>2, SplayKeysFacts DEF MaxOf, NULL
  <2>3. m = Max({Size[x], a, b})
        BY DEF compute_subtree_max_size, MaxOf, NULL
  <2> HIDE DEF m, a, b
  <2>4. m \in {Size[x], a, b} /\ \A n \in {Size[x], a, b} : m >= n
        BY <2>2, <2>3, MaxOfThree
  <2>5. m \in Nat
        BY <2>2, <2>4
  <2>6. /\ [h EXCEPT ![x].max = m] \in Heaps(U)
        /\ MaxPut(h, [h EXCEPT ![x].max = m], x, m)
        BY <2>1, <2>5, PutMax
  <2>7. Refresh(h, x)[x].max = m
        BY <2>1, <2>6 DEF MaxPut
  <2>8. Computed(h, Refresh(h, x), x)
        BY <2>4, <2>7 DEF Computed, a, b
  <2> QED BY <2>1, <2>6, <2>8 DEF MaxPut
<1> QED BY <1>1, <1>2

\* The max_size of k is right for the keys S under it, if k is a node.
Right(h, k, S) == IF k = 0 THEN S = {} ELSE S \subseteq Keys /\ IsMax(h[k].max, S)

\* What was computed is right when the children are.
LEMMA ComputedIs ==
    ASSUME NEW U, NEW h \in Heaps(U), NEW g \in Heaps(U), NEW x \in Keys, Computed(h, g, x),
           NEW S, NEW T, Right(h, h[x].link[0], S), Right(h, h[x].link[1], T)
    PROVE  IsMax(g[x].max, {x} \union S \union T)
<1> DEFINE m == g[x].max
           a == MaxOf(h, h[x].link[0])
           b == MaxOf(h, h[x].link[1])
<1>1. m >= Size[x] /\ m >= a /\ m >= b /\ (m = Size[x] \/ m = a \/ m = b)
      BY DEF Computed
<1>2. /\ S \subseteq Keys /\ T \subseteq Keys /\ \A k \in Keys : Size[k] \in Nat
      BY SplayKeysFacts DEF Right
<1>3. /\ (S = {} /\ a = 0) \/ IsMax(a, S)
      /\ (T = {} /\ b = 0) \/ IsMax(b, T)
      BY DEF Right, MaxOf, NULL
<1>4. a \in Nat /\ b \in Nat /\ m \in Nat
  <2>1. m \in Nat BY HeapTypes
  <2>2. \A z \in Nat : z \in Nat OBVIOUS
  <2> HIDE DEF a, b, m
  <2> QED BY <1>2, <1>3, <2>1 DEF IsMax
<1> HIDE DEF m, a, b
<1>5. \A k \in {x} \union S \union T : Size[k] <= m
  <2>1. \A k \in S : Size[k] <= a BY <1>3 DEF IsMax
  <2>2. \A k \in T : Size[k] <= b BY <1>3 DEF IsMax
  <2>3. \A k \in S : Size[k] <= m
    <3> TAKE k \in S
    <3>1. Size[k] \in Nat /\ Size[k] <= a BY <1>2, <2>1
    <3> QED BY <1>1, <1>4, <3>1
  <2>4. \A k \in T : Size[k] <= m
    <3> TAKE k \in T
    <3>1. Size[k] \in Nat /\ Size[k] <= b BY <1>2, <2>2
    <3> QED BY <1>1, <1>4, <3>1
  <2> QED BY <1>1, <1>2, <1>4, <2>3, <2>4, Zenon
<1>6. \E k \in {x} \union S \union T : Size[k] = m
  <2>1. CASE m = Size[x] BY <2>1
  <2>2. CASE m = a /\ m # Size[x]
    <3>1. ~(S = {} /\ a = 0)
          BY <1>1, <1>2, <2>2
    <3> QED BY <1>3, <2>2, <3>1 DEF IsMax
  <2>3. CASE m = b /\ m # Size[x]
    <3>1. ~(T = {} /\ b = 0)
          BY <1>1, <1>2, <2>3
    <3> QED BY <1>3, <2>3, <3>1 DEF IsMax
  <2> QED BY <1>1, <2>1, <2>2, <2>3
<1> QED BY <1>5, <1>6 DEF IsMax, m

-----------------------------------------------------------------------------
(***************************************************************************)
(* A rotation.                                                             *)
(***************************************************************************)
\* The side change_child() takes.
SideOf(h, p, x) == IF h[p].link[0] = x THEN 0 ELSE 1

Pivoted(h, g, x, s, c) ==
    LET p == h[x].up
        inner == h[c].link[1 - s]
    IN \A y \in Keys \union {-1} :
          /\ \A t \in {0, 1} : g[y].link[t] =
                IF y = x /\ t = s THEN inner
                ELSE IF y = c /\ t = 1 - s THEN x
                ELSE IF y = p /\ t = SideOf(h, p, x) THEN c ELSE h[y].link[t]
          /\ g[y].up = IF y = inner THEN x ELSE IF y = x THEN c
                       ELSE IF y = c THEN p ELSE h[y].up
          /\ y # x => g[y].max = IF y = c THEN h[x].max ELSE h[y].max

LEMMA PivotIs ==
    ASSUME NEW h \in Heaps(Keys \union {0}), NEW x \in Keys, NEW s \in {0, 1},
           NEW c \in Keys, c = h[x].link[s], c # x,
           h[x].up # x, h[x].up # c,
           h[c].link[1 - s] \notin {x, c}, h[x].link[1 - s] \notin {x, c}
    PROVE  /\ Pivot(h, x, s) \in Heaps(Keys \union {0})
           /\ Pivoted(h, Pivot(h, x, s), x, s, c)
           /\ Computed(Pivot(h, x, s), Pivot(h, x, s), x)
<1> DEFINE p == h[x].up
           inner == h[c].link[1 - s]
           above == IF p = 0 THEN h ELSE [h EXCEPT ![p].link[SideOf(h, p, x)] = c]
           e1 == [above EXCEPT ![c].up = p]
           e2 == [e1 EXCEPT ![x].link[s] = inner]
           e3 == [e2 EXCEPT ![x].up = c]
           e4 == [e3 EXCEPT ![c].link[1 - s] = x]
           e5 == [e4 EXCEPT ![c].max = h[x].max]
           e6 == set_parent(e5, inner, x)
           g == Refresh(e6, x)
           H == Heaps(Keys \union {0})
<1>1. Pivot(h, x, s) = g
      BY DEF Pivot, SideOf, NULL
<1>2. /\ p \in Keys \union {0} /\ inner \in Keys \union {0} /\ h[x].max \in Nat
      /\ 1 - s \in {0, 1} /\ s # 1 - s /\ 0 \notin Keys /\ -1 \notin Keys
  <2>1. \A y \in Keys : /\ h[y].up \in Keys \union {0} /\ h[y].max \in Nat
                        /\ \A t \in {0, 1} : h[y].link[t] \in Keys \union {0}
        BY HeapTypes
  <2>2. 1 - s \in {0, 1} /\ s # 1 - s
        OBVIOUS
  <2> QED BY <2>1, <2>2, SplayKeysFacts
<1> DEFINE i == SideOf(h, p, x)
<1>3. /\ above \in H
      /\ \A y \in Keys \union {-1} :
            /\ above[y].up = h[y].up /\ above[y].max = h[y].max
            /\ \A t \in {0, 1} : above[y].link[t] =
                  IF y = p /\ t = i THEN c ELSE h[y].link[t]
  <2>1. i \in {0, 1}
        BY DEF SideOf
  <2> HIDE DEF i
  <2>2. CASE p = 0
        BY <1>2, <2>2
  <2>3. CASE p # 0
    <3>1. above = [h EXCEPT ![p].link[i] = c] /\ p \in Keys \union {-1}
          BY <1>2, <2>3, Zenon DEF i
    <3>2. [h EXCEPT ![p].link[i] = c] \in H /\ LinkPut(h, [h EXCEPT ![p].link[i] = c], p, i, c)
          BY ONLY <1>2, <2>1, <3>1, PutLink, c \in Keys, SMTT(20)
    <3> HIDE DEF above, p
    <3> QED BY <3>1, <3>2 DEF LinkPut
  <2> QED BY <2>2, <2>3, Zenon
<1> HIDE DEF above, i
<1>3a. /\ x \in Keys \union {-1} /\ c \in Keys \union {-1} /\ s \in {0, 1} /\ 1 - s \in {0, 1}
       /\ inner \in Keys \union {0} /\ x \in Keys \union {0} /\ c \in Keys \union {0}
       /\ p \in Keys \union {0}
      BY <1>2
<1>4. e1 \in H /\ UpPut(above, e1, c, p)
      BY <1>2, <1>3, PutUp
<1> HIDE DEF e1
<1>5. e2 \in H /\ LinkPut(e1, e2, x, s, inner)
      BY ONLY <1>3a, <1>4, PutLink, SMTT(20)
<1> HIDE DEF e2
<1>6. e3 \in H /\ UpPut(e2, e3, x, c)
      BY ONLY <1>3a, <1>5, PutUp
<1> HIDE DEF e3
<1>7. e4 \in H /\ LinkPut(e3, e4, c, 1 - s, x)
      BY ONLY <1>3a, <1>6, PutLink, SMTT(20)
<1> HIDE DEF e4
<1>8. e5 \in H /\ MaxPut(e4, e5, c, h[x].max)
      BY <1>2, <1>7, PutMax
<1> HIDE DEF e5
<1>9. e6 \in H /\ UpPut(e5, e6, inner, x)
      BY <1>2, <1>8, SetParentIs, Zenon
<1> HIDE DEF e6
<1>10. /\ g \in H
       /\ \A y \in Keys \union {-1} : /\ g[y].link = e6[y].link
                                      /\ g[y].up = e6[y].up
                                      /\ y # x => g[y].max = e6[y].max
       /\ Computed(e6, g, x)
  <2>1. x # 0 /\ x \in Keys \union {0}
        BY SplayKeysFacts
  <2> QED BY <1>9, <2>1, RefreshIs
<1> HIDE DEF g
<1>11. ASSUME NEW y \in Keys \union {-1}, NEW t \in {0, 1}
       PROVE  g[y].link[t] = IF y = x /\ t = s THEN inner
                             ELSE IF y = c /\ t = 1 - s THEN x
                             ELSE IF y = p /\ t = i THEN c ELSE h[y].link[t]
  <2>1. g[y].link[t] = e4[y].link[t]
        BY <1>8, <1>9, <1>10 DEF UpPut, MaxPut
  <2>2. e4[y].link[t] = IF y = c /\ t = 1 - s THEN x ELSE e3[y].link[t]
        BY <1>7 DEF LinkPut
  <2>3. e3[y].link[t] = e2[y].link[t]
        BY <1>6, Zenon DEF UpPut
  <2>4. e2[y].link[t] = IF y = x /\ t = s THEN inner ELSE e1[y].link[t]
        BY <1>5 DEF LinkPut
  <2>5. e1[y].link[t] = above[y].link[t]
        BY <1>4 DEF UpPut
  <2> HIDE DEF p, inner
  <2> QED BY <1>2, <1>3, <2>1, <2>2, <2>3, <2>4, <2>5
<1>12. ASSUME NEW y \in Keys \union {-1}
       PROVE  /\ g[y].up = IF y = inner THEN x ELSE IF y = x THEN c
                           ELSE IF y = c THEN p ELSE h[y].up
              /\ y # x => g[y].max = IF y = c THEN h[x].max ELSE h[y].max
  <2>1. /\ g[y].up = IF y = inner THEN x ELSE e5[y].up
        /\ y # x => g[y].max = e5[y].max
        BY <1>9, <1>10 DEF UpPut
  <2>2. e5[y].up = e4[y].up /\ e5[y].max = IF y = c THEN h[x].max ELSE e4[y].max
        BY <1>8 DEF MaxPut
  <2>3. e4[y].up = e3[y].up /\ e4[y].max = e3[y].max
        BY <1>7 DEF LinkPut
  <2>4. e3[y].up = (IF y = x THEN c ELSE e2[y].up) /\ e3[y].max = e2[y].max
        BY <1>6, Zenon DEF UpPut
  <2>5. e2[y].up = e1[y].up /\ e2[y].max = e1[y].max
        BY <1>5 DEF LinkPut
  <2>6. e1[y].up = (IF y = c THEN p ELSE above[y].up) /\ e1[y].max = above[y].max
        BY <1>4 DEF UpPut
  <2> HIDE DEF p, inner
  <2> QED BY <1>3, <2>1, <2>2, <2>3, <2>4, <2>5, <2>6
<1>13. Computed(g, g, x)
  <2>1. \A t \in {0, 1} : g[x].link[t] = e6[x].link[t] /\ e6[x].link[t] # x
                          /\ e6[x].link[t] \in Keys \union {0}
    <3>1. \A t \in {0, 1} : g[x].link[t] = e6[x].link[t]
          BY <1>10
    <3>2. \A t \in {0, 1} : e6[x].link[t] \in Keys \union {0}
          BY <1>9, HeapTypes, Zenon
    <3>3. g[x].link[s] = inner
          BY <1>11, Zenon
    <3>4. g[x].link[1 - s] = h[x].link[1 - s]
          BY <1>2, <1>11
    <3>5. \A t \in {0, 1} : t = s \/ t = 1 - s
          OBVIOUS
    <3> QED BY <3>1, <3>2, <3>3, <3>4, <3>5
  <2>2. \A t \in {0, 1} : MaxOf(e6, e6[x].link[t]) = MaxOf(g, g[x].link[t])
        BY <1>10, <2>1, Zenon DEF MaxOf, NULL
  <2> QED BY <1>10, <2>2, Zenon DEF Computed
<1> QED BY <1>1, <1>10, <1>11, <1>12, <1>13, Zenon DEF Pivoted, p, inner, i

\* No link of the tree that is still to be looked at is cut, its nodes are in no
\* other, and their max_size is right.
LEMMA CleanCur ==
    ASSUME NEW o, NEW h, NEW r, NEW sub, SplayOp(o, r), SplayHeap(o, h),
           Pieces(o, h, r, sub), Sides(o, h, sub), NEW y \in sub[o.cur]
    PROVE  /\ y \in Keys /\ o.cur \in Keys /\ ~AtCaller(o)
           /\ y # o.victim /\ \A t \in {0, 1} : Hung(h, t) # y
           /\ \A t \in {0, 1} : /\ Apart(o) => y # o.tmax[t]
                                /\ ~CutAt(o, y, t)
                                /\ Cut(o, h)[y].link[t] = h[y].link[t]
           /\ y \in All(o, h, r, sub) /\ sub[y] \subseteq sub[o.cur]
<1>1. /\ sub \in [Keys \union {0} -> SUBSET Keys] /\ sub[0] = {}
      /\ \A z \in Keys : z \in sub[z]
      /\ \A z \in Keys : \A k \in sub[z] : sub[k] \subseteq sub[z]
      /\ ~AtCaller(o) => o.cur \in Keys
      /\ AtCaller(o) => o.cur = 0
      /\ \A s \in {0, 1} : /\ Hung(h, s) \in Keys \union {0}
                           /\ ~Apart(o) => Hung(h, s) = 0
      BY Trees, Zenon
<1>2. ~AtCaller(o) /\ o.cur \in Keys /\ y \in Keys /\ y \in Nat /\ y # 0
      BY <1>1, SplayKeysFacts
<1>3. y # o.victim
  <2>1. o.victim # 0 => \A a \in sub[o.cur] : a < o.victim
        BY DEF Pieces
  <2> QED BY <1>2, <2>1
<1>4. \A t \in {0, 1} : Apart(o) => y \notin sub[Hung(h, t)]
  <2> SUFFICES ASSUME NEW t \in {0, 1}, Apart(o), y \in sub[Hung(h, t)] PROVE FALSE
      OBVIOUS
  <2>1. Before(t, y, y)
        BY DEF Sides
  <2> QED BY <1>2, <2>1 DEF Before
<1>5. \A t \in {0, 1} : Hung(h, t) # y
  <2> TAKE t \in {0, 1}
  <2> SUFFICES ASSUME Hung(h, t) = y PROVE FALSE
      OBVIOUS
  <2>1. Apart(o) /\ y \in sub[y] BY <1>1, <1>2
  <2> QED BY <1>4, <2>1
<1>6. \A t \in {0, 1} : Apart(o) => y # o.tmax[t]
  <2> TAKE t \in {0, 1}
  <2> SUFFICES ASSUME Apart(o), y = o.tmax[t] PROVE FALSE
      OBVIOUS
  <2>1. o.tmax[t] # -1 BY <1>2, SplayKeysFacts
  <2>2. o.tmax[t] \in sub[Hung(h, t)] BY <2>1 DEF Sides
  <2> QED BY <1>4, <2>2
<1>7. \A t \in {0, 1} : ~CutAt(o, y, t)
      BY <1>3, <1>6 DEF CutAt
<1>8. y \in All(o, h, r, sub)
      BY <1>2 DEF All
<1>9. sub[y] \subseteq sub[o.cur]
      BY <1>1, <1>2
<1>10. \A t \in {0, 1} : Cut(o, h)[y].link[t] = h[y].link[t]
      BY <1>2, <1>7, CutIs
<1> QED BY <1>2, <1>3, <1>5, <1>6, <1>7, <1>8, <1>9, <1>10

LEMMA MaxBelow ==
    ASSUME NEW o, NEW h, NEW r, NEW sub, SplayTree(o, h, r, sub), NEW y \in sub[o.cur],
           o.pc # "climb"
    PROVE  /\ \A t \in {0, 1} : o.tmax[t] \notin sub[y]
           /\ IsMax(h[y].max, sub[y])
<1> USE DEF SplayTree
<1>1. /\ y \in Keys /\ ~AtCaller(o) /\ y # o.victim
      /\ y \in All(o, h, r, sub) /\ sub[y] \subseteq sub[o.cur]
      BY CleanCur
<1>2. ASSUME NEW t \in {0, 1}, o.tmax[t] \in sub[y] PROVE FALSE
  <2>1. CASE Apart(o)
        BY <1>1, <1>2, <2>1, CleanCur
  <2>2. CASE ~Apart(o)
    <3>1. o.tmax[t] = -1 BY <2>2 DEF SplayOp
    <3>2. o.tmax[t] \in Keys BY <1>1, <1>2, CleanCur
    <3> QED BY <3>1, <3>2, SplayKeysFacts
  <2> QED BY <2>1, <2>2
<1>3. IsMax(h[y].max, sub[y])
      BY <1>1, <1>2, ZenonT(30) DEF Sizes
<1> QED BY <1>2, <1>3

\* What top_down_splay() knows as it rotates the root x with its child c.
Turning(o, h, r, sub, x, s, c) ==
    /\ SplayTree(o, h, r, sub) /\ o.pc = "splay" /\ x = o.cur
    /\ s \in {0, 1} /\ c = h[x].link[s] /\ c # 0

LEMMA TurningFacts ==
    ASSUME NEW o, NEW h, NEW r, NEW sub, NEW x, NEW s, NEW c,
           Turning(o, h, r, sub, x, s, c)
    PROVE  /\ x \in Keys /\ c \in Keys /\ c # x /\ s \in {0, 1}
           /\ x \in sub[x] /\ c \in sub[x] /\ Apart(o) /\ ~AtCaller(o)
           /\ h[c].link[1 - s] \in Keys \union {0} /\ h[c].link[1 - s] \notin {x, c}
           /\ h[x].link[1 - s] \in Keys \union {0} /\ h[x].link[1 - s] \notin {x, c}
           /\ h[x].up \in Keys \union {0} /\ h[x].up \notin sub[x]
           /\ h[x].up \in All(o, h, r, sub) \/ h[x].up = 0
           /\ h[c].link[1 - s] # 0 => h[c].link[1 - s] \in sub[x]
           /\ h[x].link[1 - s] # 0 => h[x].link[1 - s] \in sub[x]
           /\ h \in Heaps(Keys \union {0})
<1> USE DEF Turning, SplayTree
<1>1. /\ SearchTree(Keys, Cut(o, h), sub) /\ x \in Keys
      /\ \A y \in Keys : y \in sub[y]
      /\ sub[0] = {} /\ sub \in [Keys \union {0} -> SUBSET Keys]
      /\ s \in {0, 1} /\ 1 - s \in {0, 1} /\ s # 1 - s
      /\ Apart(o) /\ ~AtCaller(o)
  <2>1. Apart(o) /\ ~AtCaller(o) BY DEF Apart, AtCaller
  <2>2. 1 - s \in {0, 1} /\ s # 1 - s OBVIOUS
  <2> QED BY <2>1, <2>2, Trees
<1>2. ASSUME NEW y \in sub[x], NEW t \in {0, 1}
      PROVE  /\ y \in Keys /\ Cut(o, h)[y].link[t] = h[y].link[t]
             /\ h[y].link[t] \in Keys \union {0} /\ h[y].link[t] # y
             /\ h[y].link[t] # x
             /\ h[y].link[t] # 0 => h[y].link[t] \in sub[x]
             /\ h[y].link[t] # 0 => h[y].link[t] \in sub[h[y].link[t]]
             /\ y \notin sub[h[y].link[t]]
  <2>1. y \in Keys /\ Cut(o, h)[y].link[t] = h[y].link[t] /\ sub[y] \subseteq sub[x]
        BY CleanCur
  <2>2. /\ h[y].link[t] \in Keys \union {0} /\ h[y].link[t] # y
        /\ h[y].link[t] # 0 => h[y].link[t] \in sub[h[y].link[t]]
        /\ sub[h[y].link[t]] \subseteq sub[y]
        /\ y \notin sub[h[y].link[t]]
        BY <1>1, <2>1, NodeFacts
  <2>3. x \in Roots(o, h, r)
        BY <1>1 DEF Roots
  <2>4. h[y].link[t] # x
        BY <1>1, <2>1, <2>3, Tops
  <2> QED BY <2>1, <2>2, <2>4
<1>3. c \in Keys /\ c # x /\ c \in sub[x] /\ x \in sub[x] /\ c \in sub[c]
      BY <1>1, <1>2
<1>4. h[x].link[1 - s] # c
  <2> SUFFICES ASSUME h[x].link[1 - s] = c PROVE FALSE
      OBVIOUS
  <2>1. Cut(o, h)[x].link[s] = c /\ Cut(o, h)[x].link[1 - s] = c
        BY <1>1, <1>2, <1>3
  <2> QED BY <1>1, <1>3, <2>1, OneSide
<1>5. h[x].up \in Keys \union {0}
      BY <1>1, NodeTypes
<1>6. /\ h[x].up \notin sub[x]
      /\ h[x].up \in All(o, h, r, sub) \/ h[x].up = 0
  <2>1. CASE h[x].up = o.victim
    <3>1. h[x].up \notin sub[x] BY <2>1, CleanCur
    <3>2. h[x].up # 0 => h[x].up \in sub[o.victim] BY <1>1, <1>5, <2>1
    <3> QED BY <1>1, <3>1, <3>2 DEF All
  <2>2. ASSUME NEW t \in {0, 1}, h[x].up = o.tmax[t], o.tmax[t] # -1
        PROVE  h[x].up \notin sub[x] /\ h[x].up \in All(o, h, r, sub)
    <3>1. h[x].up \notin sub[x] BY <1>1, <2>2, CleanCur
    <3>2. o.tmax[t] \in sub[Hung(h, t)] BY <1>1, <2>2 DEF Sides
    <3> QED BY <1>1, <2>2, <3>1, <3>2 DEF All
  <2> QED BY <1>1, <2>1, <2>2 DEF Stale
<1>7. h \in Heaps(Keys \union {0})
      BY HeapsAre, Zenon
<1>8. /\ h[c].link[1 - s] \in Keys \union {0} /\ h[c].link[1 - s] \notin {x, c}
      /\ h[c].link[1 - s] # 0 => h[c].link[1 - s] \in sub[x]
  <2>1. c \in sub[x] /\ 1 - s \in {0, 1} BY ONLY <1>1, <1>3
  <2> QED BY ONLY <1>2, <1>3, <2>1
<1>9. /\ h[x].link[1 - s] \in Keys \union {0} /\ h[x].link[1 - s] # x
      /\ h[x].link[1 - s] # 0 => h[x].link[1 - s] \in sub[x]
  <2>1. x \in sub[x] /\ 1 - s \in {0, 1} BY ONLY <1>1, <1>3
  <2> QED BY ONLY <1>2, <1>3, <2>1
<1> HIDE DEF Turning, SplayTree
<1>10. h[x].up \notin sub[x] /\ (h[x].up \in All(o, h, r, sub) \/ h[x].up = 0)
      BY <1>6
<1>11. x \in Keys /\ s \in {0, 1} /\ Apart(o) /\ ~AtCaller(o)
      BY <1>1
<1> QED BY ONLY <1>3, <1>4, <1>5, <1>7, <1>8, <1>9, <1>10, <1>11

\* The link that change_child() takes is one that is cut, and the only such link
\* to the root.
LEMMA TurningAbove ==
    ASSUME NEW o, NEW h, NEW r, NEW sub, NEW x, NEW s, NEW c,
           Turning(o, h, r, sub, x, s, c), NEW p, p = h[x].up
    PROVE  /\ p # 0 => CutAt(o, p, SideOf(h, p, x))
           /\ \A t \in {0, 1} : p = o.tmax[t] /\ h[p].link[t] = x => SideOf(h, p, x) = t
           /\ p = o.victim /\ h[p].link[0] = x => SideOf(h, p, x) = 0
           /\ \A t, u \in {0, 1} : o.tmax[t] # -1 /\ o.tmax[t] = o.tmax[u] => t = u
           /\ \A t \in {0, 1} : o.tmax[t] # o.victim
<1>0. x \in Keys /\ Apart(o) /\ ~AtCaller(o) /\ p \in Keys \union {0}
      BY TurningFacts
<1> USE DEF Turning, SplayTree
<1>1. /\ x \in Keys /\ Apart(o) /\ ~AtCaller(o)
      /\ p \in Keys \union {0}
      /\ x \in Roots(o, h, r) /\ o.key \in Nat
      /\ o.victim \in Keys \union {0}
      /\ \A t \in {0, 1} : o.tmax[t] \in Keys \union {-1}
  <2>1. x \in Keys /\ Apart(o) /\ ~AtCaller(o) /\ p \in Keys \union {0}
        BY <1>0
  <2>2. \A t \in {0, 1} : o.tmax[t] \in Keys \union {-1}
        BY <2>1 DEF SplayOp
  <2>3. o.key \in Keys /\ o.victim \in Keys \union {0} BY <2>1, Trees
  <2> QED BY <2>1, <2>2, <2>3, SplayKeysFacts DEF Roots
<1>2. \A t \in {0, 1} : o.tmax[t] # -1 =>
         /\ o.tmax[t] \in sub[Hung(h, t)] /\ o.tmax[t] \in Nat /\ o.tmax[t] \in Keys
         /\ Before(t, o.tmax[t], o.key)
  <2> TAKE t \in {0, 1}
  <2>1. o.tmax[t] # -1 => o.tmax[t] \in sub[Hung(h, t)]
        BY <1>1 DEF Sides
  <2>2. \A a \in sub[Hung(h, t)] : Before(t, a, o.key)
        BY <1>1 DEF Sides
  <2> QED BY <1>1, <2>1, <2>2, SplayKeysFacts
<1>3. \A t, u \in {0, 1} : o.tmax[t] # -1 /\ o.tmax[t] = o.tmax[u] => t = u
  <2> TAKE t, u \in {0, 1}
  <2> SUFFICES ASSUME o.tmax[t] # -1, o.tmax[t] = o.tmax[u], t # u PROVE FALSE
      OBVIOUS
  <2>1. o.tmax[t] \in Nat /\ Before(0, o.tmax[t], o.key) /\ Before(1, o.tmax[t], o.key)
        BY <1>2
  <2> QED BY <1>1, <2>1 DEF Before
<1>4. \A t \in {0, 1} : o.tmax[t] # o.victim
  <2> TAKE t \in {0, 1}
  <2> SUFFICES ASSUME o.tmax[t] = o.victim PROVE FALSE
      OBVIOUS
  <2>1. o.victim # 0 => \A a \in sub[Hung(h, 0)] \union sub[Hung(h, 1)] : a < o.victim
        BY DEF Pieces
  <2>2. o.tmax[t] # -1 /\ o.tmax[t] # 0
        BY <1>1 DEF SplayOp
  <2>3. o.tmax[t] \in sub[Hung(h, 0)] \union sub[Hung(h, 1)] /\ o.tmax[t] \in Nat
        BY <1>2, <2>2
  <2> QED BY <2>1, <2>2, <2>3
<1>5. h[p].link[0] = x /\ p # 0 => CutAt(o, p, 0)
  <2>1. p \in Keys /\ ~CutAt(o, p, 0) => Cut(o, h)[p].link[0] = h[p].link[0]
        BY CutIs
  <2> QED BY <1>1, <2>1, Tops
<1>6. ASSUME NEW t \in {0, 1}, p = o.tmax[t], h[p].link[t] = x
      PROVE  SideOf(h, p, x) = t /\ CutAt(o, p, t)
  <2>1. CutAt(o, p, t) BY <1>1, <1>6 DEF CutAt
  <2>2. t = 1 => h[p].link[0] # x
    <3> SUFFICES ASSUME t = 1, h[p].link[0] = x PROVE FALSE
        OBVIOUS
    <3>1. p # 0 /\ p # -1 BY <1>1, <1>6, SplayKeysFacts
    <3>2. p = o.tmax[0] \/ p = o.victim BY <1>5, <3>1 DEF CutAt
    <3> QED BY <1>3, <1>4, <1>6, <3>1, <3>2
  <2> QED BY <1>6, <2>1, <2>2 DEF SideOf
<1>7. p = o.victim /\ h[p].link[0] = x => SideOf(h, p, x) = 0
      BY DEF SideOf
<1>8. p # 0 => CutAt(o, p, SideOf(h, p, x))
  <2>1. CASE p = o.victim
    <3>1. p # 0 => h[p].link[0] = x
          BY <1>1, <1>4, <2>1 DEF Stale
    <3> QED BY <2>1, <3>1 DEF CutAt, SideOf
  <2>2. CASE p # o.victim
    <3>1. PICK t \in {0, 1} : p = o.tmax[t] /\ h[p].link[t] = x
          BY <1>1, <2>2 DEF Stale
    <3> QED BY <1>6, <3>1, Zenon
  <2> QED BY <2>1, <2>2
<1> QED BY <1>3, <1>4, <1>6, <1>7, <1>8

\* The pieces after the rotation, with c for root.
Atop(o, c) == [o EXCEPT !.cur = c]

LEMMA AtopIs ==
    ASSUME NEW o, NEW r, SplayOp(o, r), NEW c
    PROVE  /\ Atop(o, c).cur = c /\ Atop(o, c).pc = o.pc /\ Atop(o, c).call = o.call
           /\ Atop(o, c).key = o.key /\ Atop(o, c).tmax = o.tmax
           /\ Atop(o, c).victim = o.victim /\ Atop(o, c).ret = o.ret
           /\ \A x, t : CutAt(Atop(o, c), x, t) <=> CutAt(o, x, t)
           /\ Apart(Atop(o, c)) <=> Apart(o)
           /\ AtCaller(Atop(o, c)) <=> AtCaller(o)
           /\ c \in Keys /\ ~AtCaller(o) => SplayOp(Atop(o, c), r)
<1>1. /\ Atop(o, c).cur = c /\ Atop(o, c).pc = o.pc /\ Atop(o, c).call = o.call
      /\ Atop(o, c).key = o.key /\ Atop(o, c).tmax = o.tmax
      /\ Atop(o, c).victim = o.victim /\ Atop(o, c).ret = o.ret
      BY DEF Atop, SplayOp
<1>2. /\ \A x, t : CutAt(Atop(o, c), x, t) <=> CutAt(o, x, t)
      /\ Apart(Atop(o, c)) <=> Apart(o)
      /\ AtCaller(Atop(o, c)) <=> AtCaller(o)
      BY <1>1 DEF CutAt, Apart, AtCaller
<1>3. ASSUME c \in Keys, ~AtCaller(o) PROVE SplayOp(Atop(o, c), r)
  <2>1. Atop(o, c) \in [pc : {"idle", "start", "splay", "assemble", "climb", "splayed", "done"},
              call : {"none", "insert", "remove", "lookup"},
              key : Keys \union {0}, cur : Keys \union {0},
              tmax : [{0, 1} -> Keys \union {0, -1}],
              victim : Keys \union {0}, ret : {"none", "yes", "no"}]
        BY <1>3 DEF Atop, SplayOp
  <2> QED BY <1>1, <1>2, <1>3, <2>1, SplayKeysFacts DEF SplayOp
<1> QED BY <1>1, <1>2, <1>3

\* The nodes after it.
TurnedTo(o, h, g, x, s, c) ==
    /\ g \in Heaps(Keys \union {0})
    /\ Pivoted(h, g, x, s, c)
    /\ Computed(g, g, x)

TurnedLinks(o, h, g, x, s, c) ==
    \A y \in Keys, t \in {0, 1} : ~CutAt(o, y, t) =>
       g[y].link[t] = IF y = x /\ t = s THEN h[c].link[1 - s]
                      ELSE IF y = c /\ t = 1 - s THEN x
                      ELSE h[y].link[t]

LEMMA TurningLinks ==
    ASSUME NEW o, NEW h, NEW r, NEW sub, NEW x, NEW s, NEW c, NEW g,
           Turning(o, h, r, sub, x, s, c), TurnedTo(o, h, g, x, s, c)
    PROVE  /\ SearchTree(Keys, Cut(Atop(o, c), g), TurnedSub(sub, Cut(o, h), x, s, c))
           /\ TurnedLinks(o, h, g, x, s, c)
<1> DEFINE p == h[x].up
<1>0. c = h[x].link[s] /\ x = o.cur
      BY DEF Turning
<1>1. /\ x \in Keys /\ c \in Keys /\ c # x /\ s \in {0, 1} /\ 1 - s \in {0, 1}
      /\ x \in sub[x] /\ c \in sub[x] /\ Apart(o) /\ ~AtCaller(o)
      /\ c = h[x].link[s] /\ x = o.cur
      BY <1>0, TurningFacts
<1>2. /\ SplayOp(o, r) /\ SplayHeap(o, h) /\ Pieces(o, h, r, sub) /\ Sides(o, h, sub)
      /\ SearchTree(Keys, Cut(o, h), sub)
      BY DEF Turning, SplayTree, Pieces
<1>3. p # 0 => CutAt(o, p, SideOf(h, p, x))
      BY TurningAbove
<1>4. \A y \in Keys, t \in {0, 1} : ~CutAt(o, y, t) =>
         g[y].link[t] = IF y = x /\ t = s THEN h[c].link[1 - s]
                        ELSE IF y = c /\ t = 1 - s THEN x
                        ELSE h[y].link[t]
  <2> TAKE y \in Keys, t \in {0, 1}
  <2> SUFFICES ASSUME ~CutAt(o, y, t)
               PROVE  g[y].link[t] = IF y = x /\ t = s THEN h[c].link[1 - s]
                                     ELSE IF y = c /\ t = 1 - s THEN x
                                     ELSE h[y].link[t]
      OBVIOUS
  <2>1. g[y].link[t] = IF y = x /\ t = s THEN h[c].link[1 - s]
                       ELSE IF y = c /\ t = 1 - s THEN x
                       ELSE IF y = p /\ t = SideOf(h, p, x) THEN c ELSE h[y].link[t]
        BY DEF TurnedTo, Pivoted
  <2>2. ~(y = p /\ t = SideOf(h, p, x))
        BY <1>3, SplayKeysFacts, Zenon
  <2> QED BY <2>1, <2>2
<1>5. /\ \A t \in {0, 1} : ~CutAt(o, x, t) /\ ~CutAt(o, c, t)
      /\ Cut(o, h)[x].link[s] = c /\ Cut(o, h)[c].link[1 - s] = h[c].link[1 - s]
      /\ x \in Roots(o, h, r)
  <2>1. \A y \in {x, c} : \A t \in {0, 1} :
           ~CutAt(o, y, t) /\ Cut(o, h)[y].link[t] = h[y].link[t]
        BY <1>1, <1>2, CleanCur
  <2> QED BY <1>1, <2>1, Zenon DEF Roots
<1>6. \A y \in Keys, t \in {0, 1} : Cut(o, h)[y].link[t] # x
      BY <1>1, <1>2, <1>5, Tops
<1>7. LinksTurned(Keys, Cut(o, h), Cut(Atop(o, c), g), x, s, c)
  <2> SUFFICES ASSUME NEW y \in Keys, NEW t \in {0, 1}
               PROVE  Cut(Atop(o, c), g)[y].link[t] =
                         IF y = x /\ t = s THEN Cut(o, h)[c].link[1 - s]
                         ELSE IF y = c /\ t = 1 - s THEN x
                         ELSE IF Cut(o, h)[y].link[t] = x THEN c ELSE Cut(o, h)[y].link[t]
      BY DEF LinksTurned
  <2>1. CutAt(Atop(o, c), y, t) <=> CutAt(o, y, t)
        BY <1>2, AtopIs
  <2>2. Cut(Atop(o, c), g)[y].link[t] = IF CutAt(o, y, t) THEN 0 ELSE g[y].link[t]
        BY <2>1, CutIs
  <2>3. Cut(o, h)[y].link[t] = IF CutAt(o, y, t) THEN 0 ELSE h[y].link[t]
        BY CutIs
  <2>4. CASE CutAt(o, y, t)
        BY <1>5, <1>6, <2>2, <2>3, <2>4
  <2>5. CASE ~CutAt(o, y, t)
        BY <1>4, <1>5, <1>6, <2>2, <2>3, <2>5, ZenonT(30)
  <2> QED BY <2>4, <2>5
<1>8. OnlyLink(Keys, Cut(o, h), x, s, c)
  <2> SUFFICES ASSUME NEW y \in Keys, NEW t \in {0, 1}, Cut(o, h)[y].link[t] = c
               PROVE  y = x /\ t = s
      BY DEF OnlyLink
  <2>1. c # 0 BY <1>1, SplayKeysFacts
  <2>2. Forest(Keys, Cut(o, h), sub, Roots(o, h, r)) BY <1>2, IsForest
  <2>3. Cut(o, h)[y].link[t] # 0 /\ Cut(o, h)[y].link[t] = Cut(o, h)[x].link[s]
        BY <1>5, <2>1
  <2> QED BY ONLY <1>1, <1>2, <2>2, <2>3, ForestLink
<1>9. SearchTree(Keys, Cut(Atop(o, c), g), TurnedSub(sub, Cut(o, h), x, s, c))
      BY <1>1, <1>2, <1>5, <1>7, <1>8, TurnTree
<1> QED BY <1>4, <1>9 DEF TurnedLinks

\* What is under which node after it.
LEMMA TurningSub ==
    ASSUME NEW o, NEW h, NEW r, NEW sub, NEW x, NEW s, NEW c, NEW g,
           Turning(o, h, r, sub, x, s, c), TurnedTo(o, h, g, x, s, c),
           NEW new, new = TurnedSub(sub, Cut(o, h), x, s, c)
    PROVE  /\ new[c] = sub[x] /\ new[x] \subseteq sub[x]
           /\ \A y \in Keys \union {0} : y \notin {x, c} => new[y] = sub[y]
           /\ \A t \in {0, 1} : Hung(g, t) = Hung(h, t) /\ new[Hung(h, t)] = sub[Hung(h, t)]
           /\ new[o.victim] = sub[o.victim]
           /\ All(Atop(o, c), g, r, new) = All(o, h, r, sub)
<1>0. c = h[x].link[s] /\ x = o.cur
      BY DEF Turning
<1>1. /\ x \in Keys /\ c \in Keys /\ c # x /\ s \in {0, 1} /\ 1 - s \in {0, 1}
      /\ x \in sub[x] /\ c \in sub[x] /\ Apart(o) /\ ~AtCaller(o)
      /\ c = h[x].link[s] /\ x = o.cur
      /\ h[x].up \in Keys \union {0}
      BY <1>0, TurningFacts
<1>2. /\ SplayOp(o, r) /\ SplayHeap(o, h) /\ Pieces(o, h, r, sub) /\ Sides(o, h, sub)
      /\ SearchTree(Keys, Cut(o, h), sub)
      BY DEF Turning, SplayTree, Pieces
<1>3. /\ sub \in [Keys \union {0} -> SUBSET Keys] /\ sub[0] = {}
      /\ o.victim \in Keys \union {0}
      /\ \A t \in {0, 1} : Hung(h, t) \in Keys \union {0}
      BY <1>2, Trees
<1>4. /\ sub[x] = {x} \union sub[Cut(o, h)[x].link[0]] \union sub[Cut(o, h)[x].link[1]]
      /\ sub[c] = {c} \union sub[Cut(o, h)[c].link[0]] \union sub[Cut(o, h)[c].link[1]]
      /\ sub[c] \subseteq sub[x]
  <2>1. sub[c] \subseteq sub[x] BY ONLY <1>1, <1>2, SubTrans, Zenon
  <2> QED BY <1>1, <1>2, <2>1, Zenon DEF SearchTree
<1>5. /\ new[c] = sub[x]
      /\ new[x] = {x} \union sub[Cut(o, h)[x].link[1 - s]] \union sub[Cut(o, h)[c].link[1 - s]]
      /\ \A y \in Keys \union {0} : y \notin {x, c} => new[y] = sub[y]
      BY <1>1, <1>3, Zenon DEF TurnedSub
<1>6. new[x] \subseteq sub[x]
  <2>1. 1 - s = 0 \/ 1 - s = 1 BY <1>1
  <2> QED BY <1>4, <1>5, <2>1
<1>7. \A t \in {0, 1} : Hung(g, t) = Hung(h, t)
  <2> TAKE t \in {0, 1}
  <2>1. -1 \in Keys \union {-1} /\ -1 # x /\ -1 # c /\ -1 # h[x].up
        BY <1>1, SplayKeysFacts
  <2>2. g[-1].link[t] = h[-1].link[t]
    <3>1. Pivoted(h, g, x, s, c) BY DEF TurnedTo
    <3> QED BY ONLY <2>1, <3>1, t \in {0, 1} DEF Pivoted
  <2> QED BY <2>2 DEF Hung
<1>8. /\ \A t \in {0, 1} : Hung(h, t) \notin {x, c}
      /\ o.victim \notin {x, c}
      BY <1>1, <1>2, CleanCur
<1>9. /\ \A t \in {0, 1} : new[Hung(h, t)] = sub[Hung(h, t)]
      /\ new[o.victim] = sub[o.victim]
      BY <1>3, <1>5, <1>8
<1>10. All(Atop(o, c), g, r, new) = All(o, h, r, sub)
  <2>1. Atop(o, c).cur = c /\ Atop(o, c).victim = o.victim /\ ~AtCaller(Atop(o, c))
        BY <1>1, <1>2, AtopIs
  <2>2. All(Atop(o, c), g, r, new) = new[c] \union new[o.victim]
                \union new[Hung(g, 0)] \union new[Hung(g, 1)]
        BY <2>1 DEF All
  <2>3. All(o, h, r, sub) = sub[x] \union sub[o.victim]
                \union sub[Hung(h, 0)] \union sub[Hung(h, 1)]
        BY <1>1 DEF All
  <2>4. /\ new[Hung(g, 0)] = sub[Hung(h, 0)] /\ new[Hung(g, 1)] = sub[Hung(h, 1)]
        BY <1>7, <1>9
  <2> QED BY <1>5, <1>9, <2>2, <2>3, <2>4
<1> QED BY <1>5, <1>6, <1>7, <1>9, <1>10

LEMMA TurningUps ==
    ASSUME NEW o, NEW h, NEW r, NEW sub, NEW x, NEW s, NEW c, NEW g,
           Turning(o, h, r, sub, x, s, c), TurnedTo(o, h, g, x, s, c)
    PROVE  Ups(Atop(o, c), g, r)
<1> DEFINE inner == h[c].link[1 - s]
<1>0. /\ c = h[x].link[s] /\ x = o.cur /\ c # 0 /\ o.pc = "splay"
      /\ SplayOp(o, r) /\ SplayHeap(o, h) /\ Pieces(o, h, r, sub) /\ Sides(o, h, sub)
      /\ SearchTree(Keys, Cut(o, h), sub) /\ Ups(o, h, r)
      BY DEF Turning, SplayTree, Pieces
<1> HIDE DEF inner
<1>1. /\ x \in Keys /\ c \in Keys /\ c # x /\ s \in {0, 1} /\ 1 - s \in {0, 1} /\ s # 1 - s
      /\ x \in sub[x] /\ c \in sub[x] /\ Apart(o) /\ ~AtCaller(o)
      /\ inner \in Keys \union {0} /\ inner \notin {x, c}
      /\ h[x].link[1 - s] \notin {x, c}
  <2>1. 1 - s \in {0, 1} /\ s # 1 - s BY DEF Turning
  <2> QED BY <2>1, TurningFacts DEF inner
<1>2. \A y \in Keys, t \in {0, 1} : ~CutAt(o, y, t) =>
         g[y].link[t] = IF y = x /\ t = s THEN inner
                        ELSE IF y = c /\ t = 1 - s THEN x
                        ELSE h[y].link[t]
  <2>1. TurnedLinks(o, h, g, x, s, c) BY TurningLinks
  <2> QED BY <2>1 DEF TurnedLinks, inner
<1>3. \A y \in Keys : g[y].up = IF y = inner THEN x ELSE IF y = x THEN c
                                ELSE IF y = c THEN h[x].up ELSE h[y].up
      BY DEF TurnedTo, Pivoted, inner
<1>4. \A y \in Keys, t \in {0, 1} : h[y].link[t] # 0 /\ ~CutAt(o, y, t) =>
         h[h[y].link[t]].up = y /\ h[y].link[t] \in Keys /\ h[y].link[t] # x
  <2> SUFFICES ASSUME NEW y \in Keys, NEW t \in {0, 1}, h[y].link[t] # 0, ~CutAt(o, y, t)
               PROVE  h[h[y].link[t]].up = y /\ h[y].link[t] \in Keys /\ h[y].link[t] # x
      OBVIOUS
  <2>1. h[h[y].link[t]].up = y BY <1>0 DEF Ups
  <2>2. h[y].link[t] \in Keys BY <1>0, NodeTypes
  <2>3. x \in Roots(o, h, r) BY <1>0, <1>1 DEF Roots
  <2>4. Cut(o, h)[y].link[t] = h[y].link[t] BY CutIs
  <2> QED BY <1>0, <1>1, <2>1, <2>2, <2>3, <2>4, Tops
<1>5. \A t \in {0, 1} : /\ ~CutAt(o, x, t) /\ ~CutAt(o, c, t)
                        /\ Cut(o, h)[c].link[t] = h[c].link[t]
  <2>1. \A y \in {x, c} : \A t \in {0, 1} :
           ~CutAt(o, y, t) /\ Cut(o, h)[y].link[t] = h[y].link[t]
        BY <1>0, <1>1, CleanCur
  <2> QED BY <2>1
<1>6. h[c].up = x /\ (inner # 0 => h[inner].up = c)
      BY <1>0, <1>1, <1>4, <1>5, ZenonT(30) DEF inner
<1>7. inner # 0 => h[c].link[s] # inner
  <2> SUFFICES ASSUME inner # 0, h[c].link[s] = inner PROVE FALSE
      OBVIOUS
  <2>1. Cut(o, h)[c].link[s] = inner /\ Cut(o, h)[c].link[1 - s] = inner
        BY <1>1, <1>5 DEF inner
  <2>2. inner \in sub[inner]
    <3>1. inner \in Keys BY <1>1
    <3> QED BY <1>0, <3>1, NodeFacts
  <2>3. /\ inner \in sub[Cut(o, h)[c].link[s]]
        /\ inner \in sub[Cut(o, h)[c].link[1 - s]]
        BY <2>1, <2>2, SMTT(20)
  <2>4. s = 1 - s
        BY <1>0, <1>1, <2>3, OneSide, Zenon
  <2> QED BY <1>1, <2>4
<1>8. ASSUME NEW y \in Keys, NEW t \in {0, 1}, g[y].link[t] # 0, ~CutAt(o, y, t)
      PROVE  g[g[y].link[t]].up = y
  <2>1. CASE y = x /\ t = s
        BY <1>1, <1>2, <1>3, <1>8, <2>1
  <2>2. CASE y = c /\ t = 1 - s
        BY <1>1, <1>2, <1>3, <1>8, <2>2
  <2>3. CASE ~(y = x /\ t = s) /\ ~(y = c /\ t = 1 - s)
    <3> DEFINE z == h[y].link[t]
    <3>1. g[y].link[t] = z
          BY <1>2, <1>8, <2>3
    <3> HIDE DEF z
    <3>2. z \in Keys /\ z # x /\ h[z].up = y /\ z # 0
          BY <1>4, <1>8, <3>1 DEF z
    <3>3. \A u \in {0, 1} : u = s \/ u = 1 - s
          BY <1>1
    <3>4. z # c
          BY <1>1, <1>6, <2>3, <3>2, <3>3 DEF z
    <3>5. z # inner
          BY <1>6, <1>7, <2>3, <3>2, <3>3 DEF z
    <3> QED BY <1>3, <3>1, <3>2, <3>4, <3>5
  <2> QED BY <2>1, <2>2, <2>3
<1>9. /\ Atop(o, c).pc = "splay" /\ ~AtCaller(Atop(o, c))
      /\ \A y, t : CutAt(Atop(o, c), y, t) <=> CutAt(o, y, t)
      BY <1>0, <1>1, AtopIs, SMTT(20)
<1> QED BY <1>8, <1>9 DEF Ups

LEMMA TurningStale ==
    ASSUME NEW o, NEW h, NEW r, NEW sub, NEW x, NEW s, NEW c, NEW g,
           Turning(o, h, r, sub, x, s, c), TurnedTo(o, h, g, x, s, c),
           NEW new, new = TurnedSub(sub, Cut(o, h), x, s, c)
    PROVE  Stale(Atop(o, c), g, new)
<1> DEFINE p == h[x].up
           i == SideOf(h, p, x)
<1>0. /\ x = o.cur /\ Stale(o, h, sub)
      /\ SplayOp(o, r) /\ SplayHeap(o, h) /\ Pieces(o, h, r, sub) /\ Sides(o, h, sub)
      BY DEF Turning, SplayTree, Pieces
<1>1. /\ x \in Keys /\ c \in Keys /\ c # x /\ s \in {0, 1}
      /\ x \in sub[x] /\ c \in sub[x] /\ Apart(o) /\ ~AtCaller(o)
      /\ h[c].link[1 - s] \notin {x, c} /\ p \notin sub[x]
      BY TurningFacts
<1>2. /\ g[c].up = p
      /\ \A y \in Keys : y \notin {x, c} => \A t \in {0, 1} :
            g[y].link[t] = IF y = p /\ t = i THEN c ELSE h[y].link[t]
      BY <1>1 DEF TurnedTo, Pivoted
<1>3. /\ new[c] = sub[x]
      /\ \A t \in {0, 1} : Hung(g, t) = Hung(h, t) /\ new[Hung(h, t)] = sub[Hung(h, t)]
      /\ All(Atop(o, c), g, r, new) = All(o, h, r, sub)
      BY TurningSub
<1>4. /\ \A t \in {0, 1} : p = o.tmax[t] /\ h[p].link[t] = x => i = t
      /\ p = o.victim /\ h[p].link[0] = x => i = 0
      /\ \A t, u \in {0, 1} : o.tmax[t] # -1 /\ o.tmax[t] = o.tmax[u] => t = u
      /\ \A t \in {0, 1} : o.tmax[t] # o.victim
      BY TurningAbove
<1>5. /\ o.victim \in Keys \union {0} /\ o.victim \notin {x, c}
      /\ \A t \in {0, 1} : o.tmax[t] # -1 => o.tmax[t] \in Keys /\ o.tmax[t] \notin {x, c}
  <2>1. o.victim \in Keys \union {0} BY <1>0, Trees
  <2>2. \A t \in {0, 1} : o.tmax[t] # -1 => o.tmax[t] \in Keys
        BY <1>1, <1>0 DEF SplayOp
  <2>3. o.victim \notin {x, c} /\ \A t \in {0, 1} : o.tmax[t] \notin {x, c}
        BY <1>0, <1>1, CleanCur
  <2> QED BY <2>1, <2>2, <2>3
<1>6. /\ Atop(o, c).cur = c /\ Atop(o, c).tmax = o.tmax /\ Atop(o, c).victim = o.victim
      /\ Apart(Atop(o, c))
      BY <1>0, <1>1, AtopIs
<1> HIDE DEF p, i
<1>7. CASE /\ \A t \in {0, 1} : o.tmax[t] = -1
           /\ p = o.victim
           /\ o.victim # 0 => h[o.victim].link[0] = x
  <2>1. o.victim # 0 => g[o.victim].link[0] = c
        BY <1>2, <1>4, <1>5, <1>7
  <2> QED BY <1>2, <1>6, <1>7, <2>1 DEF Stale
<1>8. ASSUME NEW t \in {0, 1}, o.tmax[t] # -1, p = o.tmax[t],
             h[o.tmax[t]].link[t] = x,
             o.tmax[1 - t] # -1 => h[o.tmax[1 - t]].link[1 - t] \in sub[Hung(h, t)],
             o.victim # 0 => h[o.victim].link[0] = Hung(h, 1)
      PROVE  Stale(Atop(o, c), g, new)
  <2>1. i = t
        BY <1>4, <1>8
  <2>2. g[o.tmax[t]].link[t] = c
        BY <1>2, <1>5, <1>8, <2>1
  <2>3. 1 - t \in {0, 1} /\ 1 - t # t
        OBVIOUS
  <2>4. o.tmax[1 - t] # -1 => g[o.tmax[1 - t]].link[1 - t] \in new[Hung(g, t)]
        BY <1>2, <1>3, <1>5, <1>8, <2>1, <2>3
  <2>5. o.victim # 0 => g[o.victim].link[0] = Hung(g, 1)
        BY <1>2, <1>3, <1>4, <1>5, <1>8
  <2> QED BY <1>2, <1>6, <1>8, <2>2, <2>4, <2>5 DEF Stale
<1> QED BY <1>0, <1>1, <1>7, <1>8, Zenon DEF Stale, p

LEMMA TurningSizes ==
    ASSUME NEW o, NEW h, NEW r, NEW sub, NEW x, NEW s, NEW c, NEW g,
           Turning(o, h, r, sub, x, s, c), TurnedTo(o, h, g, x, s, c),
           NEW new, new = TurnedSub(sub, Cut(o, h), x, s, c)
    PROVE  Sizes(Atop(o, c), g, r, new)
<1>0. /\ x = o.cur /\ Sizes(o, h, r, sub) /\ o.pc = "splay" /\ c = h[x].link[s]
      /\ SplayOp(o, r) /\ SplayHeap(o, h) /\ Pieces(o, h, r, sub) /\ Sides(o, h, sub)
      /\ SplayTree(o, h, r, sub) /\ SearchTree(Keys, Cut(o, h), sub)
      BY DEF Turning, SplayTree, Pieces
<1>1. /\ x \in Keys /\ c \in Keys /\ c # x /\ s \in {0, 1} /\ 1 - s \in {0, 1}
      /\ x \in sub[x] /\ c \in sub[x] /\ Apart(o) /\ ~AtCaller(o)
      /\ h[c].link[1 - s] \in Keys \union {0} /\ h[c].link[1 - s] \notin {x, c}
      /\ h[x].link[1 - s] \in Keys \union {0} /\ h[x].link[1 - s] \notin {x, c}
      /\ h[c].link[1 - s] # 0 => h[c].link[1 - s] \in sub[x]
      /\ h[x].link[1 - s] # 0 => h[x].link[1 - s] \in sub[x]
  <2>1. 1 - s \in {0, 1} BY DEF Turning
  <2> QED BY <2>1, TurningFacts
<1>2. /\ sub \in [Keys \union {0} -> SUBSET Keys] /\ sub[0] = {}
      /\ All(o, h, r, sub) \subseteq Keys
      BY <1>0, Trees
<1>3. /\ new[c] = sub[x] /\ new[x] \subseteq sub[x]
      /\ \A y \in Keys \union {0} : y \notin {x, c} => new[y] = sub[y]
      /\ All(Atop(o, c), g, r, new) = All(o, h, r, sub)
      BY TurningSub
<1>4. /\ \A y \in Keys : y # x => g[y].max = IF y = c THEN h[x].max ELSE h[y].max
      /\ Computed(g, g, x) /\ g \in Heaps(Keys \union {0})
      BY DEF TurnedTo, Pivoted
<1>5. \A y \in sub[x] : IsMax(h[y].max, sub[y])
      BY <1>0, MaxBelow
<1>6. IsMax(g[c].max, new[c])
      BY <1>1, <1>3, <1>4, <1>5
<1>6a. \A t \in {0, 1} : ~CutAt(o, x, t)
  <2>1. x \in sub[o.cur] BY ONLY <1>0, <1>1
  <2>2. SplayOp(o, r) /\ SplayHeap(o, h) /\ Pieces(o, h, r, sub) /\ Sides(o, h, sub)
        BY ONLY <1>0
  <2> QED BY ONLY <2>1, <2>2, CleanCur
<1>7. \A t \in {0, 1} : g[x].link[t] = IF t = s THEN h[c].link[1 - s] ELSE h[x].link[t]
  <2>2. TurnedLinks(o, h, g, x, s, c) BY TurningLinks
  <2> QED BY <1>1, <1>6a, <2>2, ZenonT(30) DEF TurnedLinks
<1>8. \A t \in {0, 1} : Right(g, g[x].link[t], new[g[x].link[t]])
  <2> TAKE t \in {0, 1}
  <2> DEFINE k == g[x].link[t]
  <2>1. k \in Keys \union {0} /\ k \notin {x, c} /\ (k # 0 => k \in sub[x])
    <3>1. t = s \/ t = 1 - s BY <1>1
    <3>2. k = h[c].link[1 - s] \/ k = h[x].link[1 - s] BY <1>7, <3>1
    <3> QED BY <1>1, <3>2
  <2> HIDE DEF k
  <2>2. CASE k = 0
        BY <1>1, <1>2, <1>3, <2>1, <2>2 DEF Right, k
  <2>3. CASE k # 0
    <3>1. IsMax(g[k].max, new[k]) /\ new[k] \subseteq Keys
          BY <1>2, <1>3, <1>4, <1>5, <2>1, <2>3
    <3> QED BY <2>3, <3>1 DEF Right, k
  <2> QED BY <2>2, <2>3
<1>9. IsMax(g[x].max, new[x])
  <2>1. IsMax(g[x].max, {x} \union new[g[x].link[0]] \union new[g[x].link[1]])
        BY <1>1, <1>4, <1>8, ComputedIs
  <2>2. SearchTree(Keys, Cut(Atop(o, c), g), new)
        BY TurningLinks
  <2>3. new[x] = {x} \union new[Cut(Atop(o, c), g)[x].link[0]]
                     \union new[Cut(Atop(o, c), g)[x].link[1]]
        BY <1>1, <2>2 DEF SearchTree
  <2>4. \A t \in {0, 1} : Cut(Atop(o, c), g)[x].link[t] = g[x].link[t]
    <3>1. \A t \in {0, 1} : ~CutAt(Atop(o, c), x, t) BY <1>0, <1>6a, AtopIs
    <3> QED BY <1>1, <3>1, CutIs
  <2> QED BY <2>1, <2>3, <2>4
<1>10. ASSUME NEW y \in All(o, h, r, sub), y \notin {x, c}
       PROVE  \/ y = o.victim
              \/ \E t \in {0, 1} : o.tmax[t] \in new[y]
              \/ IsMax(g[y].max, new[y])
  <2>1. new[y] = sub[y] /\ g[y].max = h[y].max
        BY <1>2, <1>3, <1>4, <1>10
  <2> QED BY <1>0, <2>1 DEF Sizes
<1>11. /\ Atop(o, c).victim = o.victim /\ Atop(o, c).tmax = o.tmax
       /\ Atop(o, c).pc = "splay"
       BY <1>0, AtopIs
<1> QED BY <1>3, <1>6, <1>9, <1>10, <1>11 DEF Sizes

LEMMA TurningTree ==
    ASSUME NEW o, NEW h, NEW r, NEW sub, NEW x, NEW s, NEW c, NEW g,
           Turning(o, h, r, sub, x, s, c), TurnedTo(o, h, g, x, s, c),
           NEW new, new = TurnedSub(sub, Cut(o, h), x, s, c)
    PROVE  /\ SplayTree(Atop(o, c), g, r, new)
           /\ All(Atop(o, c), g, r, new) = All(o, h, r, sub)
<1> DEFINE p == h[x].up
<1>0. /\ x = o.cur /\ o.pc = "splay" /\ c = h[x].link[s]
      /\ SplayOp(o, r) /\ SplayHeap(o, h) /\ Pieces(o, h, r, sub) /\ Sides(o, h, sub)
      BY DEF Turning, SplayTree, Pieces
<1>1. /\ x \in Keys /\ c \in Keys /\ c # x /\ s \in {0, 1}
      /\ x \in sub[x] /\ c \in sub[x] /\ Apart(o) /\ ~AtCaller(o)
      /\ p \in All(o, h, r, sub) \/ p = 0
      /\ h[c].link[1 - s] # 0 => h[c].link[1 - s] \in sub[x]
      BY TurningFacts
<1>2. /\ new[c] = sub[x]
      /\ \A t \in {0, 1} : Hung(g, t) = Hung(h, t) /\ new[Hung(h, t)] = sub[Hung(h, t)]
      /\ All(Atop(o, c), g, r, new) = All(o, h, r, sub)
      BY TurningSub
<1>3. /\ Atop(o, c).cur = c /\ Atop(o, c).pc = o.pc /\ Atop(o, c).call = o.call
      /\ Atop(o, c).key = o.key /\ Atop(o, c).tmax = o.tmax
      /\ Atop(o, c).victim = o.victim
      /\ Apart(Atop(o, c)) /\ ~AtCaller(Atop(o, c))
      /\ SplayOp(Atop(o, c), r)
      BY <1>0, <1>1, AtopIs
<1>4. SplayHeap(Atop(o, c), g)
      BY <1>3 DEF SplayHeap, TurnedTo, Heaps, SplayNode
<1>5. Pieces(Atop(o, c), g, r, new)
  <2>1. SearchTree(Keys, Cut(Atop(o, c), g), new)
        BY TurningLinks
  <2>2. r \in All(o, h, r, sub)
        BY <1>0, <1>1 DEF Pieces
  <2>3. ASSUME NEW y \in Keys \ All(o, h, r, sub) PROVE g[y] = NewNode
    <3>1. h[y] = NewNode BY <1>0, <2>3, Zenon DEF Pieces
    <3>2. sub[x] \subseteq All(o, h, r, sub) BY <1>0, <1>1 DEF All
    <3>3. /\ y \notin {x, c} /\ y # p /\ y # h[c].link[1 - s]
          BY <1>1, <2>3, <3>2, SplayKeysFacts
    <3>4. /\ g[y].up = h[y].up /\ g[y].max = h[y].max
          /\ \A t \in {0, 1} : g[y].link[t] = h[y].link[t]
          BY <3>3 DEF TurnedTo, Pivoted
    <3>5. g[y] \in SplayNode BY <1>4, NodeTypes
    <3>6. NewNode.max = 0 BY DEF NewNode
    <3> QED BY <3>1, <3>4, <3>5, <3>6, SplayNewNodeIs, SplayBlank
  <2>4. o.victim # 0 =>
          \A a \in new[c] \union new[Hung(g, 0)] \union new[Hung(g, 1)] : a < o.victim
    <3>1. o.victim # 0 =>
            \A a \in sub[x] \union sub[Hung(h, 0)] \union sub[Hung(h, 1)] : a < o.victim
          BY <1>0 DEF Pieces
    <3>2. new[c] = sub[x] /\ new[Hung(g, 0)] = sub[Hung(h, 0)]
          /\ new[Hung(g, 1)] = sub[Hung(h, 1)]
          BY <1>2, Zenon
    <3> QED BY <3>1, <3>2
  <2> QED BY <1>2, <1>3, <2>1, <2>2, <2>3, <2>4 DEF Pieces
<1>6. Sides(Atop(o, c), g, new)
  <2> SUFFICES ASSUME NEW t \in {0, 1}
               PROVE  /\ \A a \in new[Hung(g, t)] :
                            /\ Before(t, a, o.key)
                            /\ \A k \in new[c] : Before(t, a, k)
                      /\ o.tmax[t] = -1 <=> Hung(g, t) = 0
                      /\ Hung(g, t) # 0 =>
                           /\ o.tmax[t] \in new[Hung(g, t)]
                           /\ \A a \in new[Hung(g, t)] \ {o.tmax[t]} :
                                 Before(t, a, o.tmax[t])
      BY <1>3 DEF Sides
  <2>1. Hung(g, t) = Hung(h, t) /\ new[Hung(g, t)] = sub[Hung(h, t)] /\ new[c] = sub[x]
        BY <1>2, Zenon
  <2> QED BY <1>0, <1>1, <2>1, Zenon DEF Sides
<1>7. Settled(Atop(o, c), g, new)
      BY <1>0, <1>3 DEF Settled
<1>8. /\ Stale(Atop(o, c), g, new) /\ Ups(Atop(o, c), g, r) /\ Sizes(Atop(o, c), g, r, new)
      BY TurningStale, TurningUps, TurningSizes
<1> QED BY <1>2, <1>3, <1>4, <1>5, <1>6, <1>7, <1>8 DEF SplayTree

-----------------------------------------------------------------------------
(***************************************************************************)
(* A node, with its other side, is hung under the tree it belongs to.      *)
(***************************************************************************)
LEMMA SameLinks ==
    ASSUME NEW h, NEW g, NEW sub, SearchTree(Keys, h, sub),
           \A y \in Keys, t \in {0, 1} : g[y].link[t] = h[y].link[t]
    PROVE  SearchTree(Keys, g, sub)
<1>1. \A y \in Keys : g[y].link[0] = h[y].link[0] /\ g[y].link[1] = h[y].link[1]
      BY Zenon
<1> QED BY <1>1 DEF SearchTree

LEMMA OtherSide ==
    \A s \in {0, 1} : (s = 0 /\ 1 - s = 1) \/ (s = 1 /\ 1 - s = 0)
  OBVIOUS

\* The pieces have nothing in common.
LEMMA Distinct ==
    ASSUME NEW o, NEW h, NEW r, NEW sub, SplayOp(o, r), SplayHeap(o, h),
           Pieces(o, h, r, sub), Sides(o, h, sub), ~AtCaller(o), NEW k \in Keys
    PROVE  /\ k \in sub[o.cur] => k \notin sub[o.victim]
           /\ k \in sub[o.cur] => \A t \in {0, 1} : k \notin sub[Hung(h, t)]
           /\ \A t \in {0, 1} : k \in sub[Hung(h, t)] => k \notin sub[o.victim]
           /\ \A t \in {0, 1} : k \in sub[Hung(h, t)] => k \notin sub[Hung(h, 1 - t)]
<1>1. /\ sub[0] = {} /\ o.victim \in Keys \union {0} /\ o.cur \in Keys /\ o.key \in Keys
      /\ \A y \in Keys : y \in sub[y]
      /\ \A s \in {0, 1} : Hung(h, s) \in Keys \union {0}
      /\ \A s \in {0, 1} : ~Apart(o) => Hung(h, s) = 0
      BY Trees
<1>2. /\ o.cur \in Roots(o, h, r) /\ o.victim \in Roots(o, h, r)
      /\ \A t \in {0, 1} : Hung(h, t) \in Roots(o, h, r)
      BY DEF Roots
<1>3. /\ o.cur # o.victim /\ \A t \in {0, 1} : Hung(h, t) # o.cur
      BY <1>1, CleanCur
<1>4. \A p, q \in Roots(o, h, r) : k \in sub[p] /\ k \in sub[q] => p = q
      BY <1>2, Apiece
<1>5. ASSUME NEW t \in {0, 1}, k \in sub[Hung(h, t)], k \in sub[o.victim] PROVE FALSE
  <2>1. Hung(h, t) = o.victim /\ o.victim # 0
        BY <1>1, <1>2, <1>4, <1>5
  <2>2. \A a \in sub[o.cur] \union sub[Hung(h, 0)] \union sub[Hung(h, 1)] : a < o.victim
        BY <2>1 DEF Pieces
  <2>3. o.victim \in Nat /\ o.victim \in sub[Hung(h, t)]
        BY <1>1, <2>1, SplayKeysFacts
  <2>4. sub[Hung(h, t)] \subseteq sub[Hung(h, 0)] \union sub[Hung(h, 1)]
        OBVIOUS
  <2> QED BY <2>2, <2>3, <2>4
<1>6. ASSUME NEW t \in {0, 1}, k \in sub[Hung(h, t)], k \in sub[Hung(h, 1 - t)] PROVE FALSE
  <2>1. Apart(o) /\ k \in Nat /\ o.key \in Nat
        BY <1>1, <1>6, SplayKeysFacts
  <2>2. 1 - t \in {0, 1} /\ 1 - t # t
        OBVIOUS
  <2>3. Before(t, k, o.key) /\ Before(1 - t, k, o.key)
        BY <1>6, <2>1, <2>2 DEF Sides
  <2> QED BY <2>1, <2>2, <2>3 DEF Before
<1>7. k \in sub[o.cur] => k \notin sub[o.victim]
      BY <1>2, <1>3, <1>4
<1>8. k \in sub[o.cur] => \A t \in {0, 1} : k \notin sub[Hung(h, t)]
      BY <1>2, <1>3, <1>4, ZenonT(30)
<1> QED BY <1>5, <1>6, <1>7, <1>8

\* What top_down_splay() knows as it hangs the root x, with what is on side s to
\* be looked at next, under the node t.
Hanging(o, h, r, sub, x, s, q, t) ==
    /\ SplayTree(o, h, r, sub) /\ o.pc = "splay" /\ x = o.cur /\ o.key # x
    /\ s = (IF o.key < x THEN 0 ELSE 1)
    /\ q = h[x].link[s] /\ q # 0 /\ t = o.tmax[s]

LEMMA HangingFacts ==
    ASSUME NEW o, NEW h, NEW r, NEW sub, NEW x, NEW s, NEW q, NEW t,
           Hanging(o, h, r, sub, x, s, q, t)
    PROVE  /\ SplayTree(o, h, r, sub)
           /\ SplayOp(o, r) /\ SplayHeap(o, h) /\ Pieces(o, h, r, sub) /\ Sides(o, h, sub)
           /\ SearchTree(Keys, Cut(o, h), sub)
           /\ x = o.cur /\ t = o.tmax[s] /\ q = h[x].link[s] /\ o.pc = "splay"
           /\ x \in Keys /\ q \in Keys /\ q # x /\ s \in {0, 1} /\ 1 - s \in {0, 1}
           /\ s # 1 - s /\ Apart(o) /\ ~AtCaller(o) /\ h \in Heaps(Keys \union {0})
           /\ t \in Keys \union {-1} /\ x # t /\ q # t /\ t # o.victim /\ x # o.victim
           /\ o.tmax[1 - s] \in Keys \union {-1} /\ o.tmax[1 - s] # x
           /\ \A u \in {0, 1} : ~CutAt(o, x, u) /\ Cut(o, h)[x].link[u] = h[x].link[u]
           /\ h[q].up = x
<1>1. /\ SplayTree(o, h, r, sub) /\ Ups(o, h, r)
      /\ SplayOp(o, r) /\ SplayHeap(o, h) /\ Pieces(o, h, r, sub) /\ Sides(o, h, sub)
      /\ SearchTree(Keys, Cut(o, h), sub)
      /\ x = o.cur /\ t = o.tmax[s] /\ q = h[x].link[s] /\ o.pc = "splay" /\ q # 0
      BY DEF Hanging, SplayTree, Pieces
<1>2. s \in {0, 1} /\ 1 - s \in {0, 1} /\ s # 1 - s
      BY DEF Hanging
<1>3. Turning(o, h, r, sub, x, s, q)
      BY <1>1, <1>2 DEF Turning
<1>4. /\ x \in Keys /\ q \in Keys /\ q # x /\ Apart(o) /\ ~AtCaller(o)
      /\ h \in Heaps(Keys \union {0}) /\ x \in sub[x] /\ q \in sub[x]
      BY <1>3, TurningFacts
<1>5. \A u \in {0, 1} : o.tmax[u] \in Keys \union {-1}
      BY <1>1, <1>4 DEF SplayOp
<1>6. \A u \in {0, 1} : o.tmax[u] # o.victim
      BY <1>3, TurningAbove
<1>7. \A y \in {x, q} : /\ y # o.victim
                        /\ \A u \in {0, 1} : /\ y # o.tmax[u] /\ ~CutAt(o, y, u)
                                             /\ Cut(o, h)[y].link[u] = h[y].link[u]
      BY <1>1, <1>4, CleanCur
<1>8. h[q].up = x
      BY <1>1, <1>2, <1>4, <1>7, Zenon DEF Ups
<1> QED BY <1>1, <1>2, <1>4, <1>5, <1>6, <1>7, <1>8, Zenon

\* The nodes and the call after it.
HungTo(o, h, o2, g, x, s, q, t) ==
    /\ g = [h EXCEPT ![t].link[s] = x, ![x].up = IF t = -1 THEN 0 ELSE t]
    /\ o2 = [o EXCEPT !.cur = q, !.tmax[s] = x]

HungSub(o, h, sub, x, s, t) ==
    IF t = -1 THEN Pruned(sub, Cut(o, h), x, s)
              ELSE Grafted(Pruned(sub, Cut(o, h), x, s), t, x)

HungNodes(h, g, x, s, t) ==
    \A y \in Keys \union {-1} :
       /\ g[y].max = h[y].max
       /\ g[y].up = IF y = x THEN (IF t = -1 THEN 0 ELSE t) ELSE h[y].up
       /\ \A u \in {0, 1} : g[y].link[u] = IF y = t /\ u = s THEN x ELSE h[y].link[u]

LEMMA HungToIs ==
    ASSUME NEW o, NEW h, NEW r, NEW sub, NEW x, NEW s, NEW q, NEW t, NEW o2, NEW g,
           Hanging(o, h, r, sub, x, s, q, t), HungTo(o, h, o2, g, x, s, q, t)
    PROVE  /\ g \in Heaps(Keys \union {0}) /\ SplayHeap(o2, g)
           /\ HungNodes(h, g, x, s, t)
           /\ o2.pc = "splay" /\ o2.call = o.call /\ o2.key = o.key /\ o2.cur = q
           /\ o2.tmax[s] = x /\ o2.tmax[1 - s] = o.tmax[1 - s]
           /\ o2.victim = o.victim /\ o2.ret = o.ret
           /\ Apart(o2) /\ ~AtCaller(o2)
           /\ SplayOp(o2, r)
           /\ \A y \in Keys, u \in {0, 1} : CutAt(o2, y, u) <=>
                 \/ y = x /\ u = s
                 \/ CutAt(o, y, u) /\ ~(y = t /\ u = s)
<1>0. /\ SplayOp(o, r) /\ SplayHeap(o, h)
      /\ t = o.tmax[s] /\ o.pc = "splay"
      /\ x \in Keys /\ q \in Keys /\ q # x /\ s \in {0, 1} /\ 1 - s \in {0, 1}
      /\ s # 1 - s /\ Apart(o) /\ ~AtCaller(o) /\ h \in Heaps(Keys \union {0})
      /\ t \in Keys \union {-1} /\ x # t /\ t # o.victim
      BY HangingFacts
<1> DEFINE p == IF t = -1 THEN 0 ELSE t
           m == [h EXCEPT ![t].link[s] = x]
<1>1. /\ g = [m EXCEPT ![x].up = p] /\ p \in Keys \union {0}
      BY <1>0 DEF HungTo
<1>2. m \in Heaps(Keys \union {0}) /\ LinkPut(h, m, t, s, x)
      BY <1>0, PutLink
<1> HIDE DEF m, p
<1>3. g \in Heaps(Keys \union {0}) /\ UpPut(m, g, x, p)
      BY <1>0, <1>1, <1>2, PutUp
<1>4. HungNodes(h, g, x, s, t)
      BY <1>2, <1>3 DEF LinkPut, UpPut, HungNodes, p
<1>5. /\ o2.pc = "splay" /\ o2.call = o.call /\ o2.key = o.key /\ o2.cur = q
      /\ o2.tmax[s] = x /\ o2.tmax[1 - s] = o.tmax[1 - s]
      /\ o2.victim = o.victim /\ o2.ret = o.ret
      BY <1>0 DEF HungTo, SplayOp
<1>6. Apart(o2) /\ ~AtCaller(o2)
      BY <1>5 DEF Apart, AtCaller
<1>7. SplayOp(o2, r)
  <2>1. o2 \in [pc : {"idle", "start", "splay", "assemble", "climb", "splayed", "done"},
              call : {"none", "insert", "remove", "lookup"},
              key : Keys \union {0}, cur : Keys \union {0},
              tmax : [{0, 1} -> Keys \union {0, -1}],
              victim : Keys \union {0}, ret : {"none", "yes", "no"}]
        BY <1>0 DEF HungTo, SplayOp
  <2>2. \A u \in {0, 1} : o2.tmax[u] # 0
    <3>1. \A u \in {0, 1} : u = s \/ u = 1 - s BY <1>0
    <3>2. \A u \in {0, 1} : o.tmax[u] # 0 BY <1>0 DEF SplayOp
    <3> QED BY <1>0, <1>5, <3>1, <3>2, SplayKeysFacts
  <2> QED BY <1>0, <1>5, <1>6, <2>1, <2>2, SplayKeysFacts DEF SplayOp
<1>8. ASSUME NEW y \in Keys, NEW u \in {0, 1}
      PROVE  CutAt(o2, y, u) <=> \/ y = x /\ u = s
                                 \/ CutAt(o, y, u) /\ ~(y = t /\ u = s)
  <2>1. CASE u = s
        BY <1>0, <1>5, <1>6, <2>1 DEF CutAt
  <2>2. CASE u = 1 - s
        BY <1>0, <1>5, <1>6, <2>2 DEF CutAt
  <2> QED BY <1>0, <2>1, <2>2
<1>9. SplayHeap(o2, g)
      BY <1>3, <1>6 DEF SplayHeap, Heaps, SplayNode
<1> QED BY <1>3, <1>4, <1>5, <1>6, <1>7, <1>8, <1>9

\* What is under which node after it.
LEMMA HungTree ==
    ASSUME NEW o, NEW h, NEW r, NEW sub, NEW x, NEW s, NEW q, NEW t, NEW o2, NEW g,
           Hanging(o, h, r, sub, x, s, q, t), HungTo(o, h, o2, g, x, s, q, t),
           NEW new, new = HungSub(o, h, sub, x, s, t)
    PROVE  /\ SearchTree(Keys, Cut(o2, g), new)
           /\ new[x] = {x} \union sub[h[x].link[1 - s]]
           /\ sub[x] = new[x] \union sub[q]
           /\ new[x] \intersect sub[q] = {}
           /\ \A y \in Keys \union {0} : y # x =>
                 new[y] = IF t \in sub[y] THEN sub[y] \union new[x] ELSE sub[y]
<1> DEFINE mid == [y \in Keys |-> [link |-> [u \in {0, 1} |->
                      IF y = x /\ u = s THEN 0 ELSE Cut(o, h)[y].link[u]]]]
           m1 == Pruned(sub, Cut(o, h), x, s)
<1>0. /\ SplayOp(o, r) /\ SplayHeap(o, h) /\ Pieces(o, h, r, sub) /\ Sides(o, h, sub)
      /\ SearchTree(Keys, Cut(o, h), sub)
      /\ x = o.cur /\ t = o.tmax[s] /\ q = h[x].link[s]
      /\ x \in Keys /\ q \in Keys /\ q # x /\ s \in {0, 1} /\ 1 - s \in {0, 1}
      /\ s # 1 - s /\ Apart(o) /\ ~AtCaller(o)
      /\ t \in Keys \union {-1} /\ x # t
      /\ \A u \in {0, 1} : ~CutAt(o, x, u) /\ Cut(o, h)[x].link[u] = h[x].link[u]
      BY HangingFacts
<1>1. /\ HungNodes(h, g, x, s, t)
      /\ \A y \in Keys, u \in {0, 1} : CutAt(o2, y, u) <=>
            \/ y = x /\ u = s
            \/ CutAt(o, y, u) /\ ~(y = t /\ u = s)
      BY HungToIs
<1>2. /\ sub \in [Keys \union {0} -> SUBSET Keys] /\ sub[0] = {}
      /\ \A y \in Keys : y \in sub[y]
      /\ \A u \in {0, 1} : Hung(h, u) \in Keys \union {0}
      BY <1>0, Trees
<1>3. x \in Roots(o, h, r) /\ Hung(h, s) \in Roots(o, h, r)
      BY <1>0 DEF Roots
<1>4. \A y \in Keys : /\ x \in sub[y] => y = x
                      /\ \A u \in {0, 1} : Cut(o, h)[y].link[u] # x
      BY <1>0, <1>3, Tops
<1>5. /\ sub[x] = {x} \union sub[q] \union sub[h[x].link[1 - s]]
      /\ sub[q] \intersect sub[h[x].link[1 - s]] = {} /\ x \notin sub[q]
  <2>1. sub[x] = {x} \union sub[h[x].link[0]] \union sub[h[x].link[1]]
        BY <1>0 DEF SearchTree
  <2>2. \A k : k \in sub[h[x].link[s]] /\ k \in sub[h[x].link[1 - s]] => s = 1 - s
        BY <1>0, OneSide
  <2>3. (s = 0 /\ 1 - s = 1) \/ (s = 1 /\ 1 - s = 0)
        BY <1>0, OtherSide, Zenon
  <2>4. x \notin sub[q]
        BY <1>0, NodeFacts
  <2> QED BY <1>0, <2>1, <2>2, <2>3, <2>4, Zenon
<1>6. /\ m1[x] = {x} \union sub[h[x].link[1 - s]]
      /\ \A y \in Keys \union {0} : y # x => m1[y] = sub[y]
      BY <1>0, <1>2, Zenon DEF Pruned
<1>7. \A y \in Keys, u \in {0, 1} :
         mid[y].link[u] = IF y = x /\ u = s THEN 0 ELSE Cut(o, h)[y].link[u]
      OBVIOUS
<1> HIDE DEF mid
<1>8. SearchTree(Keys, mid, m1)
  <2>1. LinkSet(Keys, Cut(o, h), mid, x, s, 0)
        BY <1>7 DEF LinkSet
  <2> QED BY <1>0, <1>4, <2>1, PruneTree
<1> HIDE DEF m1
<1>9. ASSUME NEW y \in Keys, NEW u \in {0, 1}
      PROVE  Cut(o2, g)[y].link[u] = IF y = t /\ u = s THEN x ELSE mid[y].link[u]
  <2>1. Cut(o2, g)[y].link[u] = IF CutAt(o2, y, u) THEN 0 ELSE g[y].link[u]
        BY CutIs
  <2>2. Cut(o, h)[y].link[u] = IF CutAt(o, y, u) THEN 0 ELSE h[y].link[u]
        BY CutIs
  <2>3. g[y].link[u] = IF y = t /\ u = s THEN x ELSE h[y].link[u]
        BY <1>1 DEF HungNodes
  <2> QED BY <1>0, <1>1, <1>7, <2>1, <2>2, <2>3
<1>10. CASE t = -1
  <2>1. new = m1
        BY <1>10 DEF HungSub, m1
  <2>2. \A y \in Keys, u \in {0, 1} : Cut(o2, g)[y].link[u] = mid[y].link[u]
        BY <1>9, <1>10, SplayKeysFacts
  <2>3. SearchTree(Keys, Cut(o2, g), new)
        BY <1>8, <2>1, <2>2, SameLinks
  <2>4. \A y \in Keys \union {0} : t \notin sub[y]
        BY <1>2, <1>10, SplayKeysFacts, Zenon
  <2> QED BY <1>5, <1>6, <2>1, <2>3, <2>4
<1>11. CASE t # -1
  <2>1. new = Grafted(m1, t, x) /\ t \in Keys
        BY <1>0, <1>11 DEF HungSub, m1
  <2>2. /\ t \in sub[Hung(h, s)]
        /\ \A a \in sub[Hung(h, s)] \ {t} : Before(s, a, t)
        /\ \A a \in sub[Hung(h, s)] : \A c \in sub[x] : Before(s, a, c)
    <3>1. Hung(h, s) # 0
          BY <1>0, <1>11 DEF Sides
    <3> QED BY <1>0, <3>1 DEF Sides
  <2>3. mid[t].link[s] = 0
    <3>1. CutAt(o, t, s) BY <1>0 DEF CutAt
    <3>2. Cut(o, h)[t].link[s] = 0 BY <1>0, <2>1, <3>1, CutIs
    <3> QED BY <1>0, <1>7, <2>1, <3>2
  <2>4. m1[x] \subseteq sub[x]
        BY <1>5, <1>6
  <2>5. \A y \in Keys : t \in m1[y] => y \in sub[Hung(h, s)]
    <3> SUFFICES ASSUME NEW y \in Keys, t \in m1[y] PROVE y \in sub[Hung(h, s)]
        OBVIOUS
    <3>1. t \in sub[y]
          BY <1>6, <2>4
    <3> QED BY <1>0, <1>3, <2>2, <3>1, Apiece
  <2>6. \A k \in m1[x] : IF s = 0 THEN k < t ELSE k > t
    <3> TAKE k \in m1[x]
    <3>1. Before(s, t, k) BY <2>2, <2>4
    <3>2. k \in Nat /\ t \in Nat BY <1>0, <1>2, <2>1, <2>4, SplayKeysFacts
    <3> QED BY <1>0, <3>1, <3>2 DEF Before
  <2>7. ASSUME NEW y \in Keys, NEW u \in {0, 1}, t \in m1[mid[y].link[u]], NEW k \in m1[x]
        PROVE  IF u = 0 THEN k < y ELSE k > y
    <3>1. /\ t # y /\ (IF u = 0 THEN t < y ELSE t > y) /\ t \in m1[y]
      <4>1. (IF u = 0 THEN t < y ELSE t > y)
            BY <1>8, <2>7 DEF SearchTree
      <4>2. t \in m1[y] BY <1>8, <2>7, NodeFacts
      <4>3. t \in Nat /\ y \in Nat BY <2>1, SplayKeysFacts
      <4> QED BY <4>1, <4>2, <4>3
    <3>2. Before(s, y, t) /\ Before(s, y, k)
          BY <2>2, <2>4, <2>5, <3>1
    <3>3. k \in Nat /\ t \in Nat /\ y \in Nat BY <1>0, <1>2, <2>1, <2>4, SplayKeysFacts
    <3> QED BY <1>0, <3>1, <3>2, <3>3 DEF Before
  <2>8. LinkSet(Keys, mid, Cut(o2, g), t, s, x)
        BY <1>9, Zenon DEF LinkSet
  <2>9. SearchTree(Keys, Cut(o2, g), new)
        BY <1>0, <1>8, <2>1, <2>3, <2>6, <2>7, <2>8, GraftTree
  <2>10. \A y \in Keys \union {0} : new[y] = IF t \in m1[y] THEN m1[y] \union m1[x] ELSE m1[y]
    <3>1. DOMAIN m1 = Keys \union {0} BY <1>8 DEF SearchTree
    <3> QED BY <2>1, <3>1 DEF Grafted
  <2>11. t \notin m1[x]
    <3>1. t \notin sub[x]
          BY <1>0, <2>1, <2>2, Distinct
    <3> QED BY <2>4, <3>1
  <2>12. new[x] = m1[x]
        BY <1>0, <2>10, <2>11
  <2>13. \A y \in Keys \union {0} : y # x =>
                 new[y] = IF t \in sub[y] THEN sub[y] \union new[x] ELSE sub[y]
        BY <1>6, <2>10, <2>12
  <2> QED BY <1>5, <1>6, <2>9, <2>12, <2>13
<1> QED BY <1>10, <1>11

\* The pieces are the old ones, but the keys that went from one to another.
HungKeys(o, h, g, sub, new, x, s, q, t) ==
    /\ new[q] = sub[q] /\ new[o.victim] = sub[o.victim]
    /\ Hung(g, s) = IF t = -1 THEN x ELSE Hung(h, s)
    /\ new[Hung(g, s)] = sub[Hung(h, s)] \union new[x]
    /\ Hung(g, 1 - s) = Hung(h, 1 - s)
    /\ new[Hung(h, 1 - s)] = sub[Hung(h, 1 - s)]

LEMMA HungPieces ==
    ASSUME NEW o, NEW h, NEW r, NEW sub, NEW x, NEW s, NEW q, NEW t, NEW o2, NEW g,
           Hanging(o, h, r, sub, x, s, q, t), HungTo(o, h, o2, g, x, s, q, t),
           NEW new, new = HungSub(o, h, sub, x, s, t)
    PROVE  /\ HungKeys(o, h, g, sub, new, x, s, q, t)
           /\ All(o2, g, r, new) = All(o, h, r, sub)
<1>0. /\ SplayOp(o, r) /\ SplayHeap(o, h) /\ Pieces(o, h, r, sub) /\ Sides(o, h, sub)
      /\ x = o.cur /\ t = o.tmax[s] /\ x # o.victim
      /\ x \in Keys /\ q \in Keys /\ q # x /\ s \in {0, 1} /\ 1 - s \in {0, 1}
      /\ s # 1 - s /\ Apart(o) /\ ~AtCaller(o)
      /\ t \in Keys \union {-1} /\ x # t
      BY HangingFacts
<1>1. /\ sub[x] = new[x] \union sub[q]
      /\ \A y \in Keys \union {0} : y # x =>
            new[y] = IF t \in sub[y] THEN sub[y] \union new[x] ELSE sub[y]
      BY HungTree
<1>2. /\ sub \in [Keys \union {0} -> SUBSET Keys] /\ sub[0] = {}
      /\ \A y \in Keys : y \in sub[y]
      /\ o.victim \in Keys \union {0}
      /\ \A u \in {0, 1} : Hung(h, u) \in Keys \union {0}
      BY <1>0, Trees
<1>3. /\ HungNodes(h, g, x, s, t) /\ o2.cur = q /\ o2.victim = o.victim /\ ~AtCaller(o2)
      BY HungToIs
<1>4. x # Hung(h, 0) /\ x # Hung(h, 1)
      BY <1>0, <1>2, CleanCur
<1>5. t # -1 => t \in sub[Hung(h, s)]
      BY <1>0 DEF Sides
<1>6. t = -1 => Hung(h, s) = 0 /\ \A y \in Keys \union {0} : t \notin sub[y]
  <2>1. t = -1 => Hung(h, s) = 0
        BY <1>0 DEF Sides
  <2> QED BY <1>2, <2>1, SplayKeysFacts
<1>7. t \notin sub[q] /\ t \notin sub[o.victim] /\ t \notin sub[Hung(h, 1 - s)]
  <2>1. CASE t = -1
        BY <1>0, <1>2, <1>6, <2>1
  <2>2. CASE t # -1
    <3>1. t \in Keys /\ t \in sub[Hung(h, s)] BY <1>0, <1>5, <2>2
    <3>2. t \notin sub[x] /\ t \notin sub[o.victim] /\ t \notin sub[Hung(h, 1 - s)]
          BY <1>0, <3>1, Distinct
    <3> QED BY <1>1, <3>2
  <2> QED BY <2>1, <2>2
<1>8. /\ Hung(g, s) = IF t = -1 THEN x ELSE Hung(h, s)
      /\ Hung(g, 1 - s) = Hung(h, 1 - s)
  <2>1. \A u \in {0, 1} : g[-1].link[u] = IF -1 = t /\ u = s THEN x ELSE h[-1].link[u]
        BY <1>3 DEF HungNodes
  <2> QED BY <1>0, <2>1 DEF Hung
<1>9. new[q] = sub[q] /\ new[o.victim] = sub[o.victim]
      /\ new[Hung(h, 1 - s)] = sub[Hung(h, 1 - s)]
  <2>1. Hung(h, 1 - s) # x /\ Hung(h, 1 - s) \in Keys \union {0}
        BY <1>0, <1>2, <1>4
  <2> QED BY <1>0, <1>1, <1>2, <1>7, <2>1, Zenon
<1>10. new[Hung(g, s)] = sub[Hung(h, s)] \union new[x]
  <2>1. CASE t = -1
        BY <1>2, <1>6, <1>8, <2>1
  <2>2. CASE t # -1
    <3>1. Hung(h, s) # x /\ Hung(h, s) \in Keys \union {0}
          BY <1>0, <1>2, <1>4
    <3> QED BY <1>1, <1>5, <1>8, <2>2, <3>1
  <2> QED BY <2>1, <2>2
<1>11. All(o2, g, r, new) = All(o, h, r, sub)
  <2>1. All(o2, g, r, new) = new[q] \union new[o.victim] \union new[Hung(g, 0)]
                                    \union new[Hung(g, 1)]
        BY <1>3 DEF All
  <2>2. All(o, h, r, sub) = sub[x] \union sub[o.victim] \union sub[Hung(h, 0)]
                                   \union sub[Hung(h, 1)]
        BY <1>0 DEF All
  <2>3. new[Hung(g, 1 - s)] = sub[Hung(h, 1 - s)]
        BY <1>8, <1>9
  <2>4. (s = 0 /\ 1 - s = 1) \/ (s = 1 /\ 1 - s = 0)
        BY <1>0, OtherSide
  <2>5. CASE s = 0 /\ 1 - s = 1
        BY <1>1, <1>9, <1>10, <2>1, <2>2, <2>3, <2>5
  <2>6. CASE s = 1 /\ 1 - s = 0
        BY <1>1, <1>9, <1>10, <2>1, <2>2, <2>3, <2>6
  <2> QED BY <2>4, <2>5, <2>6
<1> QED BY <1>8, <1>9, <1>10, <1>11 DEF HungKeys

LEMMA HungSides ==
    ASSUME NEW o, NEW h, NEW r, NEW sub, NEW x, NEW s, NEW q, NEW t, NEW o2, NEW g,
           Hanging(o, h, r, sub, x, s, q, t), HungTo(o, h, o2, g, x, s, q, t),
           NEW new, new = HungSub(o, h, sub, x, s, t)
    PROVE  Sides(o2, g, new)
<1>0. /\ SplayOp(o, r) /\ SplayHeap(o, h) /\ Pieces(o, h, r, sub) /\ Sides(o, h, sub)
      /\ SearchTree(Keys, Cut(o, h), sub)
      /\ x = o.cur /\ t = o.tmax[s] /\ q = h[x].link[s]
      /\ x \in Keys /\ q \in Keys /\ q # x /\ s \in {0, 1} /\ 1 - s \in {0, 1}
      /\ s # 1 - s /\ Apart(o) /\ ~AtCaller(o)
      /\ t \in Keys \union {-1} /\ x # t
      /\ \A u \in {0, 1} : Cut(o, h)[x].link[u] = h[x].link[u]
      BY HangingFacts
<1>1. /\ new[x] = {x} \union sub[h[x].link[1 - s]]
      /\ sub[x] = new[x] \union sub[q]
      BY HungTree
<1>2. /\ new[q] = sub[q]
      /\ Hung(g, s) = IF t = -1 THEN x ELSE Hung(h, s)
      /\ new[Hung(g, s)] = sub[Hung(h, s)] \union new[x]
      /\ Hung(g, 1 - s) = Hung(h, 1 - s)
      /\ new[Hung(h, 1 - s)] = sub[Hung(h, 1 - s)]
  <2>1. HungKeys(o, h, g, sub, new, x, s, q, t) BY HungPieces
  <2> QED BY <2>1 DEF HungKeys
<1>3. /\ o2.key = o.key /\ o2.cur = q /\ Apart(o2)
      /\ o2.tmax[s] = x /\ o2.tmax[1 - s] = o.tmax[1 - s]
      BY HungToIs
<1>4. /\ sub \in [Keys \union {0} -> SUBSET Keys] /\ sub[0] = {}
      /\ \A y \in Keys : y \in sub[y]
      /\ o.key \in Keys
      /\ \A u \in {0, 1} : Hung(h, u) \in Keys \union {0}
      BY <1>0, Trees
<1>5. s = (IF o.key < x THEN 0 ELSE 1) /\ o.key # x
      BY DEF Hanging
<1>6. x \in Nat /\ o.key \in Nat /\ x # 0 /\ x # -1
      BY <1>0, <1>4, SplayKeysFacts
<1>7. \A k \in sub[h[x].link[1 - s]] : k \in Nat /\ Before(s, k, x)
  <2> TAKE k \in sub[h[x].link[1 - s]]
  <2>1. IF 1 - s = 0 THEN k < x ELSE k > x
        BY <1>0, ZenonT(30) DEF SearchTree
  <2>2. k \in sub[x] BY <1>1
  <2>3. k \in Nat BY <1>0, <1>4, <2>2, SplayKeysFacts
  <2> QED BY <1>0, <2>1, <2>3, OtherSide DEF Before
<1>8. \A c \in sub[q] : c \in Nat /\ Before(s, x, c)
  <2> TAKE c \in sub[q]
  <2>1. IF s = 0 THEN c < x ELSE c > x
        BY <1>0, ZenonT(30) DEF SearchTree
  <2>2. c \in Nat BY <1>0, <1>4, SplayKeysFacts
  <2> QED BY <1>0, <2>1, <2>2, OtherSide DEF Before
<1>9. Before(s, x, o.key)
      BY <1>5, <1>6 DEF Before
<1>10. \A a \in new[x] : /\ Before(s, a, o.key)
                         /\ a # x => Before(s, a, x)
                         /\ \A c \in sub[q] : Before(s, a, c)
  <2> TAKE a \in new[x]
  <2>1. CASE a = x
        BY <1>8, <1>9, <2>1
  <2>2. CASE a # x
    <3>1. a \in Nat /\ Before(s, a, x)
          BY <1>1, <1>7, <2>2
    <3>2. Before(s, a, o.key)
          BY <1>6, <1>9, <3>1 DEF Before
    <3>3. \A c \in sub[q] : Before(s, a, c)
      <4> TAKE c \in sub[q]
      <4>1. c \in Nat /\ Before(s, x, c) BY <1>8
      <4> QED BY <1>6, <3>1, <4>1 DEF Before
    <3> QED BY <3>1, <3>2, <3>3
  <2> QED BY <2>1, <2>2
<1>11. \A a \in sub[Hung(h, s)] : Before(s, a, o.key) /\ \A c \in sub[x] : Before(s, a, c)
       BY <1>0 DEF Sides
<1>12. /\ \A a \in new[Hung(g, s)] : /\ Before(s, a, o2.key)
                                     /\ \A c \in new[q] : Before(s, a, c)
       /\ Hung(g, s) # 0 /\ o2.tmax[s] # -1
       /\ o2.tmax[s] \in new[Hung(g, s)]
       /\ \A a \in new[Hung(g, s)] \ {o2.tmax[s]} : Before(s, a, o2.tmax[s])
  <2>1. \A a \in new[Hung(g, s)] : Before(s, a, o.key) /\ \A c \in sub[q] : Before(s, a, c)
        BY <1>1, <1>2, <1>10, <1>11, ZenonT(30)
  <2>2. \A a \in new[Hung(g, s)] : a # x => Before(s, a, x)
        BY <1>0, <1>2, <1>4, <1>10, <1>11, Zenon
  <2>3. Hung(g, s) # 0
    <3>1. t # -1 => Hung(h, s) # 0
          BY <1>0 DEF Sides
    <3> QED BY <1>2, <1>6, <3>1
  <2>4. x \in new[Hung(g, s)]
        BY <1>1, <1>2
  <2> QED BY <1>2, <1>3, <1>6, <2>1, <2>2, <2>3, <2>4
<1>13. /\ \A a \in new[Hung(g, 1 - s)] : /\ Before(1 - s, a, o2.key)
                                         /\ \A c \in new[q] : Before(1 - s, a, c)
       /\ o2.tmax[1 - s] = -1 <=> Hung(g, 1 - s) = 0
       /\ Hung(g, 1 - s) # 0 =>
             /\ o2.tmax[1 - s] \in new[Hung(g, 1 - s)]
             /\ \A a \in new[Hung(g, 1 - s)] \ {o2.tmax[1 - s]} :
                   Before(1 - s, a, o2.tmax[1 - s])
  <2> DEFINE H == Hung(h, 1 - s)
  <2>1. /\ \A a \in sub[H] : /\ Before(1 - s, a, o.key)
                             /\ \A c \in sub[x] : Before(1 - s, a, c)
        /\ o.tmax[1 - s] = -1 <=> H = 0
        /\ H # 0 => /\ o.tmax[1 - s] \in sub[H]
                    /\ \A a \in sub[H] \ {o.tmax[1 - s]} : Before(1 - s, a, o.tmax[1 - s])
        BY <1>0 DEF Sides
  <2>2. Hung(g, 1 - s) = H /\ new[H] = sub[H] /\ new[q] = sub[q] /\ sub[q] \subseteq sub[x]
        BY <1>1, <1>2
  <2> HIDE DEF H
  <2> QED BY <1>3, <2>1, <2>2
<1>14. \A u \in {0, 1} : u = s \/ u = 1 - s
       BY <1>0, OtherSide
<1> SUFFICES ASSUME NEW u \in {0, 1}
             PROVE  /\ \A a \in new[Hung(g, u)] :
                          /\ Before(u, a, o2.key)
                          /\ \A c \in new[o2.cur] : Before(u, a, c)
                    /\ o2.tmax[u] = -1 <=> Hung(g, u) = 0
                    /\ Hung(g, u) # 0 =>
                          /\ o2.tmax[u] \in new[Hung(g, u)]
                          /\ \A a \in new[Hung(g, u)] \ {o2.tmax[u]} : Before(u, a, o2.tmax[u])
    BY DEF Sides
<1>15. CASE u = s
       BY <1>3, <1>12, <1>15
<1>16. CASE u = 1 - s
       BY <1>3, <1>13, <1>16
<1> QED BY <1>14, <1>15, <1>16

\* While a victim waits there is no tree of greater keys.
LEMMA VictimSide ==
    ASSUME NEW o, NEW h, NEW r, NEW sub, SplayOp(o, r), SplayHeap(o, h),
           Pieces(o, h, r, sub), Sides(o, h, sub), Apart(o), o.victim # 0
    PROVE  /\ o.victim \in Keys /\ o.key = o.victim
           /\ Hung(h, 0) = 0 /\ o.tmax[0] = -1
           /\ \A k \in sub[o.cur] : k < o.key
<1>1. /\ sub[0] = {} /\ o.victim \in Keys \union {0}
      /\ \A y \in Keys : y \in sub[y]
      /\ \A s \in {0, 1} : Hung(h, s) \in Keys \union {0}
      BY Trees
<1>2. o.victim = o.key /\ o.victim \in Keys /\ o.key \in Nat
      BY <1>1, SplayKeysFacts DEF SplayOp
<1>3. \A a \in sub[o.cur] \union sub[Hung(h, 0)] \union sub[Hung(h, 1)] : a < o.victim
      BY DEF Pieces
<1>4. Hung(h, 0) = 0
  <2> SUFFICES ASSUME Hung(h, 0) # 0 PROVE FALSE
      OBVIOUS
  <2>1. Hung(h, 0) \in sub[Hung(h, 0)] /\ Hung(h, 0) \in Nat
        BY <1>1, SplayKeysFacts
  <2>2. Before(0, Hung(h, 0), o.key)
        BY <2>1 DEF Sides
  <2>3. Hung(h, 0) < o.key
        BY <1>2, <1>3, <2>1
  <2> QED BY <1>2, <2>1, <2>2, <2>3 DEF Before
<1>5. o.tmax[0] = -1
      BY <1>4, Zenon DEF Sides
<1> QED BY <1>2, <1>3, <1>4, <1>5

LEMMA HungStale ==
    ASSUME NEW o, NEW h, NEW r, NEW sub, NEW x, NEW s, NEW q, NEW t, NEW o2, NEW g,
           Hanging(o, h, r, sub, x, s, q, t), HungTo(o, h, o2, g, x, s, q, t),
           NEW new, new = HungSub(o, h, sub, x, s, t)
    PROVE  Stale(o2, g, new)
<1>0. /\ SplayTree(o, h, r, sub)
      /\ SplayOp(o, r) /\ SplayHeap(o, h) /\ Pieces(o, h, r, sub) /\ Sides(o, h, sub)
      /\ x = o.cur /\ t = o.tmax[s] /\ q = h[x].link[s] /\ h[q].up = x
      /\ x \in Keys /\ q \in Keys /\ q # x /\ s \in {0, 1} /\ 1 - s \in {0, 1}
      /\ s # 1 - s /\ Apart(o) /\ ~AtCaller(o)
      /\ t \in Keys \union {-1} /\ x # t /\ t # o.victim /\ x # o.victim
      /\ o.tmax[1 - s] \in Keys \union {-1} /\ o.tmax[1 - s] # x
      BY HangingFacts
<1>1. /\ new[x] = {x} \union sub[h[x].link[1 - s]]
      BY HungTree
<1>2. /\ Hung(g, s) = IF t = -1 THEN x ELSE Hung(h, s)
      /\ new[Hung(g, s)] = sub[Hung(h, s)] \union new[x]
      /\ Hung(g, 1 - s) = Hung(h, 1 - s)
  <2>1. HungKeys(o, h, g, sub, new, x, s, q, t) BY HungPieces
  <2> QED BY <2>1 DEF HungKeys
<1>3. /\ HungNodes(h, g, x, s, t)
      /\ o2.cur = q /\ Apart(o2) /\ o2.victim = o.victim
      /\ o2.tmax[s] = x /\ o2.tmax[1 - s] = o.tmax[1 - s]
      BY HungToIs
<1>4. g[q].up = x /\ g[x].link[s] = q /\ x # -1
  <2>1. g[q].up = x
        BY <1>0, <1>3, Zenon DEF HungNodes
  <2>2. g[x].link[s] = q
        BY <1>0, <1>3 DEF HungNodes
  <2> QED BY <1>0, <2>1, <2>2, SplayKeysFacts, Zenon
<1>5. 1 - (1 - s) = s
      BY <1>0, OtherSide, Zenon
<1>6. \/ /\ \A u \in {0, 1} : o.tmax[u] = -1
         /\ o.victim # 0 => h[o.victim].link[0] = x
      \/ \E u \in {0, 1} :
            /\ o.tmax[u] # -1
            /\ h[o.tmax[u]].link[u] = x
            /\ o.tmax[1 - u] # -1 => h[o.tmax[1 - u]].link[1 - u] \in sub[Hung(h, u)]
            /\ o.victim # 0 => h[o.victim].link[0] = Hung(h, 1)
      BY <1>0 DEF SplayTree, Stale
<1>7. o.tmax[1 - s] # -1 => g[o.tmax[1 - s]].link[1 - s] \in new[Hung(g, s)]
  <2> SUFFICES ASSUME o.tmax[1 - s] # -1 PROVE g[o.tmax[1 - s]].link[1 - s] \in new[Hung(g, s)]
      OBVIOUS
  <2>1. g[o.tmax[1 - s]].link[1 - s] = h[o.tmax[1 - s]].link[1 - s]
        BY <1>0, <1>3, Zenon DEF HungNodes
  <2>2. PICK u \in {0, 1} :
            /\ h[o.tmax[u]].link[u] = x
            /\ o.tmax[1 - u] # -1 => h[o.tmax[1 - u]].link[1 - u] \in sub[Hung(h, u)]
        BY <1>0, <1>6
  <2>3. CASE u = s
        BY <1>2, <2>1, <2>2, <2>3
  <2>4. CASE u = 1 - s
        BY <1>1, <1>2, <2>1, <2>2, <2>4
  <2> QED BY <1>0, <2>3, <2>4, OtherSide
<1>8. o.victim # 0 => g[o.victim].link[0] = Hung(g, 1)
  <2> SUFFICES ASSUME o.victim # 0 PROVE g[o.victim].link[0] = Hung(g, 1)
      OBVIOUS
  <2>1. /\ o.victim \in Keys /\ o.tmax[0] = -1 /\ Hung(h, 0) = 0
        /\ \A k \in sub[x] : k < o.key
        BY <1>0, VictimSide
  <2>2. o.key \in Keys /\ x \in sub[x]
        BY <1>0, Trees
  <2>3. s = 1
    <3>1. s = IF o.key < x THEN 0 ELSE 1 BY DEF Hanging
    <3>2. x < o.key /\ x \in Nat /\ o.key \in Nat BY <1>0, <2>1, <2>2, SplayKeysFacts
    <3> QED BY <3>1, <3>2
  <2>4. g[o.victim].link[0] = h[o.victim].link[0]
        BY <1>3, <2>1, <2>3 DEF HungNodes
  <2>5. CASE t = -1
    <3>1. \A u \in {0, 1} : o.tmax[u] = -1
          BY <1>0, <2>1, <2>3, <2>5
    <3> QED BY <1>2, <1>6, <2>3, <2>4, <2>5, <3>1
  <2>6. CASE t # -1
    <3>1. h[o.victim].link[0] = Hung(h, 1)
          BY <1>0, <1>6, <2>6
    <3> QED BY <1>2, <2>3, <2>4, <2>6, <3>1, Zenon
  <2> QED BY <2>5, <2>6
<1> QED BY <1>0, <1>3, <1>4, <1>7, <1>8 DEF Stale

LEMMA HungUps ==
    ASSUME NEW o, NEW h, NEW r, NEW sub, NEW x, NEW s, NEW q, NEW t, NEW o2, NEW g,
           Hanging(o, h, r, sub, x, s, q, t), HungTo(o, h, o2, g, x, s, q, t)
    PROVE  Ups(o2, g, r)
<1>0. /\ SplayTree(o, h, r, sub)
      /\ SplayOp(o, r) /\ SplayHeap(o, h) /\ Pieces(o, h, r, sub) /\ Sides(o, h, sub)
      /\ x = o.cur /\ t = o.tmax[s]
      /\ x \in Keys /\ s \in {0, 1} /\ Apart(o) /\ ~AtCaller(o)
      /\ t \in Keys \union {-1}
      BY HangingFacts
<1>1. /\ HungNodes(h, g, x, s, t)
      /\ o2.pc = "splay" /\ ~AtCaller(o2)
      /\ \A y \in Keys, u \in {0, 1} : CutAt(o2, y, u) <=>
            \/ y = x /\ u = s
            \/ CutAt(o, y, u) /\ ~(y = t /\ u = s)
      BY HungToIs
<1>2. ASSUME NEW y \in Keys, NEW u \in {0, 1}, g[y].link[u] # 0, ~CutAt(o2, y, u)
      PROVE  g[g[y].link[u]].up = y
  <2>1. CASE y = t /\ u = s
        BY <1>0, <1>1, <2>1, SplayKeysFacts DEF HungNodes
  <2>2. CASE ~(y = t /\ u = s)
    <3> DEFINE z == h[y].link[u]
    <3>1. g[y].link[u] = z /\ z # 0 /\ ~CutAt(o, y, u)
          BY <1>1, <1>2, <2>2 DEF HungNodes
    <3>2. z \in Keys
          BY <1>0, <3>1, NodeTypes
    <3>3. h[z].up = y
          BY <1>0, <3>1 DEF SplayTree, Ups
    <3>4. z # x
      <4>1. x \in Roots(o, h, r) BY <1>0 DEF Roots
      <4>2. Cut(o, h)[y].link[u] = z BY <3>1, CutIs
      <4> QED BY <1>0, <4>1, <4>2, Tops
    <3> HIDE DEF z
    <3> QED BY <1>1, <3>1, <3>2, <3>3, <3>4 DEF HungNodes
  <2> QED BY <2>1, <2>2
<1> QED BY <1>1, <1>2 DEF Ups

LEMMA HungSizes ==
    ASSUME NEW o, NEW h, NEW r, NEW sub, NEW x, NEW s, NEW q, NEW t, NEW o2, NEW g,
           Hanging(o, h, r, sub, x, s, q, t), HungTo(o, h, o2, g, x, s, q, t),
           NEW new, new = HungSub(o, h, sub, x, s, t)
    PROVE  Sizes(o2, g, r, new)
<1>0. /\ SplayTree(o, h, r, sub)
      /\ SplayOp(o, r) /\ SplayHeap(o, h) /\ Pieces(o, h, r, sub)
      /\ x \in Keys /\ s \in {0, 1} /\ 1 - s \in {0, 1} /\ t = o.tmax[s]
      BY HangingFacts
<1>1. /\ new[x] = {x} \union sub[h[x].link[1 - s]]
      /\ \A y \in Keys \union {0} : y # x =>
            new[y] = IF t \in sub[y] THEN sub[y] \union new[x] ELSE sub[y]
      BY HungTree
<1>2. All(o2, g, r, new) = All(o, h, r, sub)
      BY HungPieces
<1>3. /\ HungNodes(h, g, x, s, t)
      /\ o2.pc = "splay" /\ o2.victim = o.victim
      /\ o2.tmax[s] = x /\ o2.tmax[1 - s] = o.tmax[1 - s]
      BY HungToIs
<1>4. All(o, h, r, sub) \subseteq Keys
      BY <1>0, Trees
<1>5. ASSUME NEW y \in All(o, h, r, sub), y # o.victim,
             \A u \in {0, 1} : o2.tmax[u] \notin new[y]
      PROVE  IsMax(g[y].max, new[y])
  <2>1. x \notin new[y] /\ o.tmax[1 - s] \notin new[y] /\ y # x /\ x \in new[x]
        BY <1>0, <1>1, <1>3, <1>5
  <2>2. t \notin sub[y] /\ new[y] = sub[y]
        BY <1>1, <1>4, <2>1
  <2>3. \A u \in {0, 1} : o.tmax[u] \notin sub[y]
        BY <1>0, <2>1, <2>2, OtherSide
  <2>4. IsMax(h[y].max, sub[y])
        BY <1>0, <1>5, <2>3 DEF SplayTree, Sizes
  <2> QED BY <1>3, <1>4, <2>2, <2>4 DEF HungNodes
<1> QED BY <1>2, <1>3, <1>5 DEF Sizes

LEMMA HungIs ==
    ASSUME NEW o, NEW h, NEW r, NEW sub, NEW x, NEW s, NEW q, NEW t, NEW o2, NEW g,
           Hanging(o, h, r, sub, x, s, q, t), HungTo(o, h, o2, g, x, s, q, t)
    PROVE  \E new : /\ SplayTree(o2, g, r, new)
                    /\ All(o2, g, r, new) = All(o, h, r, sub)
<1> DEFINE new == HungSub(o, h, sub, x, s, t)
<1> HIDE DEF new
<1>0. /\ SplayTree(o, h, r, sub)
      /\ SplayOp(o, r) /\ SplayHeap(o, h) /\ Pieces(o, h, r, sub)
      /\ x \in Keys /\ s \in {0, 1} /\ 1 - s \in {0, 1} /\ t = o.tmax[s]
      /\ x = o.cur /\ t \in Keys \union {-1} /\ Apart(o) /\ ~AtCaller(o)
      /\ Sides(o, h, sub)
      BY HangingFacts
<1>1. /\ SearchTree(Keys, Cut(o2, g), new)
      /\ sub[x] = new[x] \union sub[q]
      BY HungTree DEF new
<1>2. /\ new[q] = sub[q]
      /\ new[Hung(g, s)] = sub[Hung(h, s)] \union new[x]
      /\ Hung(g, 1 - s) = Hung(h, 1 - s)
      /\ new[Hung(h, 1 - s)] = sub[Hung(h, 1 - s)]
  <2>1. HungKeys(o, h, g, sub, new, x, s, q, t) BY HungPieces DEF new
  <2> QED BY <2>1 DEF HungKeys
<1>3. All(o2, g, r, new) = All(o, h, r, sub)
      BY HungPieces DEF new
<1>4. /\ SplayOp(o2, r) /\ SplayHeap(o2, g) /\ HungNodes(h, g, x, s, t)
      /\ o2.pc = "splay" /\ o2.victim = o.victim /\ o2.cur = q /\ ~AtCaller(o2)
      BY HungToIs
<1>5. Pieces(o2, g, r, new)
  <2>1. r \in All(o, h, r, sub)
        BY <1>0 DEF Pieces
  <2>2. ASSUME NEW y \in Keys \ All(o, h, r, sub) PROVE g[y] = NewNode
    <3>1. h[y] = NewNode BY <1>0, <2>2 DEF Pieces
    <3>2. y # x
          BY <1>0, <2>2, CleanCur, Trees
    <3>3. y # t
      <4>1. t # -1 => t \in sub[Hung(h, s)] BY <1>0 DEF Sides
      <4>2. sub[Hung(h, s)] \subseteq All(o, h, r, sub) BY <1>0 DEF All
      <4> QED BY <2>2, <4>1, <4>2, SplayKeysFacts
    <3>4. /\ g[y].up = h[y].up /\ g[y].max = h[y].max
          /\ \A u \in {0, 1} : g[y].link[u] = h[y].link[u]
          BY <1>4, <3>2, <3>3 DEF HungNodes
    <3>5. g[y] \in SplayNode BY <1>4, NodeTypes
    <3>6. NewNode.max = 0 BY DEF NewNode
    <3> QED BY <3>1, <3>4, <3>5, <3>6, SplayNewNodeIs, SplayBlank
  <2>3. o.victim # 0 =>
          \A a \in new[q] \union new[Hung(g, 0)] \union new[Hung(g, 1)] : a < o.victim
    <3>1. o.victim # 0 =>
            \A a \in sub[x] \union sub[Hung(h, 0)] \union sub[Hung(h, 1)] : a < o.victim
          BY <1>0 DEF Pieces
    <3>2. \A u \in {0, 1} : new[Hung(g, u)] \subseteq sub[x] \union sub[Hung(h, u)]
      <4>1. new[Hung(g, s)] \subseteq sub[x] \union sub[Hung(h, s)] BY <1>1, <1>2
      <4>2. new[Hung(g, 1 - s)] \subseteq sub[x] \union sub[Hung(h, 1 - s)] BY <1>2
      <4> QED BY <1>0, <4>1, <4>2, OtherSide
    <3>3. new[q] \subseteq sub[x]
          BY <1>1, <1>2
    <3>4. /\ new[Hung(g, 0)] \subseteq sub[x] \union sub[Hung(h, 0)]
          /\ new[Hung(g, 1)] \subseteq sub[x] \union sub[Hung(h, 1)]
          BY <3>2
    <3> QED BY <3>1, <3>3, <3>4
  <2> QED BY <1>1, <1>3, <1>4, <2>1, <2>2, <2>3 DEF Pieces
<1>6. Settled(o2, g, new)
      BY <1>4 DEF Settled
<1>7. /\ Sides(o2, g, new) /\ Stale(o2, g, new) /\ Ups(o2, g, r) /\ Sizes(o2, g, r, new)
      BY HungSides, HungStale, HungUps, HungSizes DEF new
<1>8. SplayTree(o2, g, r, new)
      BY <1>4, <1>5, <1>6, <1>7 DEF SplayTree
<1> QED BY <1>3, <1>8

-----------------------------------------------------------------------------
(***************************************************************************)
(* The loop of top_down_splay().                                           *)
(***************************************************************************)
\* Whether the node was rotated or not, what follows is done to a tree like it.
LEMMA Topped ==
    ASSUME NEW sub, SplayTree(op, node, root, sub), OnTheWay
    PROVE  /\ \E new : /\ SplayTree(Atop(op, Top), Turned, root, new)
                       /\ All(Atop(op, Top), Turned, root, new) =
                             All(op, node, root, sub)
           /\ Top \in Keys /\ op.key # Top
           /\ Toward(Top) = Toward(op.cur)
           /\ SplayOp(op, root) /\ op.pc = "splay"
<1> DEFINE x == op.cur
           s == Toward(x)
           c == node[x].link[s]
<1>1. /\ op.pc = "splay" /\ op.key # x /\ c # 0 /\ s \in {0, 1}
      BY DEF OnTheWay, Toward, NULL
<1>2. Turning(op, node, root, sub, x, s, c)
      BY <1>1 DEF Turning
<1>3. SplayOp(op, root)
      BY DEF SplayTree
<1> HIDE DEF s, c, x
<1>4. /\ x \in Keys /\ c \in Keys /\ c # x
      /\ x \in sub[x] /\ c \in sub[x]
      /\ node[c].link[1 - s] \notin {x, c}
      /\ node[x].link[1 - s] \notin {x, c}
      /\ node[x].up \notin sub[x]
      /\ node \in Heaps(Keys \union {0})
      BY <1>2, TurningFacts
<1>5. CASE IsZigZig
  <2> DEFINE g == Pivot(node, x, s)
             new == TurnedSub(sub, Cut(op, node), x, s, c)
  <2>1. Turned = g /\ Top = c
        BY <1>5 DEF Turned, Top, x, s, c
  <2>2. op.key # c /\ Toward(c) = s
        BY <1>5 DEF IsZigZig, x, s, c
  <2>3. /\ node[x].up # x /\ node[x].up # c /\ c = node[x].link[s]
        BY <1>4 DEF c
  <2> HIDE DEF g, new
  <2>4. TurnedTo(op, node, g, x, s, c)
        BY <1>1, <1>4, <2>3, PivotIs DEF TurnedTo, g
  <2>5. /\ SplayTree(Atop(op, c), g, root, new)
        /\ All(Atop(op, c), g, root, new) = All(op, node, root, sub)
        BY <1>2, <2>4, TurningTree DEF new
  <2> QED BY <1>1, <1>3, <1>4, <2>1, <2>2, <2>5 DEF x, s
<1>6. CASE ~IsZigZig
  <2>1. Turned = node /\ Top = x
        BY <1>6 DEF Turned, Top, x
  <2>2. Atop(op, x) = op
        BY <1>3 DEF Atop, SplayOp, x
  <2> QED BY <1>1, <1>3, <1>4, <2>1, <2>2 DEF x
<1> QED BY <1>5, <1>6

LEMMA GoDown ==
    ASSUME NEW sub, SplayTree(op, node, root, sub), SplayDown
    PROVE  \E new : /\ SplayTree(op', node', root', new)
                    /\ All(op', node', root', new) = All(op, node, root, sub)
<1> DEFINE x == Top
           s == Toward(op.cur)
           t == op.tmax[s]
           q == Turned[x].link[s]
           o == Atop(op, x)
           h == Turned
<1>1. /\ OnTheWay
      /\ q # 0
      /\ node' = [h EXCEPT ![t].link[s] = x, ![x].up = IF t = -1 THEN 0 ELSE t]
      /\ op' = [op EXCEPT !.cur = q, !.tmax[s] = x]
      /\ root' = root
      BY DEF SplayDown, NULL, HEAD
<1> HIDE DEF x, s, t, q, o, h
<1>2. /\ \E new : /\ SplayTree(o, h, root, new)
                  /\ All(o, h, root, new) = All(op, node, root, sub)
      /\ x \in Keys /\ op.key # x /\ Toward(x) = s
      /\ SplayOp(op, root) /\ op.pc = "splay"
      BY <1>1, Topped DEF x, s, o, h
<1>3. PICK s1 : /\ SplayTree(o, h, root, s1)
                /\ All(o, h, root, s1) = All(op, node, root, sub)
      BY <1>2
<1>4. /\ o.cur = x /\ o.pc = "splay" /\ o.key = op.key /\ o.tmax = op.tmax
      BY <1>2, AtopIs DEF o
<1>5. s = (IF o.key < x THEN 0 ELSE 1)
      BY <1>2, <1>4, ZenonT(30) DEF Toward
<1>6. Hanging(o, h, root, s1, x, s, q, t)
      BY <1>1, <1>2, <1>3, <1>4, <1>5, ZenonT(30) DEF Hanging, q, t, h
<1>7. op' = [o EXCEPT !.cur = q, !.tmax[s] = x]
  <2>1. o = [op EXCEPT !.cur = x] BY DEF o, Atop
  <2> QED BY <1>1, <1>2, <2>1 DEF SplayOp
<1>8. HungTo(o, h, op', node', x, s, q, t)
      BY <1>1, <1>7 DEF HungTo
<1>9. \E new : /\ SplayTree(op', node', root, new)
               /\ All(op', node', root, new) = All(o, h, root, s1)
      BY <1>6, <1>8, HungIs
<1> QED BY <1>1, <1>3, <1>9, Zenon

\* Only how the call goes on changes.
LEMMA SameCuts ==
    ASSUME NEW o, NEW o2, NEW h, NEW sub, o2.victim = o.victim, o2.tmax = o.tmax,
           Apart(o2) <=> Apart(o), SearchTree(Keys, Cut(o, h), sub)
    PROVE  SearchTree(Keys, Cut(o2, h), sub)
<1>1. \A y \in Keys, t \in {0, 1} : CutAt(o2, y, t) <=> CutAt(o, y, t)
      BY DEF CutAt
<1>2. \A y \in Keys, t \in {0, 1} : Cut(o2, h)[y].link[t] = Cut(o, h)[y].link[t]
      BY <1>1, CutIs
<1> QED BY <1>2, SameLinks

LEMMA Stopped ==
    ASSUME NEW o, NEW h, NEW r, NEW sub, NEW o2, SplayTree(o, h, r, sub),
           o.pc = "splay", o2 = [o EXCEPT !.pc = "assemble"],
           o.key = o.cur \/ h[o.cur].link[IF o.key < o.cur THEN 0 ELSE 1] = 0
    PROVE  /\ SplayTree(o2, h, r, sub)
           /\ All(o2, h, r, sub) = All(o, h, r, sub)
<1>0. /\ SplayOp(o, r) /\ SplayHeap(o, h) /\ Pieces(o, h, r, sub) /\ Sides(o, h, sub)
      /\ Stale(o, h, sub) /\ Ups(o, h, r) /\ Sizes(o, h, r, sub)
      BY DEF SplayTree
<1>1. /\ o2.pc = "assemble" /\ o2.call = o.call /\ o2.key = o.key /\ o2.cur = o.cur
      /\ o2.tmax = o.tmax /\ o2.victim = o.victim /\ o2.ret = o.ret
      BY <1>0 DEF SplayOp
<1>2. Apart(o2) /\ ~AtCaller(o2) /\ Apart(o) /\ ~AtCaller(o)
      BY <1>1 DEF Apart, AtCaller
<1>3. SplayOp(o2, r)
  <2>1. o2 \in [pc : {"idle", "start", "splay", "assemble", "climb", "splayed", "done"},
              call : {"none", "insert", "remove", "lookup"},
              key : Keys \union {0}, cur : Keys \union {0},
              tmax : [{0, 1} -> Keys \union {0, -1}],
              victim : Keys \union {0}, ret : {"none", "yes", "no"}]
        BY <1>0 DEF SplayOp
  <2> QED BY <1>0, <1>1, <1>2, <2>1 DEF SplayOp
<1>4. SplayHeap(o2, h)
      BY <1>0, <1>2 DEF SplayHeap
<1>5. All(o2, h, r, sub) = All(o, h, r, sub)
      BY <1>1, <1>2 DEF All
<1>6. SearchTree(Keys, Cut(o2, h), sub)
  <2>1. SearchTree(Keys, Cut(o, h), sub) BY <1>0 DEF Pieces
  <2> QED BY <1>1, <1>2, <2>1, SameCuts
<1>7. Pieces(o2, h, r, sub)
      BY <1>0, <1>1, <1>2, <1>5, <1>6 DEF Pieces
<1>8. Sides(o2, h, sub)
      BY <1>0, <1>1, <1>2, Zenon DEF Sides
<1>9. Stale(o2, h, sub)
      BY <1>0, <1>1, <1>2 DEF Stale
<1>10. Settled(o2, h, sub)
      BY <1>1, Zenon DEF Settled
<1>11. Ups(o2, h, r)
      BY <1>0, <1>1, <1>2 DEF Ups, CutAt
<1>12. Sizes(o2, h, r, sub)
      BY <1>0, <1>1, <1>5 DEF Sizes
<1> QED BY <1>3, <1>4, <1>5, <1>7, <1>8, <1>9, <1>10, <1>11, <1>12 DEF SplayTree

LEMMA BreakOff ==
    ASSUME NEW sub, SplayTree(op, node, root, sub), SplayBreak
    PROVE  \E new : /\ SplayTree(op', node', root', new)
                    /\ All(op', node', root', new) = All(op, node, root, sub)
<1> DEFINE x == Top
           s == Toward(op.cur)
           o == Atop(op, x)
           h == Turned
<1>1. /\ OnTheWay
      /\ h[x].link[s] = 0
      /\ node' = h
      /\ op' = [op EXCEPT !.cur = x, !.pc = "assemble"]
      /\ root' = root
      BY DEF SplayBreak, NULL
<1> HIDE DEF x, s, o, h
<1>2. /\ \E new : /\ SplayTree(o, h, root, new)
                  /\ All(o, h, root, new) = All(op, node, root, sub)
      /\ Toward(x) = s
      /\ SplayOp(op, root) /\ op.pc = "splay"
      BY <1>1, Topped DEF x, s, o, h
<1>3. PICK s1 : /\ SplayTree(o, h, root, s1)
                /\ All(o, h, root, s1) = All(op, node, root, sub)
      BY <1>2
<1>4. o.cur = x /\ o.pc = "splay" /\ o.key = op.key
      BY <1>2, AtopIs DEF o
<1>5. h[o.cur].link[IF o.key < o.cur THEN 0 ELSE 1] = 0
      BY <1>1, <1>2, <1>4 DEF Toward
<1>6. op' = [o EXCEPT !.pc = "assemble"]
  <2>1. o = [op EXCEPT !.cur = x] BY DEF o, Atop
  <2> QED BY <1>1, <1>2, <2>1 DEF SplayOp
<1>7. /\ SplayTree(op', h, root, s1)
      /\ All(op', h, root, s1) = All(o, h, root, s1)
      BY <1>3, <1>4, <1>5, <1>6, Stopped
<1> QED BY <1>1, <1>3, <1>7

-----------------------------------------------------------------------------
(***************************************************************************)
(* "Assemble the tree".                                                    *)
(***************************************************************************)
\* What was on side u of the root x goes under the last node m of the tree of H,
\* and the tree under x on that side.
Half(sub, x, m, H, q) ==
    [y \in DOMAIN sub |-> IF y = x THEN sub[x] \union sub[H]
                          ELSE IF m \in sub[y] THEN sub[y] \union sub[q] ELSE sub[y]]

LinksHalf(c, g, x, u, m, H) ==
    \A y \in Keys, w \in {0, 1} :
       g[y].link[w] = IF y = x /\ w = u THEN IF m = -1 THEN c[x].link[u] ELSE H
                      ELSE IF y = m /\ w = 1 - u THEN c[x].link[u]
                      ELSE c[y].link[w]

\* When this may be done.
Halvable(c, sub, x, u, m, H) ==
    /\ SearchTree(Keys, c, sub) /\ x \in Keys /\ u \in {0, 1}
    /\ m \in Keys \union {-1} /\ H \in Keys \union {0}
    /\ m = -1 <=> H = 0
    /\ m # -1 => m \in sub[H] /\ c[m].link[1 - u] = 0
    /\ \A y \in Keys : x \in sub[y] => y = x
    /\ \A y \in Keys : m \in sub[y] => y \in sub[H]
    /\ \A a \in sub[H] : /\ a # m => Before(1 - u, a, m)
                         /\ \A b \in sub[x] : Before(1 - u, a, b)

LEMMA HalfIs ==
    ASSUME NEW c, NEW sub, NEW x, NEW u, NEW m, NEW H, Halvable(c, sub, x, u, m, H),
           NEW g, LinksHalf(c, g, x, u, m, H),
           NEW new, new = Half(sub, x, m, H, c[x].link[u])
    PROVE  /\ SearchTree(Keys, g, new)
           /\ new[x] = sub[x] \union sub[H]
           /\ \A y \in Keys \union {0} : y # x =>
                 new[y] = IF m \in sub[y] THEN sub[y] \union sub[c[x].link[u]] ELSE sub[y]
<1> DEFINE q == c[x].link[u]
           c1 == [y \in Keys |-> [link |-> [w \in {0, 1} |->
                     IF y = x /\ w = u THEN 0 ELSE c[y].link[w]]]]
           c2 == [y \in Keys |-> [link |-> [w \in {0, 1} |->
                     IF y = m /\ w = 1 - u THEN q ELSE c1[y].link[w]]]]
           s1 == Pruned(sub, c, x, u)
           s2 == Grafted(s1, m, q)
           s3 == Grafted(s2, x, H)
<1>0. /\ SearchTree(Keys, c, sub) /\ x \in Keys /\ u \in {0, 1} /\ 1 - u \in {0, 1}
      /\ 1 - u # u
      /\ m \in Keys \union {-1} /\ H \in Keys \union {0}
      /\ m = -1 <=> H = 0
      /\ m # -1 => m \in sub[H] /\ c[m].link[1 - u] = 0
      /\ \A y \in Keys : x \in sub[y] => y = x
      /\ \A y \in Keys : m \in sub[y] => y \in sub[H]
      /\ \A a \in sub[H] : /\ a # m => Before(1 - u, a, m)
                           /\ \A b \in sub[x] : Before(1 - u, a, b)
  <2>1. u \in {0, 1} BY DEF Halvable
  <2>2. 1 - u \in {0, 1} /\ 1 - u # u BY <2>1
  <2> QED BY <2>2 DEF Halvable
<1>1. /\ sub \in [Keys \union {0} -> SUBSET Keys] /\ sub[0] = {}
      /\ \A y \in Keys : y \in sub[y]
      BY <1>0, NodeFacts DEF SearchTree
<1>2. /\ q \in Keys \union {0} /\ q # x /\ x \notin sub[q] /\ sub[q] \subseteq sub[x]
      /\ sub[x] = {x} \union sub[c[x].link[1 - u]] \union sub[q]
      /\ \A k \in sub[q] : IF u = 0 THEN k < x ELSE k > x
  <2>1. sub[x] = {x} \union sub[c[x].link[0]] \union sub[c[x].link[1]]
        BY <1>0 DEF SearchTree
  <2>2. sub[x] = {x} \union sub[c[x].link[1 - u]] \union sub[q]
        BY <1>0, <2>1, OtherSide
  <2>3. \A k \in sub[q] : IF u = 0 THEN k < x ELSE k > x
        BY <1>0 DEF SearchTree
  <2>4. q \in Keys \union {0} /\ q # x /\ x \notin sub[q]
        BY <1>0, NodeFacts
  <2> QED BY <2>2, <2>3, <2>4
<1>3. /\ new[x] = sub[x] \union sub[H]
      /\ \A y \in Keys \union {0} : y # x =>
            new[y] = IF m \in sub[y] THEN sub[y] \union sub[q] ELSE sub[y]
      /\ DOMAIN new = Keys \union {0} /\ new = [y \in Keys \union {0} |-> new[y]]
      BY <1>0, <1>1, Zenon DEF Half
<1> HIDE DEF q
<1>4. CASE m = -1
  <2>1. \A y \in Keys, w \in {0, 1} : g[y].link[w] = c[y].link[w]
    <3> TAKE y \in Keys, w \in {0, 1}
    <3>1. y # -1 BY SplayKeysFacts
    <3> QED BY <1>4, <3>1 DEF LinksHalf
  <2>2. \A y \in Keys \union {0} : m \notin sub[y]
        BY <1>1, <1>4, SplayKeysFacts, Zenon
  <2>3. \A y \in Keys \union {0} : new[y] = sub[y]
        BY <1>0, <1>1, <1>3, <1>4, <2>2, Zenon
  <2>4. sub = [y \in Keys \union {0} |-> sub[y]]
        BY <1>1
  <2>5. new = sub
        BY <1>3, <2>3, <2>4, Zenon
  <2>6. SearchTree(Keys, g, sub)
        BY <1>0, <2>1, SameLinks
  <2> QED BY <1>3, <2>5, <2>6, Zenon DEF q
<1>5. CASE m # -1
  <2>1. m \in Keys /\ H \in Keys /\ m \in sub[H] /\ c[m].link[1 - u] = 0
        BY <1>0, <1>5
  <2>2. \A a \in sub[H], b \in sub[x] : Before(1 - u, a, b) /\ a \in Nat /\ b \in Nat
        BY <1>0, <1>1, SplayKeysFacts
  <2>3. m \notin sub[x] /\ m # x /\ H # x
    <3>1. m \notin sub[x]
      <4> SUFFICES ASSUME m \in sub[x] PROVE FALSE
          OBVIOUS
      <4>1. Before(1 - u, m, m) /\ m \in Nat BY <2>1, <2>2
      <4> QED BY <4>1 DEF Before
    <3> QED BY <1>1, <2>1, <3>1
  <2>4. \A y \in Keys, w \in {0, 1} : c[y].link[w] # x
    <3>1. \A y \in Keys, w \in {0, 1} : c[y].link[w] = x => x \in sub[y] /\ y # x
          BY <1>0, NodeFacts
    <3> QED BY <1>0, <3>1
  <2>5. /\ \A y \in Keys, w \in {0, 1} :
              c1[y].link[w] = IF y = x /\ w = u THEN 0 ELSE c[y].link[w]
        /\ \A y \in Keys, w \in {0, 1} :
              c2[y].link[w] = IF y = m /\ w = 1 - u THEN q ELSE c1[y].link[w]
        OBVIOUS
  <2> HIDE DEF c1, c2
  <2>6. SearchTree(Keys, c1, s1)
    <3>1. LinkSet(Keys, c, c1, x, u, 0) BY <2>5 DEF LinkSet
    <3> QED BY <1>0, <2>4, <3>1, PruneTree
  <2>7. /\ DOMAIN s1 = Keys \union {0}
        /\ s1[x] = {x} \union sub[c[x].link[1 - u]]
        /\ \A y \in Keys \union {0} : y # x => s1[y] = sub[y]
        BY <1>0, <1>1, Zenon DEF Pruned
  <2> HIDE DEF s1
  <2>8. s1[x] \subseteq sub[x] /\ s1[q] = sub[q] /\ s1[H] = sub[H]
        BY <1>0, <1>2, <2>3, <2>7
  <2>9. \A y \in Keys : m \in s1[y] => y \in sub[H]
    <3> SUFFICES ASSUME NEW y \in Keys, m \in s1[y] PROVE y \in sub[H]
        OBVIOUS
    <3>1. m \in sub[y] BY <2>7, <2>8
    <3> QED BY <1>0, <3>1
  <2>10. \A k \in s1[q] : IF 1 - u = 0 THEN k < m ELSE k > m
    <3> TAKE k \in s1[q]
    <3>1. Before(1 - u, m, k) /\ k \in Nat /\ m \in Nat BY <1>2, <2>1, <2>2, <2>8
    <3> QED BY <1>0, <3>1, OtherSide DEF Before
  <2>11. ASSUME NEW y \in Keys, NEW w \in {0, 1}, m \in s1[c1[y].link[w]], NEW k \in s1[q]
         PROVE  IF w = 0 THEN k < y ELSE k > y
    <3>1. (IF w = 0 THEN m < y ELSE m > y) /\ m \in s1[y]
      <4>1. IF w = 0 THEN m < y ELSE m > y BY <2>6, <2>11 DEF SearchTree
      <4>2. m \in s1[y] BY <2>6, <2>11, NodeFacts
      <4> QED BY <4>1, <4>2
    <3>2. y \in sub[H] /\ k \in sub[x] /\ y \in Nat /\ m \in Nat /\ y # m
          BY <1>2, <2>1, <2>8, <2>9, <3>1, SplayKeysFacts
    <3>3. Before(1 - u, y, m) /\ Before(1 - u, y, k) /\ k \in Nat
          BY <1>0, <2>2, <3>2
    <3> QED BY <1>0, <3>1, <3>2, <3>3, OtherSide DEF Before
  <2>12. SearchTree(Keys, c2, s2)
    <3>1. LinkSet(Keys, c1, c2, m, 1 - u, q) BY <2>5 DEF LinkSet
    <3>2. c1[m].link[1 - u] = 0 BY <1>0, <2>1, <2>3, <2>5
    <3> QED BY <1>0, <1>2, <2>1, <2>6, <2>10, <2>11, <3>1, <3>2, GraftTree
  <2>13. /\ DOMAIN s2 = Keys \union {0}
         /\ \A y \in Keys \union {0} :
               s2[y] = IF m \in s1[y] THEN s1[y] \union sub[q] ELSE s1[y]
         BY <2>7, <2>8, Zenon DEF Grafted
  <2> HIDE DEF s2
  <2>14. s2[x] = s1[x] /\ s2[H] = sub[H] \union sub[q]
         BY <1>0, <2>1, <2>3, <2>8, <2>13
  <2>15. \A y \in Keys \union {0} : x \in s2[y] => y = x
    <3> SUFFICES ASSUME NEW y \in Keys \union {0}, x \in s2[y], y # x PROVE FALSE
        OBVIOUS
    <3>1. x \in sub[y] BY <1>2, <2>7, <2>13, Zenon
    <3> QED BY <1>0, <1>1, <3>1
  <2>16. \A k \in s2[H] : IF u = 0 THEN k < x ELSE k > x
    <3> TAKE k \in s2[H]
    <3>1. CASE k \in sub[q] BY <1>2, <3>1
    <3>2. CASE k \in sub[H]
      <4>1. Before(1 - u, k, x) /\ k \in Nat /\ x \in Nat BY <1>0, <1>1, <2>2, <3>2
      <4> QED BY <1>0, <4>1, OtherSide DEF Before
    <3> QED BY <2>14, <3>1, <3>2
  <2>17. \A y \in Keys, w \in {0, 1} : x \notin s2[c2[y].link[w]]
    <3> TAKE y \in Keys, w \in {0, 1}
    <3>1. c2[y].link[w] # x
          BY <1>0, <1>2, <2>4, <2>5, SplayKeysFacts
    <3>2. c2[y].link[w] \in Keys \union {0}
          BY <2>12, NodeFacts
    <3> QED BY <2>15, <3>1, <3>2
  <2>18. SearchTree(Keys, g, s3)
    <3>1. LinkSet(Keys, c2, g, x, u, H)
      <4> SUFFICES ASSUME NEW y \in Keys, NEW w \in {0, 1}
                   PROVE  g[y].link[w] = IF y = x /\ w = u THEN H ELSE c2[y].link[w]
          BY DEF LinkSet
      <4>1. g[y].link[w] = IF y = x /\ w = u THEN H
                           ELSE IF y = m /\ w = 1 - u THEN q ELSE c[y].link[w]
            BY <1>5 DEF LinksHalf, q
      <4> QED BY <2>5, <4>1
    <3>2. c2[x].link[u] = 0 BY <1>0, <2>3, <2>5
    <3>3. \A y \in Keys, w \in {0, 1} : x \in s2[c2[y].link[w]] =>
             \A k \in s2[H] : IF w = 0 THEN k < y ELSE k > y
          BY <2>17
    <3> QED BY <1>0, <2>1, <2>12, <2>16, <3>1, <3>2, <3>3, GraftTree
  <2>19. /\ s3 = [y \in Keys \union {0} |-> s3[y]]
         /\ \A y \in Keys \union {0} :
               s3[y] = IF x \in s2[y] THEN s2[y] \union s2[H] ELSE s2[y]
         BY <2>13, Zenon DEF Grafted
  <2> HIDE DEF s3
  <2>20. \A y \in Keys \union {0} : s3[y] = new[y]
    <3> TAKE y \in Keys \union {0}
    <3>1. CASE y = x
      <4>1. x \in s2[x] BY <2>7, <2>14
      <4>2. s3[x] = s1[x] \union sub[H] \union sub[q] BY <1>0, <2>14, <2>19, <4>1, Zenon
      <4> QED BY <1>2, <1>3, <2>7, <3>1, <4>2, Zenon
    <3>2. CASE y # x
      <4>1. s3[y] = s2[y] BY <2>15, <2>19, <3>2
      <4>2. s1[y] = sub[y] BY <2>7, <3>2
      <4>3. s2[y] = IF m \in sub[y] THEN sub[y] \union sub[q] ELSE sub[y]
            BY <2>13, <4>2
      <4>4. new[y] = IF m \in sub[y] THEN sub[y] \union sub[q] ELSE sub[y]
            BY <1>3, <3>2, Zenon
      <4> QED BY <4>1, <4>3, <4>4
    <3> QED BY <3>1, <3>2
  <2>21. new = s3
         BY <1>3, <2>19, <2>20, Zenon
  <2> QED BY <1>3, <2>18, <2>21, Zenon DEF q
<1> QED BY <1>4, <1>5

Assembled(h, x, l, m) ==
    LET h1 == [h EXCEPT ![l].link[1] = h[x].link[0]]
        h2 == [h1 EXCEPT ![m].link[0] = h1[x].link[1]]
        h3 == [h2 EXCEPT ![x].link = [s \in {0, 1} |-> h2[-1].link[1 - s]], ![x].up = 0]
        h4 == set_parent(set_parent(h3, h3[l].link[1], l), h3[m].link[0], m)
        h5 == set_parent(set_parent(h4, h4[x].link[0], x), h4[x].link[1], x)
    IN [h5 EXCEPT ![-1] = NewNode]

\* What x has on side u then.
KidOf(h, x, u, t) == IF t = -1 THEN h[x].link[u] ELSE Hung(h, 1 - u)

AssembledNodes(h, g, x, l, m) ==
    \A y \in Keys :
       /\ g[y].max = h[y].max
       /\ \A w \in {0, 1} : g[y].link[w] =
             IF y = x THEN (IF w = 0 THEN KidOf(h, x, 0, l) ELSE KidOf(h, x, 1, m))
             ELSE IF y = l /\ w = 1 THEN h[x].link[0]
             ELSE IF y = m /\ w = 0 THEN h[x].link[1]
             ELSE h[y].link[w]
       /\ g[y].up = IF y = KidOf(h, x, 0, l) \/ y = KidOf(h, x, 1, m) THEN x
                    ELSE IF y = h[x].link[1] THEN m
                    ELSE IF y = h[x].link[0] THEN l
                    ELSE IF y = x THEN 0 ELSE h[y].up

LEMMA AssembledIs ==
    ASSUME NEW h \in Heaps(Keys \union {0}), NEW x \in Keys,
           NEW l \in Keys \union {-1}, NEW m \in Keys \union {-1}, x # l, x # m
    PROVE  /\ AssembledNodes(h, Assembled(h, x, l, m), x, l, m)
           /\ Assembled(h, x, l, m) \in [Keys \union {-1} -> SplayNode]
           /\ Assembled(h, x, l, m)[-1] = NewNode
<1> DEFINE h1 == [h EXCEPT ![l].link[1] = h[x].link[0]]
           h2 == [h1 EXCEPT ![m].link[0] = h1[x].link[1]]
           h3 == [h2 EXCEPT ![x].link = [s \in {0, 1} |-> h2[-1].link[1 - s]], ![x].up = 0]
           a == set_parent(h3, h3[l].link[1], l)
           h4 == set_parent(a, h3[m].link[0], m)
           b == set_parent(h4, h4[x].link[0], x)
           h5 == set_parent(b, h4[x].link[1], x)
           g == Assembled(h, x, l, m)
           q0 == h[x].link[0]
           q1 == h[x].link[1]
           k0 == KidOf(h, x, 0, l)
           k1 == KidOf(h, x, 1, m)
           H == Heaps(Keys \union {0, -1})
           K == Keys \union {-1}
<1>1. /\ g = [h5 EXCEPT ![-1] = NewNode]
      /\ -1 \notin Keys /\ 0 \notin Keys /\ x # -1
      BY SplayKeysFacts DEF Assembled
<1> HIDE DEF g
<1>2. /\ h \in H /\ q0 \in Keys \union {0} /\ q1 \in Keys \union {0}
      /\ \A y \in K : h[y].up \in Keys \union {0} /\ h[y].max \in Nat
      /\ \A y \in K, t \in {0, 1} : h[y].link[t] \in Keys \union {0}
      BY HeapTypes DEF Heaps
<1> HIDE DEF q0, q1
<1>3. h1 \in H /\ LinkPut(h, h1, l, 1, q0)
      BY <1>2, PutLink DEF q0
<1> HIDE DEF h1
<1>4. h1[x].link[1] = q1
      BY <1>3 DEF LinkPut, q1
<1>5. h2 \in H /\ LinkPut(h1, h2, m, 0, q1)
      BY <1>2, <1>3, <1>4, PutLink
<1> HIDE DEF h2
<1>6. /\ \A y \in K : h2[y].up = h[y].up /\ h2[y].max = h[y].max
      /\ \A y \in K : h2[y].link[1] = IF y = l THEN q0 ELSE h[y].link[1]
      /\ \A y \in K : h2[y].link[0] = IF y = m THEN q1 ELSE h[y].link[0]
      BY <1>3, <1>5 DEF LinkPut
<1>7. h2[-1].link[1] = k0 /\ h2[-1].link[0] = k1
  <2>1. 1 - 0 = 1 /\ 1 - 1 = 0
        OBVIOUS
  <2>2. k0 = (IF l = -1 THEN q0 ELSE h[-1].link[1]) /\ k1 = (IF m = -1 THEN q1 ELSE h[-1].link[0])
        BY <2>1 DEF KidOf, Hung, q0, q1
  <2> HIDE DEF k0, k1
  <2> QED BY <1>6, <2>2
<1> HIDE DEF k0, k1
<1>8. k0 \in Keys \union {0} /\ k1 \in Keys \union {0}
      BY <1>5, <1>7, HeapTypes
<1>9. /\ h3 \in H
      /\ h3[x].link[0] = k0 /\ h3[x].link[1] = k1 /\ h3[x].up = 0 /\ h3[x].max = h2[x].max
      /\ \A y \in K : y # x => h3[y] = h2[y]
  <2>1. [s \in {0, 1} |-> h2[-1].link[1 - s]] \in [{0, 1} -> Keys \union {0}]
    <3>1. \A s \in {0, 1} : h2[-1].link[1 - s] \in Keys \union {0}
      <4> TAKE s \in {0, 1}
      <4>1. 1 - s \in {0, 1} OBVIOUS
      <4> QED BY <1>5, <4>1, HeapTypes
    <3> QED BY <3>1
  <2> DEFINE f == [s \in {0, 1} |-> h2[-1].link[1 - s]]
  <2>2. f[0] = k0 /\ f[1] = k1
        BY <1>7, OtherSide
  <2>3. h3 = [h2 EXCEPT ![x].link = f, ![x].up = 0]
        OBVIOUS
  <2> HIDE DEF f, h3
  <2>4. f \in [{0, 1} -> Keys \union {0}] BY <2>1 DEF f
  <2> DEFINE e == [h2 EXCEPT ![x].link = f]
  <2>5. e \in H /\ e[x].link = f /\ e[x].max = h2[x].max /\ \A y \in K : y # x => e[y] = h2[y]
        BY <1>5, <2>4 DEF Heaps
  <2>6. h3 = [e EXCEPT ![x].up = 0]
        BY <1>5, <2>3 DEF Heaps
  <2> HIDE DEF e
  <2>7. /\ h3 \in H /\ h3[x].link = f /\ h3[x].up = 0 /\ h3[x].max = h2[x].max
        /\ \A y \in K : y # x => h3[y] = h2[y]
        BY <2>5, <2>6 DEF Heaps
  <2> QED BY <2>2, <2>7
<1> HIDE DEF h3
<1>10. h3[l].link[1] = q0 /\ h3[m].link[0] = q1
       BY <1>6, <1>9
<1>11. a \in H /\ UpPut(h3, a, q0, l)
       BY <1>2, <1>9, <1>10, SetParentIs
<1> HIDE DEF a
<1>12. h4 \in H /\ UpPut(a, h4, q1, m)
       BY <1>2, <1>10, <1>11, SetParentIs
<1> HIDE DEF h4
<1>13. h4[x].link[0] = k0 /\ h4[x].link[1] = k1
       BY <1>9, <1>11, <1>12 DEF UpPut
<1>14. b \in H /\ UpPut(h4, b, k0, x)
       BY <1>8, <1>12, <1>13, SetParentIs
<1> HIDE DEF b
<1>15. h5 \in H /\ UpPut(b, h5, k1, x)
       BY <1>8, <1>13, <1>14, SetParentIs
<1> HIDE DEF h5
<1>16. /\ DOMAIN g = K /\ g[-1] = NewNode
       /\ \A y \in Keys : g[y] = h5[y]
       BY <1>1, <1>15 DEF Heaps
<1>17. ASSUME NEW y \in Keys
       PROVE  /\ g[y].max = h[y].max
              /\ \A w \in {0, 1} : g[y].link[w] =
                    IF y = x THEN (IF w = 0 THEN k0 ELSE k1)
                    ELSE IF y = l /\ w = 1 THEN q0
                    ELSE IF y = m /\ w = 0 THEN q1
                    ELSE h[y].link[w]
              /\ g[y].up = IF y = k0 \/ y = k1 THEN x
                           ELSE IF y = q1 THEN m
                           ELSE IF y = q0 THEN l
                           ELSE IF y = x THEN 0 ELSE h[y].up
  <2>1. h5[y].link = h3[y].link /\ h5[y].max = h3[y].max
        BY <1>11, <1>12, <1>14, <1>15 DEF UpPut
  <2>2. h5[y].up = IF y = k1 THEN x ELSE IF y = k0 THEN x ELSE IF y = q1 THEN m
                   ELSE IF y = q0 THEN l ELSE h3[y].up
        BY <1>11, <1>12, <1>14, <1>15 DEF UpPut
  <2>3. h3[y].up = IF y = x THEN 0 ELSE h[y].up
        BY <1>6, <1>9
  <2>4. h3[y].max = h[y].max
        BY <1>6, <1>9
  <2>5. \A w \in {0, 1} : h3[y].link[w] =
                    IF y = x THEN (IF w = 0 THEN k0 ELSE k1)
                    ELSE IF y = l /\ w = 1 THEN q0
                    ELSE IF y = m /\ w = 0 THEN q1
                    ELSE h[y].link[w]
        BY <1>6, <1>9
  <2> QED BY <1>16, <2>1, <2>2, <2>3, <2>4, <2>5
<1>18. ASSUME NEW y \in Keys PROVE g[y] \in SplayNode
  <2>1. (y = k0 \/ y = k1) \/ ((y = q1 => m # -1) /\ (y = q0 => l # -1))
        BY DEF KidOf, k0, k1, q0, q1
  <2>2. g[y].up \in Keys \union {0}
        BY <1>2, <1>17, <2>1
  <2>3. h5[y] \in [link : [{0, 1} -> Keys \union {0}], up : Keys \union {0, -1}, max : Nat]
        BY <1>15 DEF Heaps
  <2> QED BY <1>16, <2>2, <2>3 DEF SplayNode
<1>19. g \in [K -> SplayNode]
  <2>1. \A y \in K : g[y] \in SplayNode BY <1>16, <1>18, SplayNewNodeIs, Zenon
  <2>2. g = [y \in K |-> g[y]] BY <1>1, <1>15 DEF Heaps
  <2> QED BY <2>1, <2>2, Zenon
<1>20. AssembledNodes(h, g, x, l, m)
       BY <1>17, Zenon DEF AssembledNodes, k0, k1, q0, q1
<1> QED BY <1>16, <1>19, <1>20 DEF g

\* What top_down_splay() knows as it assembles the tree with x for root.
Joining(o, h, r, sub, o2, g, x, l, m) ==
    /\ SplayTree(o, h, r, sub) /\ Apart(o)
    /\ o.key = o.cur \/ h[o.cur].link[IF o.key < o.cur THEN 0 ELSE 1] = 0
    /\ x = o.cur /\ l = o.tmax[1] /\ m = o.tmax[0]
    /\ o2 = [o EXCEPT !.pc = "climb"]
    /\ g = Assembled(h, x, l, m)

LEMMA JoinFacts ==
    ASSUME NEW o, NEW h, NEW r, NEW sub, NEW o2, NEW g, NEW x, NEW l, NEW m,
           Joining(o, h, r, sub, o2, g, x, l, m)
    PROVE  /\ SplayTree(o, h, r, sub) /\ SearchTree(Keys, Cut(o, h), sub)
           /\ SplayOp(o, r) /\ SplayHeap(o, h) /\ Pieces(o, h, r, sub) /\ Sides(o, h, sub)
           /\ x = o.cur /\ l = o.tmax[1] /\ m = o.tmax[0] /\ x \in Keys
           /\ Apart(o) /\ ~AtCaller(o) /\ h \in Heaps(Keys \union {0})
           /\ l \in Keys \union {-1} /\ m \in Keys \union {-1} /\ x # l /\ x # m
           /\ x # o.victim /\ l # o.victim /\ m # o.victim /\ o.victim \in Keys \union {0}
           /\ l # m \/ l = -1
           /\ \A w \in {0, 1} : ~CutAt(o, x, w) /\ Cut(o, h)[x].link[w] = h[x].link[w]
           /\ Hung(h, 0) \in Keys \union {0} /\ Hung(h, 1) \in Keys \union {0}
           /\ x # Hung(h, 0) /\ x # Hung(h, 1)
<1>1. /\ SplayTree(o, h, r, sub) /\ SearchTree(Keys, Cut(o, h), sub)
      /\ SplayOp(o, r) /\ SplayHeap(o, h) /\ Pieces(o, h, r, sub) /\ Sides(o, h, sub)
      /\ x = o.cur /\ l = o.tmax[1] /\ m = o.tmax[0]
      /\ Apart(o)
      BY DEF Joining, SplayTree, Pieces
<1>2. ~AtCaller(o)
      BY <1>1 DEF Apart, AtCaller
<1>3. /\ x \in Keys /\ x \in sub[x] /\ o.victim \in Keys \union {0}
      /\ Hung(h, 0) \in Keys \union {0} /\ Hung(h, 1) \in Keys \union {0}
      BY <1>1, <1>2, Trees
<1>4. \A u \in {0, 1} : o.tmax[u] \in Keys \union {-1}
      BY <1>1 DEF SplayOp
<1>5. /\ x # o.victim /\ x # Hung(h, 0) /\ x # Hung(h, 1)
      /\ \A w \in {0, 1} : /\ x # o.tmax[w] /\ ~CutAt(o, x, w)
                           /\ Cut(o, h)[x].link[w] = h[x].link[w]
      BY <1>1, <1>3, CleanCur
<1>6. \A u \in {0, 1} : o.tmax[u] # -1 => o.tmax[u] \in sub[Hung(h, u)] /\ o.tmax[u] \in Keys
      BY <1>1, <1>4 DEF Sides
<1>7. \A u \in {0, 1} : o.tmax[u] # o.victim
  <2> TAKE u \in {0, 1}
  <2> SUFFICES ASSUME o.tmax[u] = o.victim PROVE FALSE
      OBVIOUS
  <2>1. o.tmax[u] # -1 /\ o.victim \in Keys BY <1>3, <1>4, SplayKeysFacts
  <2>2. o.victim \in sub[Hung(h, u)] BY <1>6, <2>1
  <2>3. o.victim \in sub[o.victim] BY <1>1, <2>1, Trees
  <2> QED BY <1>1, <1>2, <2>1, <2>2, <2>3, Distinct
<1>8. l # m \/ l = -1
  <2> SUFFICES ASSUME l = m, l # -1 PROVE FALSE
      OBVIOUS
  <2>1. l \in Keys /\ l \in sub[Hung(h, 0)] /\ l \in sub[Hung(h, 1 - 0)]
    <3>1. 1 - 0 = 1 OBVIOUS
    <3> QED BY <1>1, <1>6, <3>1
  <2> QED BY <1>1, <1>2, <2>1, Distinct
<1>9. h \in Heaps(Keys \union {0})
      BY <1>1, HeapsAre
<1> QED BY <1>1, <1>2, <1>3, <1>4, <1>5, <1>7, <1>8, <1>9

JoinSub(o, h, sub, x, l, m) ==
    Half(Half(sub, x, l, Hung(h, 1), h[x].link[0]), x, m, Hung(h, 0), h[x].link[1])

JoinKeys(h, sub, new, x, l, m) ==
    /\ new[x] = sub[x] \union sub[Hung(h, 0)] \union sub[Hung(h, 1)]
    /\ \A y \in Keys \union {0} : y # x =>
          new[y] = IF l \in sub[y] THEN sub[y] \union sub[h[x].link[0]]
                   ELSE IF m \in sub[y] THEN sub[y] \union sub[h[x].link[1]]
                   ELSE sub[y]

LEMMA JoinTree ==
    ASSUME NEW o, NEW h, NEW r, NEW sub, NEW o2, NEW g, NEW x, NEW l, NEW m,
           Joining(o, h, r, sub, o2, g, x, l, m),
           NEW new, new = JoinSub(o, h, sub, x, l, m)
    PROVE  SearchTree(Keys, Cut(o2, g), new) /\ JoinKeys(h, sub, new, x, l, m)
<1> DEFINE c == Cut(o, h)
           q0 == h[x].link[0]
           q1 == h[x].link[1]
           H1 == Hung(h, 1)
           H0 == Hung(h, 0)
           c1 == [y \in Keys |-> [link |-> [w \in {0, 1} |->
                    IF y = x /\ w = 0 THEN IF l = -1 THEN q0 ELSE H1
                    ELSE IF y = l /\ w = 1 THEN q0 ELSE c[y].link[w]]]]
           n1 == Half(sub, x, l, H1, q0)
<1>0. /\ SearchTree(Keys, c, sub)
      /\ SplayOp(o, r) /\ SplayHeap(o, h) /\ Pieces(o, h, r, sub) /\ Sides(o, h, sub)
      /\ x = o.cur /\ l = o.tmax[1] /\ m = o.tmax[0] /\ x \in Keys
      /\ Apart(o) /\ ~AtCaller(o) /\ h \in Heaps(Keys \union {0})
      /\ l \in Keys \union {-1} /\ m \in Keys \union {-1} /\ x # l /\ x # m
      /\ x # o.victim /\ l # o.victim /\ m # o.victim
      /\ l # m \/ l = -1
      /\ c[x].link[0] = q0 /\ c[x].link[1] = q1
      /\ H0 \in Keys \union {0} /\ H1 \in Keys \union {0} /\ x # H0 /\ x # H1
  <2>1. /\ SearchTree(Keys, Cut(o, h), sub)
        /\ SplayOp(o, r) /\ SplayHeap(o, h) /\ Pieces(o, h, r, sub) /\ Sides(o, h, sub)
        /\ x = o.cur /\ l = o.tmax[1] /\ m = o.tmax[0] /\ x \in Keys
        /\ Apart(o) /\ ~AtCaller(o) /\ h \in Heaps(Keys \union {0})
        BY JoinFacts
  <2>2. /\ l \in Keys \union {-1} /\ m \in Keys \union {-1} /\ x # l /\ x # m
        /\ x # o.victim /\ l # o.victim /\ m # o.victim
        /\ l # m \/ l = -1
        /\ Hung(h, 0) \in Keys \union {0} /\ Hung(h, 1) \in Keys \union {0}
        /\ x # Hung(h, 0) /\ x # Hung(h, 1)
        BY JoinFacts
  <2>3. \A w \in {0, 1} : Cut(o, h)[x].link[w] = h[x].link[w]
        BY JoinFacts
  <2> HIDE DEF c, q0, q1, H0, H1, c1, n1
  <2> QED BY <2>1, <2>2, <2>3 DEF c, q0, q1, H0, H1
<1>1. /\ sub \in [Keys \union {0} -> SUBSET Keys] /\ sub[0] = {}
      /\ \A y \in Keys : y \in sub[y]
      /\ \A y \in Keys : \A k \in sub[y] : sub[k] \subseteq sub[y]
      /\ o.key \in Keys
      BY <1>0, Trees
<1>2. /\ q0 \in Keys \union {0} /\ q0 # x /\ x \notin sub[q0] /\ sub[q0] \subseteq sub[x]
      /\ q1 \in Keys \union {0} /\ q1 # x /\ x \notin sub[q1] /\ sub[q1] \subseteq sub[x]
      BY <1>0, NodeFacts
<1>3. /\ l = -1 <=> H1 = 0
      /\ l # -1 => l \in sub[H1]
      /\ \A a \in sub[H1] : /\ a # l => Before(1, a, l)
                            /\ Before(1, a, o.key)
                            /\ \A b \in sub[x] : Before(1, a, b)
      /\ m = -1 <=> H0 = 0
      /\ m # -1 => m \in sub[H0]
      /\ \A a \in sub[H0] : /\ a # m => Before(0, a, m)
                            /\ Before(0, a, o.key)
                            /\ \A b \in sub[x] : Before(0, a, b)
  <2>1. ASSUME NEW u \in {0, 1}
        PROVE  /\ o.tmax[u] = -1 <=> Hung(h, u) = 0
               /\ o.tmax[u] # -1 => o.tmax[u] \in sub[Hung(h, u)]
               /\ \A a \in sub[Hung(h, u)] : /\ a # o.tmax[u] => Before(u, a, o.tmax[u])
                                             /\ Before(u, a, o.key)
                                             /\ \A b \in sub[x] : Before(u, a, b)
    <3>1. /\ o.tmax[u] = -1 <=> Hung(h, u) = 0
          /\ \A a \in sub[Hung(h, u)] : /\ Before(u, a, o.key)
                                        /\ \A b \in sub[x] : Before(u, a, b)
          /\ Hung(h, u) # 0 =>
                /\ o.tmax[u] \in sub[Hung(h, u)]
                /\ \A a \in sub[Hung(h, u)] \ {o.tmax[u]} : Before(u, a, o.tmax[u])
          BY <1>0 DEF Sides
    <3>2. Hung(h, u) = 0 => sub[Hung(h, u)] = {}
          BY <1>1
    <3> QED BY <3>1, <3>2
  <2> QED BY <1>0, <2>1
<1>4. /\ \A y \in Keys : x \in sub[y] => y = x
      /\ \A y \in Keys : l \in sub[y] => y \in sub[H1]
      /\ \A y \in Keys : m \in sub[y] => y \in sub[H0]
  <2>1. x \in Roots(o, h, r) /\ H0 \in Roots(o, h, r) /\ H1 \in Roots(o, h, r)
        BY <1>0 DEF Roots
  <2>2. \A y \in Keys : x \in sub[y] => y = x
        BY <1>0, <2>1, Tops
  <2>3. \A y \in Keys, k \in sub[H1] : k \in sub[y] => y \in sub[H1]
        BY <1>0, <2>1, Apiece
  <2>4. \A y \in Keys, k \in sub[H0] : k \in sub[y] => y \in sub[H0]
        BY <1>0, <2>1, Apiece
  <2>5. \A y \in Keys : -1 \notin sub[y]
        BY <1>1, SplayKeysFacts, Zenon
  <2> QED BY <1>3, <2>2, <2>3, <2>4, <2>5
<1>5. \A k \in Keys : /\ ~(k \in sub[x] /\ k \in sub[H0])
                      /\ ~(k \in sub[x] /\ k \in sub[H1])
                      /\ ~(k \in sub[H0] /\ k \in sub[H1])
  <2> TAKE k \in Keys
  <2>1. /\ k \in sub[x] => \A t \in {0, 1} : k \notin sub[Hung(h, t)]
        /\ \A t \in {0, 1} : k \in sub[Hung(h, t)] => k \notin sub[Hung(h, 1 - t)]
        BY <1>0, Distinct
  <2>2. 1 - 0 = 1 OBVIOUS
  <2> QED BY <2>1, <2>2
<1>6. /\ l \notin sub[x] /\ l \notin sub[H0] /\ l \notin sub[q0] /\ l \notin sub[q1]
      /\ m \notin sub[x] /\ m \notin sub[H1] /\ m \notin sub[q0] /\ m \notin sub[q1]
  <2>1. \A y \in Keys \union {0} : -1 \notin sub[y]
        BY <1>1, SplayKeysFacts, Zenon
  <2> QED BY <1>0, <1>2, <1>3, <1>5, <2>1
<1>7. /\ l # -1 => c[l].link[1] = 0
      /\ m # -1 => c[m].link[0] = 0
      BY <1>0, CutIs DEF CutAt
<1>8. \A y \in Keys, w \in {0, 1} : c1[y].link[w] =
          IF y = x /\ w = 0 THEN IF l = -1 THEN q0 ELSE H1
          ELSE IF y = l /\ w = 1 THEN q0 ELSE c[y].link[w]
      OBVIOUS
<1>9. n1 = Half(sub, x, l, H1, q0) /\ new = Half(n1, x, m, H0, q1)
      BY DEF JoinSub
<1> HIDE DEF c, q0, q1, H0, H1, c1, n1
<1>10. Halvable(c, sub, x, 0, l, H1)
  <2>1. 1 - 0 = 1 OBVIOUS
  <2> QED BY <1>0, <1>3, <1>4, <1>7, <2>1 DEF Halvable
<1>11. LinksHalf(c, c1, x, 0, l, H1)
  <2>1. 1 - 0 = 1 OBVIOUS
  <2> QED BY <1>0, <1>8, <2>1 DEF LinksHalf
<1>12. /\ SearchTree(Keys, c1, n1)
       /\ n1[x] = sub[x] \union sub[H1]
       /\ \A y \in Keys \union {0} : y # x =>
             n1[y] = IF l \in sub[y] THEN sub[y] \union sub[q0] ELSE sub[y]
  <2>1. c[x].link[0] = q0 BY <1>0
  <2> QED BY <1>9, <1>10, <1>11, <2>1, HalfIs
<1>13. n1[H0] = sub[H0] /\ n1[q1] = sub[q1]
       BY <1>0, <1>2, <1>6, <1>12
<1>14. \A y \in Keys : m \in n1[y] <=> m \in sub[y]
       BY <1>0, <1>6, <1>12
<1>15. Halvable(c1, n1, x, 1, m, H0)
  <2>1. 1 - 1 = 0 OBVIOUS
  <2>2. \A y \in Keys : x \in n1[y] => y = x
    <3> SUFFICES ASSUME NEW y \in Keys, x \in n1[y], y # x PROVE FALSE
        OBVIOUS
    <3>1. x \in sub[y] BY <1>2, <1>12
    <3> QED BY <1>4, <3>1
  <2>3. \A y \in Keys : m \in n1[y] => y \in n1[H0]
        BY <1>4, <1>13, <1>14
  <2>4. m # -1 => m \in n1[H0] /\ c1[m].link[0] = 0
        BY <1>0, <1>3, <1>7, <1>8, <1>13
  <2>5. \A a \in n1[H0] : /\ a # m => Before(0, a, m)
                          /\ \A b \in n1[x] : Before(0, a, b)
    <3> TAKE a \in n1[H0]
    <3>1. /\ a # m => Before(0, a, m)
          /\ Before(0, a, o.key) /\ \A b \in sub[x] : Before(0, a, b)
          BY <1>3, <1>13
    <3>2. ASSUME NEW b \in sub[H1] PROVE Before(0, a, b)
      <4>1. Before(1, b, o.key) BY <1>3
      <4>2. a \in Nat /\ b \in Nat /\ o.key \in Nat BY <1>0, <1>1, <1>13, SplayKeysFacts
      <4> QED BY <3>1, <4>1, <4>2 DEF Before
    <3> QED BY <1>12, <3>1, <3>2
  <2> QED BY <1>0, <1>3, <1>12, <2>1, <2>2, <2>3, <2>4, <2>5 DEF Halvable
<1>16. /\ AssembledNodes(h, g, x, l, m)
       /\ o2.pc = "climb" /\ o2.victim = o.victim
  <2>1. g = Assembled(h, x, l, m) /\ o2 = [o EXCEPT !.pc = "climb"]
        BY DEF Joining
  <2>2. AssembledNodes(h, g, x, l, m)
        BY <1>0, <2>1, AssembledIs
  <2> QED BY <1>0, <2>1, <2>2 DEF SplayOp
<1>17. ASSUME NEW y \in Keys, NEW w \in {0, 1}
       PROVE  Cut(o2, g)[y].link[w] = IF y = x /\ w = 1 THEN IF m = -1 THEN q1 ELSE H0
                                      ELSE IF y = m /\ w = 0 THEN q1
                                      ELSE c1[y].link[w]
  <2>1. g[y].link[w] =
             IF y = x THEN (IF w = 0 THEN KidOf(h, x, 0, l) ELSE KidOf(h, x, 1, m))
             ELSE IF y = l /\ w = 1 THEN q0
             ELSE IF y = m /\ w = 0 THEN q1
             ELSE h[y].link[w]
        BY <1>16 DEF AssembledNodes, q0, q1
  <2>2. /\ KidOf(h, x, 0, l) = (IF l = -1 THEN q0 ELSE H1)
        /\ KidOf(h, x, 1, m) = (IF m = -1 THEN q1 ELSE H0)
    <3>1. 1 - 0 = 1 /\ 1 - 1 = 0 OBVIOUS
    <3> QED BY <3>1 DEF KidOf, q0, q1, H0, H1
  <2>3. c[y].link[w] = IF CutAt(o, y, w) THEN 0 ELSE h[y].link[w]
        BY CutIs DEF c
  <2>4. CutAt(o, y, w) <=> (y = l /\ w = 1) \/ (y = m /\ w = 0) \/ (y = o.victim /\ w = 0)
        BY <1>0 DEF CutAt
  <2>5. CutAt(o2, y, w) <=> y = o.victim /\ w = 0
        BY <1>16 DEF CutAt, Apart
  <2>6. Cut(o2, g)[y].link[w] = IF CutAt(o2, y, w) THEN 0 ELSE g[y].link[w]
        BY CutIs
  <2>7. CASE y = o.victim /\ w = 0
        BY <1>0, <1>8, <2>3, <2>4, <2>5, <2>6, <2>7
  <2>8. CASE ~(y = o.victim /\ w = 0)
        BY <1>0, <1>8, <2>1, <2>2, <2>3, <2>4, <2>5, <2>6, <2>8
  <2> QED BY <2>7, <2>8
<1>18. c1[x].link[1] = q1
       BY <1>0, <1>8
<1>19. LinksHalf(c1, Cut(o2, g), x, 1, m, H0)
  <2>1. 1 - 1 = 0 OBVIOUS
  <2> QED BY <1>17, <1>18, <2>1 DEF LinksHalf
<1>20. /\ SearchTree(Keys, Cut(o2, g), new)
       /\ new[x] = n1[x] \union n1[H0]
       /\ \A y \in Keys \union {0} : y # x =>
             new[y] = IF m \in n1[y] THEN n1[y] \union n1[q1] ELSE n1[y]
       BY <1>9, <1>15, <1>18, <1>19, HalfIs
<1>21. ASSUME NEW y \in Keys \union {0}, y # x
       PROVE  new[y] = IF l \in sub[y] THEN sub[y] \union sub[q0]
                       ELSE IF m \in sub[y] THEN sub[y] \union sub[q1]
                       ELSE sub[y]
  <2>1. CASE y = 0
        BY <1>0, <1>1, <1>12, <1>20, <1>21, <2>1, ZenonT(30)
  <2>2. CASE y \in Keys /\ l \in sub[y]
    <3>1. y \in sub[H1] BY <1>4, <2>2
    <3>2. m \notin sub[y] BY <1>4, <1>5, <2>2, <3>1
    <3>3. m \notin n1[y] BY <1>14, <2>2, <3>2
    <3> QED BY <1>12, <1>20, <1>21, <2>2, <3>3
  <2>3. CASE y \in Keys /\ l \notin sub[y]
        BY <1>12, <1>13, <1>14, <1>20, <1>21, <2>3
  <2> QED BY <2>1, <2>2, <2>3
<1>22. new[x] = sub[x] \union sub[H0] \union sub[H1]
       BY <1>12, <1>13, <1>20
<1> QED BY <1>20, <1>21, <1>22 DEF JoinKeys, q0, q1, H0, H1

LEMMA JoinOp ==
    ASSUME NEW o, NEW h, NEW r, NEW sub, NEW o2, NEW g, NEW x, NEW l, NEW m,
           Joining(o, h, r, sub, o2, g, x, l, m)
    PROVE  /\ o2.pc = "climb" /\ o2.call = o.call /\ o2.key = o.key /\ o2.cur = x
           /\ o2.tmax = o.tmax /\ o2.victim = o.victim /\ o2.ret = o.ret
           /\ ~Apart(o2) /\ ~AtCaller(o2) /\ SplayOp(o2, r) /\ SplayHeap(o2, g)
           /\ AssembledNodes(h, g, x, l, m)
           /\ \A t \in {0, 1} : Hung(g, t) = 0
           /\ \A y \in Keys, t \in {0, 1} : CutAt(o2, y, t) <=> y = o.victim /\ t = 0
<1>1. /\ SplayOp(o, r) /\ x = o.cur /\ x \in Keys
      /\ Apart(o) /\ ~AtCaller(o) /\ h \in Heaps(Keys \union {0})
      /\ l \in Keys \union {-1} /\ m \in Keys \union {-1} /\ x # l /\ x # m
      BY JoinFacts
<1>2. o2 = [o EXCEPT !.pc = "climb"] /\ g = Assembled(h, x, l, m)
      BY DEF Joining
<1>3. /\ o2.pc = "climb" /\ o2.call = o.call /\ o2.key = o.key /\ o2.cur = x
      /\ o2.tmax = o.tmax /\ o2.victim = o.victim /\ o2.ret = o.ret
      BY <1>1, <1>2 DEF SplayOp
<1>4. ~Apart(o2) /\ ~AtCaller(o2)
      BY <1>3 DEF Apart, AtCaller
<1>5. SplayOp(o2, r)
  <2>1. o2 \in [pc : {"idle", "start", "splay", "assemble", "climb", "splayed", "done"},
              call : {"none", "insert", "remove", "lookup"},
              key : Keys \union {0}, cur : Keys \union {0},
              tmax : [{0, 1} -> Keys \union {0, -1}],
              victim : Keys \union {0}, ret : {"none", "yes", "no"}]
        BY <1>1, <1>2 DEF SplayOp
  <2>2. o.ret = "none" /\ o.call # "none" /\ o.key # 0 /\ o.pc \notin {"idle", "start", "done"}
        BY <1>1 DEF SplayOp, Apart, AtCaller
  <2>3. o.cur # 0 BY <1>1, SplayKeysFacts
  <2> QED BY <1>1, <1>3, <1>4, <2>1, <2>2, <2>3 DEF SplayOp
<1>6. /\ AssembledNodes(h, g, x, l, m)
      /\ g \in [Keys \union {-1} -> SplayNode] /\ g[-1] = NewNode
      BY <1>1, <1>2, AssembledIs
<1>7. SplayHeap(o2, g)
      BY <1>6 DEF SplayHeap
<1>8. \A t \in {0, 1} : Hung(g, t) = 0
      BY <1>6, SplayNewNodeIs DEF Hung
<1>9. \A y \in Keys, t \in {0, 1} : CutAt(o2, y, t) <=> y = o.victim /\ t = 0
      BY <1>3, <1>4 DEF CutAt
<1> QED BY <1>3, <1>4, <1>5, <1>6, <1>7, <1>8, <1>9

LEMMA JoinPieces ==
    ASSUME NEW o, NEW h, NEW r, NEW sub, NEW o2, NEW g, NEW x, NEW l, NEW m,
           Joining(o, h, r, sub, o2, g, x, l, m),
           NEW new, new = JoinSub(o, h, sub, x, l, m)
    PROVE  /\ All(o2, g, r, new) = All(o, h, r, sub)
           /\ new[o.victim] = sub[o.victim]
           /\ Pieces(o2, g, r, new)
<1>0. /\ SplayOp(o, r) /\ SplayHeap(o, h) /\ Pieces(o, h, r, sub) /\ Sides(o, h, sub)
      /\ x = o.cur /\ l = o.tmax[1] /\ m = o.tmax[0] /\ x \in Keys
      /\ Apart(o) /\ ~AtCaller(o)
      /\ SearchTree(Keys, Cut(o, h), sub)
      BY JoinFacts
<1>a. /\ l \in Keys \union {-1} /\ m \in Keys \union {-1}
      /\ x # o.victim /\ o.victim \in Keys \union {0}
      /\ Hung(h, 0) \in Keys \union {0} /\ Hung(h, 1) \in Keys \union {0}
      BY JoinFacts
<1>b. \A w \in {0, 1} : Cut(o, h)[x].link[w] = h[x].link[w]
      BY JoinFacts
<1>1. SearchTree(Keys, Cut(o2, g), new) /\ JoinKeys(h, sub, new, x, l, m)
      BY JoinTree
<1>2. /\ sub[0] = {} /\ \A y \in Keys : y \in sub[y]
      BY <1>0, Trees
<1>3. /\ o2.pc = "climb" /\ o2.cur = x /\ o2.victim = o.victim
      /\ ~Apart(o2) /\ ~AtCaller(o2) /\ SplayHeap(o2, g)
      /\ AssembledNodes(h, g, x, l, m)
      /\ \A t \in {0, 1} : Hung(g, t) = 0
      BY JoinOp
<1>4. /\ l # -1 => l \in sub[Hung(h, 1)]
      /\ m # -1 => m \in sub[Hung(h, 0)]
  <2>1. \A u \in {0, 1} : o.tmax[u] # -1 => o.tmax[u] \in sub[Hung(h, u)]
        BY <1>0 DEF Sides
  <2> QED BY <1>0, <2>1
<1>5. new[o.victim] = sub[o.victim] /\ new[0] = {}
  <2>1. l \notin sub[o.victim] /\ m \notin sub[o.victim]
    <3>1. \A u \in {0, 1} : \A k \in Keys : k \in sub[Hung(h, u)] => k \notin sub[o.victim]
          BY <1>0, Distinct
    <3>2. -1 \notin sub[o.victim] BY <1>0, <1>a, Trees, SplayKeysFacts
    <3> QED BY <1>4, <1>a, <3>1, <3>2
  <2>2. new[0] = {}
        BY <1>1 DEF SearchTree
  <2> QED BY <1>1, <1>a, <2>1, <2>2 DEF JoinKeys
<1>6. new[x] = sub[x] \union sub[Hung(h, 0)] \union sub[Hung(h, 1)]
      BY <1>1 DEF JoinKeys
<1>7. All(o2, g, r, new) = All(o, h, r, sub)
  <2>1. All(o2, g, r, new) = new[x] \union new[o.victim] \union new[Hung(g, 0)]
                                    \union new[Hung(g, 1)]
        BY <1>3 DEF All
  <2>2. All(o, h, r, sub) = sub[x] \union sub[o.victim] \union sub[Hung(h, 0)]
                                   \union sub[Hung(h, 1)]
        BY <1>0 DEF All
  <2>3. new[Hung(g, 0)] = {} /\ new[Hung(g, 1)] = {}
        BY <1>3, <1>5
  <2> QED BY <1>5, <1>6, <2>1, <2>2, <2>3
<1>8. ASSUME NEW y \in Keys \ All(o, h, r, sub) PROVE g[y] = NewNode
  <2>1. h[y] = NewNode BY <1>0, <1>8 DEF Pieces
  <2>2. /\ sub[x] \subseteq All(o, h, r, sub) /\ sub[Hung(h, 0)] \subseteq All(o, h, r, sub)
        /\ sub[Hung(h, 1)] \subseteq All(o, h, r, sub)
        BY <1>0 DEF All
  <2>3. y # x /\ y # l /\ y # m
        BY <1>0, <1>2, <1>4, <1>8, <2>2, SplayKeysFacts
  <2>4. y # Hung(h, 0) /\ y # Hung(h, 1)
        BY <1>2, <1>8, <2>2
  <2>5. y # h[x].link[0] /\ y # h[x].link[1]
    <3>1. \A w \in {0, 1} : h[x].link[w] # 0 => h[x].link[w] \in sub[x]
          BY <1>0, <1>b, NodeFacts
    <3>2. y # 0 BY SplayKeysFacts
    <3> QED BY <1>8, <2>2, <3>1, <3>2
  <2>6. /\ y # KidOf(h, x, 0, l) /\ y # KidOf(h, x, 1, m)
    <3>1. 1 - 0 = 1 /\ 1 - 1 = 0 OBVIOUS
    <3> QED BY <2>4, <2>5, <3>1 DEF KidOf
  <2>7. /\ g[y].up = h[y].up /\ g[y].max = h[y].max
        /\ \A w \in {0, 1} : g[y].link[w] = h[y].link[w]
        BY <1>3, <2>3, <2>5, <2>6 DEF AssembledNodes
  <2>8. g[y] \in SplayNode BY <1>3, NodeTypes
  <2>9. NewNode.max = 0 BY DEF NewNode
  <2> QED BY <2>1, <2>7, <2>8, <2>9, SplayNewNodeIs, SplayBlank
<1>9. r \in All(o, h, r, sub)
      BY <1>0 DEF Pieces
<1>10. o.victim # 0 =>
          \A a \in new[x] \union new[Hung(g, 0)] \union new[Hung(g, 1)] : a < o.victim
  <2>1. o.victim # 0 =>
            \A a \in sub[x] \union sub[Hung(h, 0)] \union sub[Hung(h, 1)] : a < o.victim
        BY <1>0 DEF Pieces
  <2>2. new[Hung(g, 0)] = {} /\ new[Hung(g, 1)] = {}
        BY <1>3, <1>5
  <2> QED BY <1>6, <2>1, <2>2
<1>11. Pieces(o2, g, r, new)
       BY <1>1, <1>3, <1>7, <1>8, <1>9, <1>10 DEF Pieces
<1> QED BY <1>5, <1>7, <1>11

LEMMA JoinSettled ==
    ASSUME NEW o, NEW h, NEW r, NEW sub, NEW o2, NEW g, NEW x, NEW l, NEW m,
           Joining(o, h, r, sub, o2, g, x, l, m),
           NEW new, new = JoinSub(o, h, sub, x, l, m)
    PROVE  Settled(o2, g, new)
<1>0. /\ SplayOp(o, r) /\ SplayHeap(o, h) /\ Pieces(o, h, r, sub) /\ Sides(o, h, sub)
      /\ x = o.cur /\ x \in Keys
      /\ Apart(o) /\ ~AtCaller(o)
      /\ SearchTree(Keys, Cut(o, h), sub)
      BY JoinFacts
<1>a. \A w \in {0, 1} : Cut(o, h)[x].link[w] = h[x].link[w]
      BY JoinFacts
<1>1. new[x] = sub[x] \union sub[Hung(h, 0)] \union sub[Hung(h, 1)]
  <2>1. JoinKeys(h, sub, new, x, l, m) BY JoinTree
  <2> QED BY <2>1 DEF JoinKeys
<1>2. o2.pc = "climb" /\ o2.cur = x /\ o2.key = o.key
      BY JoinOp
<1>3. /\ o.key \in Nat /\ x \in Nat /\ x \in sub[x] /\ sub[x] \subseteq Nat /\ sub[0] = {}
      /\ \A u \in {0, 1} : sub[Hung(h, u)] \subseteq Nat
  <2>1. /\ o.key \in Keys /\ x \in sub[x] /\ sub \in [Keys \union {0} -> SUBSET Keys]
        /\ \A u \in {0, 1} : Hung(h, u) \in Keys \union {0}
        /\ sub[0] = {}
        BY <1>0, Trees
  <2> QED BY <1>0, <2>1, SplayKeysFacts
<1>4. ASSUME NEW y \in sub[x], y # x PROVE y # o.key /\ (y < o.key <=> y < x)
  <2>1. CASE o.key = x
        BY <1>4, <2>1
  <2>2. CASE o.key # x
    <3>1. /\ \A k \in sub[h[x].link[0]] : k < x
          /\ \A k \in sub[h[x].link[1]] : k > x
          /\ sub[x] = {x} \union sub[h[x].link[0]] \union sub[h[x].link[1]]
          BY <1>0, <1>a DEF SearchTree
    <3>2. h[x].link[IF o.key < x THEN 0 ELSE 1] = 0
          BY <1>0, <2>2 DEF Joining
    <3>3. CASE o.key < x
      <4>1. y > x BY <1>3, <1>4, <3>1, <3>2, <3>3
      <4> QED BY <1>3, <3>3, <4>1
    <3>4. CASE ~(o.key < x)
      <4>1. y < x BY <1>3, <1>4, <3>1, <3>2, <3>4
      <4> QED BY <1>3, <2>2, <3>4, <4>1
    <3> QED BY <3>3, <3>4, Zenon
  <2> QED BY <2>1, <2>2
<1>5. ASSUME NEW u \in {0, 1}, NEW y \in sub[Hung(h, u)]
      PROVE  y # o.key /\ (y < o.key <=> y < x)
  <2>1. Before(u, y, o.key) /\ Before(u, y, x)
        BY <1>0, <1>3 DEF Sides
  <2> QED BY <1>3, <2>1 DEF Before
<1>6. \A y \in new[x] \ {x} : y # o.key /\ (y < o.key <=> y < x)
      BY <1>1, <1>4, <1>5
<1> QED BY <1>2, <1>6 DEF Settled

LEMMA JoinStale ==
    ASSUME NEW o, NEW h, NEW r, NEW sub, NEW o2, NEW g, NEW x, NEW l, NEW m,
           Joining(o, h, r, sub, o2, g, x, l, m),
           NEW new, new = JoinSub(o, h, sub, x, l, m)
    PROVE  Stale(o2, g, new)
<1>0. /\ SplayTree(o, h, r, sub)
      /\ SplayOp(o, r) /\ SplayHeap(o, h) /\ Pieces(o, h, r, sub) /\ Sides(o, h, sub)
      /\ x = o.cur /\ x \in Keys /\ l = o.tmax[1] /\ m = o.tmax[0]
      /\ Apart(o) /\ ~AtCaller(o)
      BY JoinFacts
<1>a. x # o.victim /\ l # o.victim /\ m # o.victim /\ o.victim \in Keys \union {0}
      BY JoinFacts
<1>1. new[x] = sub[x] \union sub[Hung(h, 0)] \union sub[Hung(h, 1)]
  <2>1. JoinKeys(h, sub, new, x, l, m) BY JoinTree
  <2> QED BY <2>1 DEF JoinKeys
<1>2. /\ ~Apart(o2) /\ o2.cur = x /\ o2.victim = o.victim
      /\ AssembledNodes(h, g, x, l, m)
      BY JoinOp
<1>3. ASSUME o.victim # 0 PROVE g[o.victim].link[0] \in new[x]
  <2>1. o.victim \in Keys /\ o.tmax[0] = -1
        BY <1>0, <1>3, VictimSide
  <2>2. g[o.victim].link[0] = h[o.victim].link[0]
        BY <1>2, <1>a, <2>1 DEF AssembledNodes
  <2>3. \/ h[o.victim].link[0] = x
        \/ o.tmax[1] # -1 /\ h[o.victim].link[0] = Hung(h, 1)
    <3>1. \/ /\ \A s \in {0, 1} : o.tmax[s] = -1
             /\ h[o.victim].link[0] = o.cur
          \/ \E s \in {0, 1} : o.tmax[s] # -1 /\ h[o.victim].link[0] = Hung(h, 1)
          BY <1>0, <1>3 DEF SplayTree, Stale
    <3> QED BY <1>0, <2>1, <3>1
  <2>4. o.tmax[1] # -1 => Hung(h, 1) \in sub[Hung(h, 1)]
    <3>1. o.tmax[1] # -1 => Hung(h, 1) # 0 BY <1>0 DEF Sides
    <3> QED BY <1>0, <3>1, Trees
  <2>5. x \in sub[x] BY <1>0, Trees
  <2> QED BY <1>1, <2>2, <2>3, <2>4, <2>5
<1> QED BY <1>2, <1>3 DEF Stale

LEMMA JoinUps ==
    ASSUME NEW o, NEW h, NEW r, NEW sub, NEW o2, NEW g, NEW x, NEW l, NEW m,
           Joining(o, h, r, sub, o2, g, x, l, m),
           NEW new, new = JoinSub(o, h, sub, x, l, m)
    PROVE  Ups(o2, g, r)
<1> DEFINE q0 == h[x].link[0]
           q1 == h[x].link[1]
           k0 == KidOf(h, x, 0, l)
           k1 == KidOf(h, x, 1, m)
<1>0. /\ SplayTree(o, h, r, sub)
      /\ SplayOp(o, r) /\ SplayHeap(o, h) /\ Pieces(o, h, r, sub) /\ Sides(o, h, sub)
      /\ x = o.cur /\ x \in Keys /\ l = o.tmax[1] /\ m = o.tmax[0]
      /\ Apart(o) /\ ~AtCaller(o)
      BY JoinFacts
<1>a. /\ l \in Keys \union {-1} /\ m \in Keys \union {-1} /\ x # l /\ x # m
      /\ l # m \/ l = -1
      BY JoinFacts
<1>1. /\ o2.pc = "climb" /\ ~AtCaller(o2) /\ o2.cur = x
      /\ AssembledNodes(h, g, x, l, m)
      /\ \A y \in Keys, t \in {0, 1} : CutAt(o2, y, t) <=> y = o.victim /\ t = 0
      BY JoinOp
<1> HIDE DEF q0, q1, k0, k1
<1>2. \A y \in Keys :
         /\ \A w \in {0, 1} : g[y].link[w] =
               IF y = x THEN (IF w = 0 THEN k0 ELSE k1)
               ELSE IF y = l /\ w = 1 THEN q0
               ELSE IF y = m /\ w = 0 THEN q1
               ELSE h[y].link[w]
         /\ g[y].up = IF y = k0 \/ y = k1 THEN x
                      ELSE IF y = q1 THEN m
                      ELSE IF y = q0 THEN l
                      ELSE IF y = x THEN 0 ELSE h[y].up
      BY <1>1, Zenon DEF AssembledNodes, q0, q1, k0, k1
<1>3. /\ x \notin {q0, q1}
      /\ q0 \in Keys \union {0} /\ q1 \in Keys \union {0}
      /\ q0 # 0 => h[q0].up = x /\ q0 # q1
      /\ q1 # 0 => h[q1].up = x /\ q0 # q1
      /\ q0 # 0 => q0 \in sub[x]
      /\ q1 # 0 => q1 \in sub[x]
  <2>1. SearchTree(Keys, Cut(o, h), sub) BY JoinFacts
  <2>2. \A w \in {0, 1} : ~CutAt(o, x, w) /\ Cut(o, h)[x].link[w] = h[x].link[w]
        BY JoinFacts
  <2>3. \A w \in {0, 1} : h[x].link[w] # 0 => h[h[x].link[w]].up = x
        BY <1>0, <2>2, Zenon DEF SplayTree, Ups
  <2>4. \A w \in {0, 1} : /\ h[x].link[w] # x /\ h[x].link[w] \in Keys \union {0}
                          /\ h[x].link[w] # 0 => h[x].link[w] \in sub[x]
                          /\ h[x].link[w] # 0 => h[x].link[w] \in sub[h[x].link[w]]
        BY <1>0, <2>1, <2>2, NodeFacts
  <2>5. q0 = q1 => q0 = 0
    <3> SUFFICES ASSUME q0 = q1, q0 # 0 PROVE FALSE
        OBVIOUS
    <3>1. q0 \in sub[Cut(o, h)[x].link[0]] /\ q0 \in sub[Cut(o, h)[x].link[1]]
          BY <2>2, <2>4 DEF q0, q1
    <3>2. 0 = 1 BY <1>0, <2>1, <3>1, OneSide
    <3> QED BY <3>2
  <2> QED BY <2>3, <2>4, <2>5 DEF q0, q1
<1>4. /\ l = -1 => k0 = q0
      /\ l # -1 => k0 = Hung(h, 1) /\ k0 # 0
      /\ m = -1 => k1 = q1
      /\ m # -1 => k1 = Hung(h, 0) /\ k1 # 0
      /\ k0 \in Keys \union {0} /\ k1 \in Keys \union {0}
  <2>1. 1 - 0 = 1 /\ 1 - 1 = 0 OBVIOUS
  <2>2. l # -1 => Hung(h, 1) # 0 BY <1>0 DEF Sides
  <2>3. m # -1 => Hung(h, 0) # 0 BY <1>0 DEF Sides
  <2>4. \A u \in {0, 1} : Hung(h, u) \in Keys \union {0} BY <1>0, Trees
  <2> QED BY <1>3, <2>1, <2>2, <2>3, <2>4 DEF KidOf, k0, k1, q0, q1
<1>5. \A u \in {0, 1} : Hung(h, u) # 0 => /\ Hung(h, u) \notin sub[x]
                                          /\ Hung(h, u) # x
                                          /\ Hung(h, u) # Hung(h, 1 - u)
  <2> TAKE u \in {0, 1}
  <2> SUFFICES ASSUME Hung(h, u) # 0
               PROVE  Hung(h, u) \notin sub[x] /\ Hung(h, u) # x
                      /\ Hung(h, u) # Hung(h, 1 - u)
      OBVIOUS
  <2>1. /\ Hung(h, u) \in Keys /\ Hung(h, u) \in sub[Hung(h, u)]
        BY <1>0, Trees
  <2>2. Hung(h, u) \notin sub[x] /\ Hung(h, u) \notin sub[Hung(h, 1 - u)]
        BY <1>0, <2>1, Distinct
  <2>3. x \in sub[x] BY <1>0, Trees
  <2> QED BY <2>1, <2>2, <2>3
<1>6. /\ x \notin {k0, k1} /\ (k0 # 0 => k0 # k1)
      /\ q1 = k0 => q1 = 0
      /\ q0 = k1 => q0 = 0
      /\ q0 = k0 /\ q0 # 0 => l = -1
      /\ q1 = k1 /\ q1 # 0 => m = -1
  <2>1. 1 - 0 = 1 /\ 1 - 1 = 0 OBVIOUS
  <2>2. Hung(h, 1) # 0 => Hung(h, 1) \notin sub[x] /\ Hung(h, 1) # x /\ Hung(h, 1) # Hung(h, 0)
        BY <1>5, <2>1
  <2>3. Hung(h, 0) # 0 => Hung(h, 0) \notin sub[x] /\ Hung(h, 0) # x /\ Hung(h, 1) # Hung(h, 0)
        BY <1>5, <2>1
  <2> QED BY <1>3, <1>4, <2>2, <2>3
<1>7. ASSUME NEW y \in Keys, NEW t \in {0, 1}, g[y].link[t] # 0, ~CutAt(o2, y, t)
      PROVE  g[g[y].link[t]].up = y
  <2>1. CASE y = x
        BY <1>2, <1>4, <1>7, <2>1
  <2>2. CASE y = l /\ t = 1
    <3>1. y # x /\ l # -1 /\ g[y].link[t] = q0 BY <1>2, <1>a, <2>2, SplayKeysFacts
    <3> QED BY <1>2, <1>3, <1>6, <1>7, <2>2, <3>1
  <2>3. CASE y = m /\ t = 0
    <3>1. y # x /\ m # -1 /\ g[y].link[t] = q1 BY <1>2, <1>a, <2>3, SplayKeysFacts
    <3> QED BY <1>2, <1>3, <1>6, <1>7, <2>3, <3>1
  <2>4. CASE y # x /\ ~(y = l /\ t = 1) /\ ~(y = m /\ t = 0)
    <3> DEFINE z == h[y].link[t]
    <3>1. g[y].link[t] = z /\ z # 0
          BY <1>2, <1>7, <2>4
    <3>2. ~CutAt(o, y, t)
          BY <1>0, <1>1, <1>7, <2>4 DEF CutAt
    <3>3. z \in Keys /\ h[z].up = y
      <4>1. z \in Keys BY <1>0, <3>1, NodeTypes
      <4>2. h[z].up = y BY <1>0, <3>1, <3>2 DEF SplayTree, Ups
      <4> QED BY <4>1, <4>2
    <3>4. z # x /\ z # Hung(h, 0) /\ z # Hung(h, 1)
      <4>1. /\ x \in Roots(o, h, r) /\ Hung(h, 0) \in Roots(o, h, r)
            /\ Hung(h, 1) \in Roots(o, h, r)
            BY <1>0 DEF Roots
      <4>2. Cut(o, h)[y].link[t] = z BY <3>2, CutIs
      <4> QED BY <1>0, <3>3, <4>1, <4>2, Tops
    <3>5. z # q0 /\ z # q1
          BY <1>3, <2>4, <3>1, <3>3
    <3>6. z # k0 /\ z # k1
          BY <1>4, <3>4, <3>5
    <3> HIDE DEF z
    <3> QED BY <1>2, <3>1, <3>3, <3>4, <3>5, <3>6
  <2> QED BY <2>1, <2>2, <2>3, <2>4
<1>8. g[x].up = 0
      BY <1>0, <1>2, <1>3, <1>6
<1> QED BY <1>1, <1>7, <1>8 DEF Ups

LEMMA JoinSizes ==
    ASSUME NEW o, NEW h, NEW r, NEW sub, NEW o2, NEW g, NEW x, NEW l, NEW m,
           Joining(o, h, r, sub, o2, g, x, l, m),
           NEW new, new = JoinSub(o, h, sub, x, l, m)
    PROVE  Sizes(o2, g, r, new)
<1>0. /\ SplayTree(o, h, r, sub)
      /\ SplayOp(o, r) /\ SplayHeap(o, h) /\ Pieces(o, h, r, sub) /\ Sides(o, h, sub)
      /\ x = o.cur /\ x \in Keys /\ l = o.tmax[1] /\ m = o.tmax[0]
      /\ Apart(o) /\ ~AtCaller(o)
      BY JoinFacts
<1>1. /\ new[x] = sub[x] \union sub[Hung(h, 0)] \union sub[Hung(h, 1)]
      /\ \A y \in Keys \union {0} : y # x =>
            new[y] = IF l \in sub[y] THEN sub[y] \union sub[h[x].link[0]]
                     ELSE IF m \in sub[y] THEN sub[y] \union sub[h[x].link[1]]
                     ELSE sub[y]
  <2>1. JoinKeys(h, sub, new, x, l, m) BY JoinTree
  <2> QED BY <2>1 DEF JoinKeys
<1>2. o2.pc = "climb" /\ o2.cur = x /\ o2.tmax = o.tmax /\ o2.victim = o.victim
      BY JoinOp
<1>3. AssembledNodes(h, g, x, l, m)
      BY JoinOp
<1>4. All(o2, g, r, new) = All(o, h, r, sub)
      BY JoinPieces
<1>5. \A u \in {0, 1} : o.tmax[u] # -1 => o.tmax[u] \in sub[Hung(h, u)]
      BY <1>0 DEF Sides
<1>6. \A u \in {0, 1} : o.tmax[u] # -1 => o.tmax[u] \in new[x]
      BY <1>1, <1>5
<1>7. All(o, h, r, sub) \subseteq Keys /\ -1 \notin Keys /\ sub[0] = {}
      BY <1>0, Trees, SplayKeysFacts
<1>8. ASSUME NEW y \in All(o, h, r, sub), y # o.victim,
             \A u \in {0, 1} : o.tmax[u] \notin new[y]
      PROVE  IsMax(g[y].max, new[y])
  <2>1. CASE y = x
    <3>1. \A u \in {0, 1} : o.tmax[u] = -1
          BY <1>6, <1>8, <2>1
    <3>2. \A u \in {0, 1} : Hung(h, u) = 0
          BY <1>0, <3>1 DEF Sides
    <3>3. new[x] = sub[x] BY <1>1, <1>7, <3>2
    <3>4. IsMax(h[x].max, sub[x])
      <4>1. x \in sub[x] /\ sub[x] \subseteq Keys BY <1>0, Trees
      <4>2. \A u \in {0, 1} : o.tmax[u] \notin sub[x] BY <1>7, <3>1, <4>1
      <4> QED BY <1>0, <1>8, <2>1, <4>2 DEF SplayTree, Sizes
    <3> QED BY <1>0, <1>3, <2>1, <3>3, <3>4 DEF AssembledNodes
  <2>2. CASE y # x
    <3>1. l \notin sub[y] /\ m \notin sub[y]
      <4>1. sub[y] \subseteq new[y] BY <1>1, <1>7, <2>2
      <4> QED BY <1>0, <1>8, <4>1
    <3>2. new[y] = sub[y]
          BY <1>1, <1>7, <2>2, <3>1
    <3>3. IsMax(h[y].max, sub[y])
          BY <1>0, <1>8, <3>2 DEF SplayTree, Sizes
    <3> QED BY <1>3, <1>7, <3>2, <3>3 DEF AssembledNodes
  <2> QED BY <2>1, <2>2
<1>9. \A u \in {0, 1} : o.tmax[u] \in Keys => o.tmax[u] \in new[x]
      BY <1>6, <1>7
<1> QED BY <1>2, <1>4, <1>8, <1>9 DEF Sizes

LEMMA JoinIs ==
    ASSUME NEW o, NEW h, NEW r, NEW sub, NEW o2, NEW g, NEW x, NEW l, NEW m,
           Joining(o, h, r, sub, o2, g, x, l, m)
    PROVE  \E new : /\ SplayTree(o2, g, r, new)
                    /\ All(o2, g, r, new) = All(o, h, r, sub)
<1> DEFINE new == JoinSub(o, h, sub, x, l, m)
<1> HIDE DEF new
<1>1. All(o2, g, r, new) = All(o, h, r, sub) /\ Pieces(o2, g, r, new)
      BY JoinPieces DEF new
<1>2. /\ Settled(o2, g, new) /\ Stale(o2, g, new) /\ Ups(o2, g, r) /\ Sizes(o2, g, r, new)
      BY JoinSettled, JoinStale, JoinUps, JoinSizes DEF new
<1>3. SplayOp(o2, r) /\ SplayHeap(o2, g) /\ ~Apart(o2)
      BY JoinOp
<1>4. Sides(o2, g, new)
      BY <1>3 DEF Sides
<1> QED BY <1>1, <1>2, <1>3, <1>4 DEF SplayTree

LEMMA JoinUp ==
    ASSUME NEW sub, SplayTree(op, node, root, sub), Assemble
    PROVE  \E new : /\ SplayTree(op', node', root', new)
                    /\ All(op', node', root', new) = All(op, node, root, sub)
<1>1. /\ op.pc = "assemble" \/ (op.pc = "splay" /\ ~OnTheWay)
      /\ op' = [op EXCEPT !.pc = "climb"]
      /\ node' = Assembled(node, op.cur, op.tmax[1], op.tmax[0])
      /\ root' = root
      BY Zenon DEF Assemble, Assembled, NULL, HEAD, Side
<1>2. Apart(op)
      BY <1>1 DEF Apart
<1>3. op.key = op.cur \/ node[op.cur].link[IF op.key < op.cur THEN 0 ELSE 1] = 0
  <2>1. CASE op.pc = "assemble"
        BY <2>1 DEF SplayTree, Settled
  <2>2. CASE op.pc = "splay" /\ ~OnTheWay
        BY <2>2 DEF OnTheWay, Toward, NULL
  <2> QED BY <1>1, <2>1, <2>2
<1>4. Joining(op, node, root, sub, op', node', op.cur, op.tmax[1], op.tmax[0])
      BY <1>1, <1>2, <1>3 DEF Joining
<1> QED BY <1>1, <1>4, JoinIs
=============================================================================
