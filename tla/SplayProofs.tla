----------------------------- MODULE SplayProofs -----------------------------
(***************************************************************************)
(* Proofs about the splay tree, for every set of keys and every size of    *)
(* the nodes: the climbs after a splay put every max_size right, and what  *)
(* each call does to the tree is what callers of a set of keys expect.     *)
(***************************************************************************)
EXTENDS SplayPieces

-----------------------------------------------------------------------------
(***************************************************************************)
(* The climbs that put max_size right.                                     *)
(***************************************************************************)
LEMMA SameNode ==
    ASSUME NEW n \in SplayNode, NEW p \in SplayNode,
           n.link = p.link, n.up = p.up, n.max = p.max
    PROVE  n = p
<1>1. /\ n = [link |-> n.link, up |-> n.up, max |-> n.max]
      /\ p = [link |-> p.link, up |-> p.up, max |-> p.max]
      BY Zenon DEF SplayNode
<1> QED BY <1>1

\* A climb has come to m.
Climbing(o, h, r, sub, o2, g, s, m) ==
    /\ SplayTree(o, h, r, sub) /\ o.pc = "climb"
    /\ s \in {0, 1} /\ m = o.tmax[s] /\ m \in Keys
    /\ g = Refresh(h, m)
    /\ o2 = [o EXCEPT !.tmax[s] = h[m].up]

ClimbOp(o, h, o2, g, s, m) ==
    /\ o2.pc = "climb" /\ o2.call = o.call /\ o2.key = o.key /\ o2.cur = o.cur
    /\ o2.victim = o.victim /\ o2.ret = o.ret
    /\ o2.tmax[s] = h[m].up /\ o2.tmax[1 - s] = o.tmax[1 - s]
    /\ g \in [Keys \union {-1} -> SplayNode]
    /\ \A y \in Keys \union {-1} : y # m => g[y] = h[y]
    /\ g[m].link = h[m].link /\ g[m].up = h[m].up
    /\ Computed(h, g, m)

LEMMA ClimbingIs ==
    ASSUME NEW o, NEW h, NEW r, NEW sub, NEW o2, NEW g, NEW s, NEW m,
           Climbing(o, h, r, sub, o2, g, s, m)
    PROVE  ClimbOp(o, h, o2, g, s, m) /\ SplayOp(o2, r)
<1>1. /\ SplayOp(o, r) /\ SplayHeap(o, h) /\ o.pc = "climb"
      /\ s \in {0, 1} /\ m = o.tmax[s] /\ m \in Keys
      /\ g = Refresh(h, m)
      /\ o2 = [o EXCEPT !.tmax[s] = h[m].up]
      BY DEF Climbing, SplayTree
<1>2. h \in Heaps(Keys \union {0}) /\ h[m].up \in Keys \union {0}
      BY <1>1, HeapsAre, NodeTypes
<1>3. /\ g \in Heaps(Keys \union {0})
      /\ \A y \in Keys \union {-1} : /\ g[y].link = h[y].link
                                     /\ g[y].up = h[y].up
                                     /\ y # m => g[y].max = h[y].max
      /\ Computed(h, g, m)
  <2>1. m \in Keys \union {0} /\ m # 0 BY <1>1, SplayKeysFacts
  <2> QED BY <1>1, <1>2, <2>1, RefreshIs
<1>4. g \in [Keys \union {-1} -> SplayNode] /\ h \in [Keys \union {-1} -> SplayNode]
      BY <1>2, <1>3 DEF Heaps, SplayNode
<1>5. ASSUME NEW y \in Keys \union {-1}, y # m PROVE g[y] = h[y]
  <2>1. g[y] \in SplayNode /\ h[y] \in SplayNode BY <1>4
  <2> QED BY <1>3, <1>5, <2>1, SameNode
<1>6. o.tmax \in [{0, 1} -> Keys \union {0, -1}]
      BY <1>1 DEF SplayOp
<1>7. /\ o2.pc = "climb" /\ o2.call = o.call /\ o2.key = o.key /\ o2.cur = o.cur
      /\ o2.victim = o.victim /\ o2.ret = o.ret
      /\ o2.tmax[s] = h[m].up /\ o2.tmax[1 - s] = o.tmax[1 - s]
  <2>1. 1 - s \in {0, 1} /\ 1 - s # s BY <1>1
  <2> QED BY <1>1, <1>6, <2>1 DEF SplayOp
<1>8. o2 \in [pc : {"idle", "start", "splay", "assemble", "climb", "splayed", "done"},
              call : {"none", "insert", "remove", "lookup"},
              key : Keys \union {0}, cur : Keys \union {0},
              tmax : [{0, 1} -> Keys \union {0, -1}],
              victim : Keys \union {0}, ret : {"none", "yes", "no"}]
  <2>1. [o.tmax EXCEPT ![s] = h[m].up] \in [{0, 1} -> Keys \union {0, -1}]
        BY <1>2, <1>6
  <2> QED BY <1>1, <2>1 DEF SplayOp
<1>9. SplayOp(o2, r)
  <2>1. ~Apart(o2) /\ AtCaller(o2) = AtCaller(o)
        BY <1>1, <1>7 DEF Apart, AtCaller
  <2> QED BY <1>1, <1>7, <1>8, <2>1, Zenon DEF SplayOp
<1> QED BY <1>1, <1>3, <1>4, <1>5, <1>7, <1>9 DEF ClimbOp

\* What the climb finds on its way.
LEMMA ClimbPlace ==
    ASSUME NEW o, NEW h, NEW r, NEW sub, NEW o2, NEW g, NEW s, NEW m,
           Climbing(o, h, r, sub, o2, g, s, m)
    PROVE  /\ m \in sub[o.cur] /\ m # o.victim /\ m \in All(o, h, r, sub)
           /\ \A y \in Keys : m \in sub[y] /\ y # m => h[m].up \in sub[y]
           /\ h[m].up \in Keys => h[m].up \in sub[o.cur]
<1>1. /\ SplayTree(o, h, r, sub) /\ SplayOp(o, r) /\ SplayHeap(o, h)
      /\ Pieces(o, h, r, sub) /\ Sides(o, h, sub) /\ Ups(o, h, r) /\ Sizes(o, h, r, sub)
      /\ o.pc = "climb" /\ ~AtCaller(o) /\ ~Apart(o)
      /\ s \in {0, 1} /\ m = o.tmax[s] /\ m \in Keys
      BY DEF Climbing, SplayTree, AtCaller, Apart
<1>2. m \in sub[o.cur]
      BY <1>1 DEF Sizes
<1>3. /\ SearchTree(Keys, Cut(o, h), sub) /\ o.cur \in Keys
      /\ o.victim \in Keys \union {0}
      /\ \A y \in Keys : y \in sub[y]
      BY <1>1, Trees
<1>4. m # o.victim
  <2> SUFFICES ASSUME m = o.victim PROVE FALSE
      OBVIOUS
  <2>1. o.victim # 0 BY <1>1, SplayKeysFacts
  <2>2. m < m BY <1>1, <1>2, <2>1 DEF Pieces
  <2>3. m \in Nat BY <1>1, SplayKeysFacts
  <2> QED BY <2>2, <2>3
<1>5. m \in All(o, h, r, sub)
      BY <1>1, <1>2 DEF All
<1>6. ASSUME NEW y \in Keys, m \in sub[y], y # m
      PROVE  h[m].up \in sub[y]
  <2>1. PICK p \in sub[y], t \in {0, 1} : Cut(o, h)[p].link[t] = m
        BY <1>3, <1>6, HasParent
  <2>2. p \in Keys BY <1>3, <1>6 DEF SearchTree
  <2>3. ~CutAt(o, p, t) /\ h[p].link[t] = m /\ m # 0
        BY <1>1, <2>1, <2>2, CutIs, SplayKeysFacts
  <2>4. h[m].up = p
        BY <1>1, <2>2, <2>3 DEF Ups
  <2> QED BY <2>1, <2>4
<1>7. h[m].up \in Keys => h[m].up \in sub[o.cur]
  <2>1. CASE m = o.cur
    <3>1. h[m].up = 0 BY <1>1, <2>1 DEF Ups
    <3> QED BY <3>1, SplayKeysFacts
  <2>2. CASE m # o.cur
        BY <1>2, <1>3, <1>6, <2>2
  <2> QED BY <2>1, <2>2
<1> QED BY <1>2, <1>4, <1>5, <1>6, <1>7

LEMMA ClimbSizes ==
    ASSUME NEW o, NEW h, NEW r, NEW sub, NEW o2, NEW g, NEW s, NEW m,
           Climbing(o, h, r, sub, o2, g, s, m), All(o2, g, r, sub) = All(o, h, r, sub)
    PROVE  Sizes(o2, g, r, sub)
<1>1. /\ SplayTree(o, h, r, sub) /\ SplayOp(o, r) /\ SplayHeap(o, h)
      /\ Pieces(o, h, r, sub) /\ Sides(o, h, sub) /\ Sizes(o, h, r, sub)
      /\ o.pc = "climb" /\ ~AtCaller(o) /\ ~Apart(o)
      /\ s \in {0, 1} /\ m = o.tmax[s] /\ m \in Keys
      BY DEF Climbing, SplayTree, AtCaller, Apart
<1>2. /\ m \in sub[o.cur] /\ m # o.victim /\ m \in All(o, h, r, sub)
      /\ \A y \in Keys : m \in sub[y] /\ y # m => h[m].up \in sub[y]
      /\ h[m].up \in Keys => h[m].up \in sub[o.cur]
      BY ClimbPlace
<1>3. /\ o2.pc = "climb" /\ o2.cur = o.cur /\ o2.victim = o.victim
      /\ o2.tmax[s] = h[m].up /\ o2.tmax[1 - s] = o.tmax[1 - s]
      /\ \A y \in Keys \union {-1} : y # m => g[y] = h[y]
      /\ Computed(h, g, m) /\ g \in Heaps(Keys \union {0}) /\ h \in Heaps(Keys \union {0})
  <2>1. ClimbOp(o, h, o2, g, s, m) BY ClimbingIs
  <2>2. h \in Heaps(Keys \union {0}) BY <1>1, HeapsAre
  <2> QED BY <2>1, <2>2 DEF ClimbOp, Heaps, SplayNode
<1>4. /\ 1 - s \in {0, 1} /\ \A u \in {0, 1} : u = s \/ u = 1 - s
      BY <1>1
<1>5. /\ SearchTree(Keys, Cut(o, h), sub) /\ o.cur \in Keys /\ sub[0] = {}
      /\ sub \in [Keys \union {0} -> SUBSET Keys]
      /\ All(o, h, r, sub) \subseteq Keys
      BY <1>1, Trees
<1>6. ASSUME o.tmax[1 - s] \notin sub[m]
      PROVE  IsMax(g[m].max, sub[m])
  <2> DEFINE c(t) == h[m].link[t]
  <2>1. \A t \in {0, 1} : Cut(o, h)[m].link[t] = c(t)
        BY <1>1, <1>2, CutIs DEF CutAt
  <2>2. /\ sub[m] = {m} \union sub[c(0)] \union sub[c(1)]
        /\ \A t \in {0, 1} : /\ c(t) \in Keys \union {0}
                             /\ sub[c(t)] \subseteq sub[m] /\ m \notin sub[c(t)]
                             /\ c(t) # 0 => c(t) \in sub[c(t)]
    <3>1. /\ sub[m] = {m} \union sub[Cut(o, h)[m].link[0]] \union sub[Cut(o, h)[m].link[1]]
          BY <1>1, <1>5, Zenon DEF SearchTree
    <3>2. \A t \in {0, 1} : /\ Cut(o, h)[m].link[t] \in Keys \union {0}
                            /\ sub[Cut(o, h)[m].link[t]] \subseteq sub[m]
                            /\ m \notin sub[Cut(o, h)[m].link[t]]
                            /\ Cut(o, h)[m].link[t] # 0 =>
                                  Cut(o, h)[m].link[t] \in sub[Cut(o, h)[m].link[t]]
          BY <1>1, <1>5, NodeFacts
    <3> QED BY <2>1, <3>1, <3>2, Zenon
  <2>3. ASSUME NEW t \in {0, 1} PROVE Right(h, c(t), sub[c(t)])
    <3>1. CASE c(t) = 0 BY <1>5, <3>1 DEF Right
    <3>2. CASE c(t) # 0
      <4>1. sub[m] \subseteq sub[o.cur] BY <1>1, <1>2, <1>5, SubTrans
      <4>2. c(t) \in Keys /\ c(t) \in sub[o.cur] /\ sub[c(t)] \subseteq Keys
            BY <1>5, <2>2, <3>2, <4>1, Zenon
      <4>3. c(t) \in All(o, h, r, sub)
            BY <1>1, <4>2 DEF All
      <4>4. c(t) # o.victim
        <5> SUFFICES ASSUME c(t) = o.victim PROVE FALSE
            OBVIOUS
        <5>1. c(t) < c(t) BY <1>1, <3>2, <4>2 DEF Pieces
        <5>2. c(t) \in Nat BY <4>2, SplayKeysFacts, Zenon
        <5> QED BY <5>1, <5>2
      <4>5. \A u \in {0, 1} : o.tmax[u] \notin sub[c(t)]
            BY <1>1, <1>4, <1>6, <2>2, Zenon
      <4>6. IsMax(h[c(t)].max, sub[c(t)])
            BY <1>1, <4>3, <4>4, <4>5 DEF Sizes
      <4> QED BY <3>2, <4>2, <4>6 DEF Right
    <3> QED BY <3>1, <3>2
  <2>4. Right(h, h[m].link[0], sub[c(0)]) /\ Right(h, h[m].link[1], sub[c(1)])
        BY <2>3
  <2>5. IsMax(g[m].max, {m} \union sub[c(0)] \union sub[c(1)])
    <3> HIDE DEF c
    <3> QED BY <1>1, <1>3, <2>4, ComputedIs
  <2> QED BY <2>2, <2>5
<1>7. ASSUME NEW y \in All(o, h, r, sub), y # o.victim,
             \A u \in {0, 1} : o2.tmax[u] \notin sub[y]
      PROVE  IsMax(g[y].max, sub[y])
  <2>1. y \in Keys /\ o.tmax[1 - s] \notin sub[y] /\ h[m].up \notin sub[y]
        BY <1>1, <1>3, <1>4, <1>5, <1>7
  <2>2. CASE y = m
        BY <1>6, <2>1, <2>2
  <2>3. CASE y # m
    <3>1. m \notin sub[y] BY <1>2, <2>1, <2>3
    <3>2. \A u \in {0, 1} : o.tmax[u] \notin sub[y]
          BY <1>1, <1>4, <2>1, <3>1
    <3>3. IsMax(h[y].max, sub[y]) BY <1>1, <1>7, <3>2 DEF Sizes
    <3> QED BY <1>3, <2>1, <2>3, <3>3
  <2> QED BY <2>2, <2>3
<1>8. ASSUME NEW u \in {0, 1}, o2.tmax[u] \in Keys
      PROVE  o2.tmax[u] \in sub[o.cur]
  <2>1. CASE u = s BY <1>2, <1>3, <1>8, <2>1
  <2>2. CASE u = 1 - s BY <1>1, <1>3, <1>4, <1>8, <2>2 DEF Sizes
  <2> QED BY <1>4, <2>1, <2>2
<1> QED BY <1>3, <1>7, <1>8 DEF Sizes

LEMMA ClimbUp ==
    ASSUME NEW sub, SplayTree(op, node, root, sub), Climb
    PROVE  /\ SplayTree(op', node', root', sub)
           /\ All(op', node', root', sub) = All(op, node, root, sub)
<1> DEFINE s == IF op.tmax[1] \in Keys THEN 1 ELSE 0
           m == op.tmax[s]
<1>1. /\ Climbing(op, node, root, sub, op', node', s, m)
      /\ root' = root
      BY DEF Climb, Climbing
<1> HIDE DEF s, m
<1>2. ClimbOp(op, node, op', node', s, m) /\ SplayOp(op', root)
      BY <1>1, ClimbingIs
<1>3. /\ SplayOp(op, root) /\ SplayHeap(op, node) /\ op.pc = "climb"
      /\ Pieces(op, node, root, sub) /\ Stale(op, node, sub) /\ Settled(op, node, sub)
      /\ Ups(op, node, root) /\ m \in Keys
      /\ ~Apart(op) /\ ~AtCaller(op)
      BY <1>1 DEF Climbing, SplayTree, Apart, AtCaller
<1>4. /\ op'.pc = "climb" /\ op'.key = op.key /\ op'.cur = op.cur
      /\ op'.victim = op.victim /\ ~Apart(op') /\ ~AtCaller(op')
      BY <1>2 DEF ClimbOp, Apart, AtCaller
<1>5. /\ \A y \in Keys \union {-1} : node'[y].link = node[y].link /\ node'[y].up = node[y].up
      /\ node' \in [Keys \union {-1} -> SplayNode]
      /\ \A y \in Keys \union {-1} : y # m => node'[y] = node[y]
      BY <1>2 DEF ClimbOp
<1>6. node'[-1] = node[-1] /\ Hung(node', 0) = Hung(node, 0) /\ Hung(node', 1) = Hung(node, 1)
      BY <1>3, <1>5, SplayKeysFacts DEF Hung
<1>7. SplayHeap(op', node')
      BY <1>3, <1>5, <1>6 DEF SplayHeap
<1>8. All(op', node', root, sub) = All(op, node, root, sub)
      BY <1>3, <1>4, <1>6 DEF All
<1>9. \A y \in Keys, t \in {0, 1} : CutAt(op', y, t) <=> CutAt(op, y, t)
      BY <1>3, <1>4 DEF CutAt
<1>10. SearchTree(Keys, Cut(op', node'), sub)
  <2>1. \A y \in Keys, t \in {0, 1} : Cut(op', node')[y].link[t] = Cut(op, node)[y].link[t]
    <3> TAKE y \in Keys, t \in {0, 1}
    <3>1. node'[y].link[t] = node[y].link[t] BY <1>5
    <3> QED BY <1>9, <3>1, CutIs
  <2>2. SearchTree(Keys, Cut(op, node), sub) BY <1>3 DEF Pieces
  <2> QED BY <2>1, <2>2, SameLinks
<1>11. Pieces(op', node', root, sub)
  <2>1. \A x \in Keys \ All(op, node, root, sub) : node'[x] = NewNode
    <3>1. m \in All(op, node, root, sub) BY <1>1, ClimbPlace
    <3> QED BY <1>3, <1>5, <3>1 DEF Pieces
  <2>2. root \in All(op, node, root, sub) BY <1>3 DEF Pieces
  <2>3. op.victim # 0 =>
          \A a \in sub[op.cur] \union sub[Hung(node, 0)] \union sub[Hung(node, 1)] :
             a < op.victim
        BY <1>3 DEF Pieces
  <2> QED BY <1>4, <1>6, <1>8, <1>10, <2>1, <2>2, <2>3 DEF Pieces
<1>12. Sides(op', node', sub)
      BY <1>4 DEF Sides
<1>13. Stale(op', node', sub)
  <2>1. op.victim # 0 => op.victim \in Keys BY <1>3 DEF SplayOp
  <2>2. op.victim # 0 => node[op.victim].link[0] \in sub[op.cur]
        BY <1>3 DEF Stale
  <2> QED BY <1>4, <1>5, <2>1, <2>2 DEF Stale
<1>14. Settled(op', node', sub)
      BY <1>3, <1>4 DEF Settled
<1>15. Ups(op', node', root)
  <2>1. ASSUME NEW y \in Keys, NEW t \in {0, 1}, node'[y].link[t] # 0, ~CutAt(op', y, t)
        PROVE  node'[node'[y].link[t]].up = y
    <3>1. node'[y].link[t] = node[y].link[t] BY <1>5
    <3>2. node[y].link[t] \in Keys BY <1>3, <2>1, <3>1, NodeTypes
    <3>3. node[node[y].link[t]].up = y BY <1>3, <1>9, <2>1, <3>1 DEF Ups
    <3> QED BY <1>5, <3>1, <3>2, <3>3
  <2>2. node'[op.cur].up = 0
    <3>1. op.cur \in Keys BY <1>3, Trees
    <3>2. node[op.cur].up = 0 BY <1>3 DEF Ups
    <3> QED BY <1>5, <3>1, <3>2
  <2> QED BY <1>4, <2>1, <2>2 DEF Ups
<1>16. Sizes(op', node', root, sub)
      BY <1>1, <1>8, ClimbSizes
<1>17. SplayTree(op', node', root, sub)
      BY <1>2, <1>7, <1>11, <1>12, <1>13, <1>14, <1>15, <1>16 DEF SplayTree
<1> QED BY <1>1, <1>8, <1>17

LEMMA ClimbOver ==
    ASSUME NEW sub, SplayTree(op, node, root, sub), ClimbEnd
    PROVE  /\ SplayTree(op', node', root', sub)
           /\ All(op', node', root', sub) = All(op, node, root, sub)
<1>1. /\ op.pc = "climb" /\ \A s \in {0, 1} : op.tmax[s] \notin Keys
      /\ op' = [op EXCEPT !.pc = "splayed", !.tmax = [s \in {0, 1} |-> -1]]
      /\ node' = node /\ root' = root
      BY DEF ClimbEnd, Idle, HEAD, Side
<1>2. /\ SplayOp(op, root) /\ SplayHeap(op, node)
      /\ Pieces(op, node, root, sub) /\ Stale(op, node, sub) /\ Settled(op, node, sub)
      /\ Ups(op, node, root) /\ Sizes(op, node, root, sub)
      BY DEF SplayTree
<1>3. /\ op'.pc = "splayed" /\ op'.call = op.call /\ op'.key = op.key /\ op'.cur = op.cur
      /\ op'.victim = op.victim /\ op'.ret = op.ret
      /\ \A s \in {0, 1} : op'.tmax[s] = -1
      BY <1>1, <1>2 DEF SplayOp
<1>4. ~Apart(op) /\ ~Apart(op') /\ ~AtCaller(op) /\ ~AtCaller(op')
      BY <1>1, <1>3 DEF Apart, AtCaller
<1>5. op' \in [pc : {"idle", "start", "splay", "assemble", "climb", "splayed", "done"},
              call : {"none", "insert", "remove", "lookup"},
              key : Keys \union {0}, cur : Keys \union {0},
              tmax : [{0, 1} -> Keys \union {0, -1}],
              victim : Keys \union {0}, ret : {"none", "yes", "no"}]
      BY <1>1, <1>2 DEF SplayOp
<1>6. SplayOp(op', root)
      BY <1>1, <1>2, <1>3, <1>4, <1>5 DEF SplayOp
<1>7. SplayHeap(op', node)
      BY <1>2, <1>4 DEF SplayHeap
<1>8. All(op', node, root, sub) = All(op, node, root, sub)
      BY <1>3, <1>4 DEF All
<1>9. \A y \in Keys, t \in {0, 1} : CutAt(op', y, t) <=> CutAt(op, y, t)
      BY <1>3, <1>4 DEF CutAt
<1>10. SearchTree(Keys, Cut(op', node), sub)
  <2>1. \A y \in Keys, t \in {0, 1} : Cut(op', node)[y].link[t] = Cut(op, node)[y].link[t]
        BY <1>9, CutIs
  <2>2. SearchTree(Keys, Cut(op, node), sub) BY <1>2 DEF Pieces
  <2> QED BY <2>1, <2>2, SameLinks
<1>11. Pieces(op', node, root, sub)
      BY <1>2, <1>3, <1>4, <1>8, <1>10 DEF Pieces
<1>12. Sides(op', node, sub)
      BY <1>4 DEF Sides
<1>13. Stale(op', node, sub)
      BY <1>2, <1>3, <1>4 DEF Stale
<1>14. Settled(op', node, sub)
      BY <1>1, <1>2, <1>3, Zenon DEF Settled
<1>15. Ups(op', node, root)
      BY <1>1, <1>2, <1>3, <1>4, <1>9 DEF Ups
<1>16. Sizes(op', node, root, sub)
  <2>1. ASSUME NEW y \in All(op, node, root, sub), y # op.victim
        PROVE  IsMax(node[y].max, sub[y])
    <3>1. y \in Keys /\ sub[y] \subseteq Keys BY <1>2, Trees, <1>10 DEF Sides, SearchTree
    <3>2. \A s \in {0, 1} : op.tmax[s] \notin sub[y] BY <1>1, <3>1
    <3> QED BY <1>2, <2>1, <3>2 DEF Sizes
  <2> QED BY <1>3, <1>8, <2>1 DEF Sizes
<1> QED BY <1>1, <1>6, <1>7, <1>8, <1>11, <1>12, <1>13, <1>14, <1>15, <1>16 DEF SplayTree

-----------------------------------------------------------------------------
(***************************************************************************)
(* The tree in one piece.                                                  *)
(***************************************************************************)
Whole(h, r, sub) ==
    /\ SearchTree(Keys, h, sub)
    /\ h \in [Keys \union {-1} -> SplayNode]
    /\ h[-1] = NewNode
    /\ r \in Keys \union {0}
    /\ \A x \in Keys \ sub[r] : h[x] = NewNode
    /\ \A x \in Keys, t \in {0, 1} : h[x].link[t] # 0 => h[h[x].link[t]].up = x
    /\ r # 0 => h[r].up = 0
    /\ \A y \in sub[r] : IsMax(h[y].max, sub[y])

\* When nothing is cut.
LEMMA WholeTree ==
    ASSUME NEW o, NEW h, NEW sub, ~Apart(o), o.victim = 0
    PROVE  SearchTree(Keys, Cut(o, h), sub) <=> SearchTree(Keys, h, sub)
<1>1. ASSUME NEW y \in Keys, NEW t \in {0, 1}
      PROVE  Cut(o, h)[y].link[t] = h[y].link[t]
  <2>1. ~CutAt(o, y, t) BY <1>1, SplayKeysFacts DEF CutAt
  <2> QED BY <2>1, CutIs
<1> QED BY <1>1, SameLinks

LEMMA WholeAt ==
    ASSUME NEW o, NEW h, NEW r, NEW sub, SplayOp(o, r), AtCaller(o)
    PROVE  /\ SplayTree(o, h, r, sub) <=> Whole(h, r, sub)
           /\ All(o, h, r, sub) = sub[r]
<1>1. /\ ~Apart(o) /\ o.victim = 0 /\ o.cur = 0 /\ r \in Keys \union {0}
      /\ o.pc \notin {"splay", "assemble", "climb", "splayed"}
      /\ \A s \in {0, 1} : o.tmax[s] = -1
      BY DEF SplayOp, AtCaller, Apart
<1>2. All(o, h, r, sub) = sub[r]
      BY DEF All
<1>3. SearchTree(Keys, Cut(o, h), sub) <=> SearchTree(Keys, h, sub)
      BY <1>1, WholeTree
<1>4. \A y \in Keys, t \in {0, 1} : ~CutAt(o, y, t)
      BY <1>1, SplayKeysFacts DEF CutAt
<1>5. Sides(o, h, sub) /\ Stale(o, h, sub) /\ Settled(o, h, sub)
      BY <1>1 DEF Sides, Stale, Settled
<1>6. SplayHeap(o, h) <=> h \in [Keys \union {-1} -> SplayNode] /\ h[-1] = NewNode
      BY <1>1 DEF SplayHeap
<1>7. Pieces(o, h, r, sub) <=>
         /\ SearchTree(Keys, h, sub)
         /\ \A x \in Keys \ sub[r] : h[x] = NewNode
      BY <1>1, <1>2, <1>3 DEF Pieces
<1>8. Ups(o, h, r) <=>
         /\ \A x \in Keys, t \in {0, 1} : h[x].link[t] # 0 => h[h[x].link[t]].up = x
         /\ r # 0 => h[r].up = 0
      BY <1>1, <1>4 DEF Ups
<1>9. SearchTree(Keys, h, sub) =>
         (Sizes(o, h, r, sub) <=> \A y \in sub[r] : IsMax(h[y].max, sub[y]))
  <2> SUFFICES ASSUME SearchTree(Keys, h, sub)
               PROVE  Sizes(o, h, r, sub) <=> \A y \in sub[r] : IsMax(h[y].max, sub[y])
      OBVIOUS
  <2>1. \A y \in sub[r] : y \in Keys /\ -1 \notin sub[y]
        BY <1>1, SplayKeysFacts, Zenon DEF SearchTree
  <2>2. \A y \in sub[r] : y # o.victim /\ \A s \in {0, 1} : o.tmax[s] \notin sub[y]
        BY <1>1, <2>1, SplayKeysFacts
  <2> QED BY <1>1, <1>2, <2>2 DEF Sizes
<1> QED BY <1>1, <1>2, <1>5, <1>6, <1>7, <1>8, <1>9 DEF SplayTree, Whole

\* The splay of a call has ended, of a removal the first one.
LEMMA WholeSplayed ==
    ASSUME NEW o, NEW h, NEW r, NEW sub, SplayTree(o, h, r, sub), o.pc = "splayed",
           o.victim = 0
    PROVE  /\ Whole(h, o.cur, sub)
           /\ All(o, h, r, sub) = sub[o.cur]
           /\ o.cur \in Keys /\ o.key \in Keys /\ o.cur \in sub[o.cur]
           /\ \A y \in sub[o.cur] \ {o.cur} : y # o.key /\ (y < o.key <=> y < o.cur)
           /\ o.key \in sub[o.cur] <=> o.key = o.cur
<1>1. /\ SplayOp(o, r) /\ SplayHeap(o, h) /\ Pieces(o, h, r, sub) /\ Ups(o, h, r)
      /\ Sizes(o, h, r, sub) /\ Settled(o, h, sub)
      /\ ~Apart(o) /\ ~AtCaller(o)
      BY Zenon DEF SplayTree, Apart, AtCaller
<1>2. /\ SearchTree(Keys, Cut(o, h), sub) /\ sub[0] = {}
      /\ sub \in [Keys \union {0} -> SUBSET Keys]
      /\ \A y \in Keys : y \in sub[y]
      /\ o.cur \in Keys /\ o.key \in Keys
      /\ \A s \in {0, 1} : Hung(h, s) = 0
  <2>1. /\ SearchTree(Keys, Cut(o, h), sub)
        /\ o.cur \in Keys /\ o.key \in Keys
        /\ \A s \in {0, 1} : Hung(h, s) = 0
        BY <1>1, Trees
  <2> QED BY <2>1, NodeFacts DEF SearchTree
<1>3. \A s \in {0, 1} : o.tmax[s] = -1
  <2>1. o.pc # "climb" OBVIOUS
  <2> QED BY <1>1, <2>1 DEF SplayOp
<1>4. All(o, h, r, sub) = sub[o.cur]
      BY <1>1, <1>2 DEF All
<1>5. SearchTree(Keys, h, sub)
      BY <1>1, <1>2, WholeTree
<1>6. \A y \in Keys, t \in {0, 1} : ~CutAt(o, y, t)
      BY <1>1, SplayKeysFacts DEF CutAt
<1>7. h \in [Keys \union {-1} -> SplayNode] /\ h[-1] = NewNode
      BY <1>1 DEF SplayHeap
<1>8. \A x \in Keys \ sub[o.cur] : h[x] = NewNode
      BY <1>1, <1>4, Zenon DEF Pieces
<1>9. /\ \A x \in Keys, t \in {0, 1} : h[x].link[t] # 0 => h[h[x].link[t]].up = x
      /\ h[o.cur].up = 0
      BY <1>1, <1>6 DEF Ups
<1>10. \A y \in sub[o.cur] : IsMax(h[y].max, sub[y])
  <2> TAKE y \in sub[o.cur]
  <2>1. y \in Keys /\ -1 \notin sub[y] BY <1>2, SplayKeysFacts
  <2>2. y # o.victim /\ \A s \in {0, 1} : o.tmax[s] \notin sub[y]
        BY <1>3, <2>1, SplayKeysFacts
  <2> QED BY <1>1, <1>4, <2>2 DEF Sizes
<1>11. Whole(h, o.cur, sub)
       BY <1>2, <1>5, <1>7, <1>8, <1>9, <1>10 DEF Whole
<1>12. \A y \in sub[o.cur] \ {o.cur} : y # o.key /\ (y < o.key <=> y < o.cur)
       BY <1>1 DEF Settled
<1>13. o.key \in sub[o.cur] <=> o.key = o.cur
       BY <1>2, <1>12
<1> QED BY <1>2, <1>4, <1>11, <1>12, <1>13

\* A node that is not in the tree of r is in none.
Spare(h, r, sub) ==
    \A x \in Keys \ sub[r] : /\ h[x] = NewNode /\ sub[x] = {x}
                             /\ \A t \in {0, 1} : h[x].link[t] = 0
                             /\ \A y \in Keys : x \in sub[y] => y = x

LEMMA WholeFacts ==
    ASSUME NEW h, NEW r, NEW sub, Whole(h, r, sub)
    PROVE  /\ SearchTree(Keys, h, sub) /\ h \in Heaps(Keys \union {0})
           /\ sub \in [Keys \union {0} -> SUBSET Keys] /\ sub[0] = {}
           /\ r \in Keys \union {0} /\ sub[r] \subseteq Keys
           /\ r # 0 => r \in sub[r]
           /\ \A y \in Keys, t \in {0, 1} : h[y].link[t] \in Keys \union {0}
           /\ \A y \in Keys : y \in sub[r] => sub[y] \subseteq sub[r]
           /\ \A y \in Keys : r \in sub[y] => y = r
           /\ \A y \in Keys, t \in {0, 1} : h[y].link[t] # 0 => h[y].link[t] # r
           /\ Spare(h, r, sub)
<1>1. /\ SearchTree(Keys, h, sub) /\ r \in Keys \union {0}
      /\ h \in [Keys \union {-1} -> SplayNode]
      /\ \A x \in Keys \ sub[r] : h[x] = NewNode
      /\ \A x \in Keys, t \in {0, 1} : h[x].link[t] # 0 => h[h[x].link[t]].up = x
      /\ r # 0 => h[r].up = 0
      BY DEF Whole
<1>2. /\ sub \in [Keys \union {0} -> SUBSET Keys] /\ sub[0] = {}
      /\ \A y \in Keys : y \in sub[y]
      BY <1>1, NodeFacts DEF SearchTree
<1>3. h \in Heaps(Keys \union {0})
      BY <1>1 DEF Heaps, SplayNode
<1>4. \A y \in Keys, t \in {0, 1} : h[y].link[t] \in Keys \union {0}
      BY <1>1, NodeFacts
<1>5. \A y \in Keys : y \in sub[r] => sub[y] \subseteq sub[r]
  <2> TAKE y \in Keys
  <2> HAVE y \in sub[r]
  <2>1. r \in Keys BY <1>1, <1>2
  <2> QED BY <1>1, <2>1, SubTrans
<1>6. \A x \in Keys \ sub[r] : \A t \in {0, 1} : h[x].link[t] = 0
      BY <1>1, SplayNewNodeIs
<1>7. \A y \in Keys, t \in {0, 1} : h[y].link[t] # 0 => h[y].link[t] # r
  <2> TAKE y \in Keys, t \in {0, 1}
  <2> SUFFICES ASSUME h[y].link[t] # 0, h[y].link[t] = r PROVE FALSE
      OBVIOUS
  <2>1. h[r].up = y /\ h[r].up = 0 BY <1>1
  <2> QED BY <2>1, SplayKeysFacts
<1>8. Forest(Keys, h, sub, {r})
      BY <1>1, <1>6 DEF Forest
<1>9. ASSUME NEW x \in Keys, x = r \/ x \notin sub[r], NEW y \in Keys, x \in sub[y]
      PROVE  y = x
      BY <1>1, <1>8, <1>9, ForestTop
<1>10. ASSUME NEW x \in Keys \ sub[r] PROVE sub[x] = {x}
  <2>1. sub[x] = {x} \union sub[h[x].link[0]] \union sub[h[x].link[1]]
        BY <1>1 DEF SearchTree
  <2>2. h[x].link[0] = 0 /\ h[x].link[1] = 0 BY <1>6
  <2> QED BY <1>2, <2>1, <2>2
<1>11. ASSUME NEW y \in Keys, r \in sub[y] PROVE y = r
  <2>1. r \in Keys BY <1>2, <1>11
  <2> QED BY <1>9, <1>11, <2>1
<1>12. Spare(h, r, sub)
       BY <1>1, <1>6, <1>9, <1>10, Zenon DEF Spare
<1> QED BY <1>1, <1>2, <1>3, <1>4, <1>5, <1>7, <1>11, <1>12

-----------------------------------------------------------------------------
(***************************************************************************)
(* What insert and remove do to the tree when its root is the node that    *)
(* was looked for.                                                         *)
(***************************************************************************)
Sized(h, sub, S) == \A y \in S : IsMax(h[y].max, sub[y])

\* The links and parents stay.
SameShape(h, g) ==
    /\ g \in Heaps(Keys \union {0})
    /\ \A y \in Keys \union {-1} : g[y].link = h[y].link /\ g[y].up = h[y].up

ChildrenIn(h, x, S) ==
    \A t \in {0, 1} : h[x].link[t] # 0 => h[x].link[t] \in S

Refreshed(h, g, sub, x, S) ==
    /\ SameShape(h, g)
    /\ SearchTree(Keys, g, sub)
    /\ Sized(g, sub, IF x = 0 THEN S ELSE S \union {x})
    /\ \A y \in Keys \union {-1} : y # x => g[y].max = h[y].max

LEMMA RefreshSized ==
    ASSUME NEW h \in Heaps(Keys \union {0}), NEW sub, SearchTree(Keys, h, sub),
           NEW x \in Keys \union {0}, NEW S, S \subseteq Keys, Sized(h, sub, S),
           x = 0 \/ ChildrenIn(h, x, S)
    PROVE  Refreshed(h, Refresh(h, x), sub, x, S)
<1> DEFINE g == Refresh(h, x)
<1>1. /\ g \in Heaps(Keys \union {0})
      /\ \A y \in Keys \union {-1} : /\ g[y].link = h[y].link
                                     /\ g[y].up = h[y].up
                                     /\ y # x => g[y].max = h[y].max
      /\ x # 0 => Computed(h, g, x)
      BY RefreshIs
<1> HIDE DEF g
<1>2. SearchTree(Keys, g, sub)
      BY <1>1, SameLinks
<1>3. ASSUME x # 0 PROVE IsMax(g[x].max, sub[x])
  <2>1. /\ x \in Keys
        /\ sub[x] = {x} \union sub[h[x].link[0]] \union sub[h[x].link[1]]
        /\ sub[0] = {}
        BY <1>3 DEF SearchTree
  <2>2. ASSUME NEW t \in {0, 1} PROVE Right(h, h[x].link[t], sub[h[x].link[t]])
    <3>1. CASE h[x].link[t] = 0 BY <2>1, <3>1 DEF Right
    <3>2. CASE h[x].link[t] # 0
      <4>1. h[x].link[t] \in S BY <1>3, <3>2 DEF ChildrenIn
      <4>2. sub[h[x].link[t]] \subseteq Keys BY <4>1, NodeFacts
      <4> QED BY <3>2, <4>1, <4>2 DEF Right, Sized
    <3> QED BY <3>1, <3>2
  <2>3. IsMax(g[x].max, {x} \union sub[h[x].link[0]] \union sub[h[x].link[1]])
        BY <1>1, <1>3, <2>1, <2>2, ComputedIs
  <2> QED BY <2>1, <2>3
<1>4. \A y \in S : y # x => IsMax(g[y].max, sub[y])
      BY <1>1 DEF Sized
<1>5. \A y \in S : y # 0
      BY SplayKeysFacts
<1>6. Sized(g, sub, IF x = 0 THEN S ELSE S \union {x})
      BY <1>3, <1>4, <1>5 DEF Sized
<1> QED BY <1>1, <1>2, <1>6 DEF SameShape, Refreshed, g

\* The first node of a tree.
LEMMA FirstNode ==
    ASSUME NEW h, NEW sub, Whole(h, 0, sub), NEW k \in Keys,
           NEW g, g = Refresh([h EXCEPT ![k] = NewNode], k)
    PROVE  Whole(g, k, sub) /\ sub[k] = {k}
<1>1. /\ SearchTree(Keys, h, sub) /\ h \in Heaps(Keys \union {0}) /\ sub[0] = {}
      /\ \A x \in Keys : /\ h[x] = NewNode /\ sub[x] = {x}
                         /\ \A t \in {0, 1} : h[x].link[t] = 0
      /\ \A x \in Keys \ sub[0] : h[x] = NewNode
  <2>1. SearchTree(Keys, h, sub) /\ h \in Heaps(Keys \union {0}) /\ sub[0] = {}
        BY WholeFacts
  <2>2. Spare(h, 0, sub)
        BY WholeFacts
  <2> QED BY <2>1, <2>2 DEF Spare
<1>2. /\ h \in [Keys \union {-1} -> SplayNode] /\ h[-1] = NewNode
      BY DEF Whole
<1>3. [h EXCEPT ![k] = NewNode] = h
  <2>1. [h EXCEPT ![k] = NewNode] = [y \in Keys \union {-1} |-> h[y]]
        BY <1>1, <1>2
  <2>2. h = [y \in Keys \union {-1} |-> h[y]]
        BY <1>2
  <2> QED BY <2>1, <2>2, Zenon
<1>4. g = Refresh(h, k)
      BY <1>3
<1>5. k \in Keys \union {0} /\ k # 0 /\ -1 \notin Keys
      BY SplayKeysFacts
<1>6. /\ SameShape(h, g) /\ SearchTree(Keys, g, sub)
      /\ Sized(g, sub, {k})
      /\ \A y \in Keys \union {-1} : y # k => g[y].max = h[y].max
  <2>1. {} \subseteq Keys /\ Sized(h, sub, {})
        BY DEF Sized
  <2>2. ChildrenIn(h, k, {})
        BY <1>1 DEF ChildrenIn
  <2>3. Refreshed(h, g, sub, k, {})
        BY <1>1, <1>4, <1>5, <2>1, <2>2, RefreshSized
  <2> QED BY <1>5, <2>3 DEF Refreshed
<1>7. /\ g \in [Keys \union {-1} -> SplayNode]
      /\ \A y \in Keys \union {-1} : g[y].link = h[y].link /\ g[y].up = h[y].up
      BY <1>6 DEF SameShape, Heaps, SplayNode
<1>8. \A y \in Keys \union {-1} : y # k => g[y] = h[y]
      BY <1>2, <1>6, <1>7, SameNode, ZenonT(30)
<1>9. /\ \A x \in Keys, t \in {0, 1} : g[x].link[t] = 0
      /\ g[k].up = 0
      BY <1>1, <1>7, SplayNewNodeIs, ZenonT(30)
<1>10. \A y \in sub[k] : IsMax(g[y].max, sub[y])
       BY <1>1, <1>6 DEF Sized
<1>11. /\ g[-1] = NewNode
       /\ \A x \in Keys \ sub[k] : g[x] = NewNode
       BY <1>1, <1>2, <1>5, <1>8
<1>12. Whole(g, k, sub)
       BY <1>5, <1>6, <1>7, <1>9, <1>10, <1>11 DEF Whole
<1> QED BY <1>1, <1>12

-----------------------------------------------------------------------------
\* The new node k is put over the root x: what is beyond it goes to its side s,
\* x to the other.
Topping(h, sub, x, k, s, kid) ==
    /\ Whole(h, x, sub) /\ x \in Keys /\ k \in Keys /\ k \notin sub[x]
    /\ \A y \in sub[x] \ {x} : y < k <=> y < x
    /\ s = (IF k < x THEN 0 ELSE 1) /\ kid = h[x].link[s]

ToppedNodes(h, g, x, k, s, kid) ==
    /\ g \in Heaps(Keys \union {0})
    /\ \A y \in Keys \union {-1} :
          /\ \A t \in {0, 1} : g[y].link[t] =
                IF y = k THEN (IF t = s THEN kid ELSE x)
                ELSE IF y = x /\ t = s THEN 0 ELSE h[y].link[t]
          /\ g[y].up = IF y = kid \/ y = x THEN k ELSE IF y = k THEN 0 ELSE h[y].up
          /\ g[y].max = h[y].max

ToppedSub(h, sub, x, k, s, kid) ==
    Grafted(Grafted(Pruned(sub, h, x, s), k, kid), k, x)

LEMMA ToppingIs ==
    ASSUME NEW h, NEW sub, NEW x, NEW k, NEW s, NEW kid, Topping(h, sub, x, k, s, kid)
    PROVE  /\ Whole(h, x, sub) /\ h \in Heaps(Keys \union {0}) /\ SearchTree(Keys, h, sub)
           /\ x \in Keys /\ k \in Keys /\ k # x /\ s \in {0, 1} /\ 1 - s \in {0, 1}
           /\ 1 - s # s
           /\ kid \in Keys \union {0} /\ kid # x /\ kid # k
           /\ sub[k] = {k} /\ sub[0] = {} /\ \A t \in {0, 1} : h[k].link[t] = 0
           /\ \A y \in Keys : x \in sub[y] => y = x
           /\ \A y \in Keys : k \in sub[y] => y = k
           /\ sub[x] = {x} \union sub[kid] \union sub[h[x].link[1 - s]]
           /\ x \notin sub[kid] /\ k \notin sub[kid]
           /\ \A y \in sub[kid] : IF s = 0 THEN y < k ELSE y > k
           /\ \A y \in {x} \union sub[h[x].link[1 - s]] :
                 IF 1 - s = 0 THEN y < k ELSE y > k
           /\ x \in sub[x] /\ k \notin sub[x]
<1>1. /\ Whole(h, x, sub) /\ x \in Keys /\ k \in Keys /\ k \notin sub[x]
      /\ \A y \in sub[x] \ {x} : y < k <=> y < x
      /\ s = (IF k < x THEN 0 ELSE 1) /\ kid = h[x].link[s]
      BY DEF Topping
<1>2. /\ SearchTree(Keys, h, sub) /\ h \in Heaps(Keys \union {0})
      /\ sub[0] = {} /\ x \in sub[x] /\ sub[x] \subseteq Keys
      /\ \A y \in Keys : x \in sub[y] => y = x
      /\ sub[k] = {k} /\ \A t \in {0, 1} : h[k].link[t] = 0
      /\ \A y \in Keys : k \in sub[y] => y = k
  <2>1. /\ SearchTree(Keys, h, sub) /\ h \in Heaps(Keys \union {0})
        /\ sub[0] = {} /\ sub[x] \subseteq Keys
        /\ \A y \in Keys : x \in sub[y] => y = x
        BY <1>1, WholeFacts
  <2>2. \A z \in Keys \ sub[x] : /\ sub[z] = {z} /\ \A t \in {0, 1} : h[z].link[t] = 0
                                 /\ \A y \in Keys : z \in sub[y] => y = z
    <3>1. Spare(h, x, sub) BY <1>1, WholeFacts
    <3> QED BY <3>1 DEF Spare
  <2>3. x \in sub[x] BY <1>1, <2>1, NodeFacts
  <2> QED BY <1>1, <2>1, <2>2, <2>3
<1>3. s \in {0, 1} /\ 1 - s \in {0, 1} /\ 1 - s # s
      BY <1>1
<1>4. /\ kid \in Keys \union {0} /\ x \notin sub[kid]
      /\ sub[kid] \subseteq sub[x] /\ sub[h[x].link[1 - s]] \subseteq sub[x]
      /\ x \notin sub[h[x].link[1 - s]]
      /\ kid # x /\ (kid # 0 => kid \in sub[kid])
      BY <1>1, <1>2, <1>3, NodeFacts
<1>5. kid # k /\ k \notin sub[kid]
      BY <1>1, <1>4, SplayKeysFacts
<1>6. sub[x] = {x} \union sub[kid] \union sub[h[x].link[1 - s]]
  <2>1. sub[x] = {x} \union sub[h[x].link[0]] \union sub[h[x].link[1]]
        BY <1>1, <1>2 DEF SearchTree
  <2> QED BY <1>1, <1>3, <2>1, OtherSide
<1>7. \A t \in {0, 1} : \A y \in sub[h[x].link[t]] : IF t = 0 THEN y < x ELSE y > x
      BY <1>1, <1>2, Zenon DEF SearchTree
<1>8. \A y \in sub[x] : y \in Nat /\ x \in Nat /\ k \in Nat /\ y # k
      BY <1>1, <1>2, SplayKeysFacts, Zenon
<1>9. \A y \in sub[kid] : IF s = 0 THEN y < k ELSE y > k
  <2> TAKE y \in sub[kid]
  <2>1. y \in sub[x] /\ y # x BY <1>4
  <2>2. IF s = 0 THEN y < x ELSE y > x BY <1>1, <1>3, <1>7
  <2>3. y < k <=> y < x BY <1>1, <2>1
  <2>4. y \in Nat /\ x \in Nat /\ k \in Nat /\ y # k BY <1>8, <2>1
  <2> QED BY <1>3, <2>2, <2>3, <2>4
<1>10. \A y \in {x} \union sub[h[x].link[1 - s]] : IF 1 - s = 0 THEN y < k ELSE y > k
  <2> TAKE y \in {x} \union sub[h[x].link[1 - s]]
  <2>1. y \in sub[x] BY <1>2, <1>4
  <2>2. y = x \/ IF 1 - s = 0 THEN y < x ELSE y > x BY <1>3, <1>7
  <2>3. y \in Nat /\ x \in Nat /\ k \in Nat /\ y # k /\ x # k BY <1>2, <1>8, <2>1
  <2>4. (s = 0 /\ 1 - s = 1 /\ k < x) \/ (s = 1 /\ 1 - s = 0 /\ ~(k < x)) BY <1>1
  <2> QED BY <2>2, <2>3, <2>4
<1> QED BY <1>1, <1>2, <1>3, <1>4, <1>5, <1>6, <1>9, <1>10, Zenon

\* The nodes before max_size is put right.
Topping3(h, x, k, s, kid) ==
    set_parent([h EXCEPT
       ![k].link = [t \in {0, 1} |-> IF t = s THEN kid ELSE x],
       ![k].up = 0, ![x].up = k, ![x].link[s] = 0], kid, k)

LEMMA ToppedHeap ==
    ASSUME NEW h, NEW sub, NEW x, NEW k, NEW s, NEW kid, Topping(h, sub, x, k, s, kid)
    PROVE  ToppedNodes(h, Topping3(h, x, k, s, kid), x, k, s, kid)
<1> DEFINE e1 == [h EXCEPT ![k].link = [t \in {0, 1} |-> IF t = s THEN kid ELSE x]]
           e2 == [e1 EXCEPT ![k].up = 0]
           e3 == [e2 EXCEPT ![x].up = k]
           e4 == [e3 EXCEPT ![x].link[s] = 0]
           g == set_parent(e4, kid, k)
           H == Heaps(Keys \union {0})
<1>1. /\ h \in H /\ x \in Keys \union {-1} /\ k \in Keys \union {-1} /\ k # x
      /\ s \in {0, 1} /\ x \in Keys \union {0} /\ k \in Keys \union {0}
      /\ kid \in Keys \union {0} /\ kid # x /\ kid # k /\ 0 \in Keys \union {0}
  <2>1. /\ Whole(h, x, sub) /\ x \in Keys /\ k \in Keys /\ k # x /\ s \in {0, 1}
        /\ kid \in Keys \union {0} /\ kid # x /\ kid # k
        BY ToppingIs
  <2>2. h \in H BY <2>1, WholeFacts
  <2> QED BY <2>1, <2>2
<1>2. Topping3(h, x, k, s, kid) = g
      BY DEF Topping3
<1>3. /\ e1 \in H
      /\ \A y \in Keys \union {-1} :
            /\ e1[y].up = h[y].up /\ e1[y].max = h[y].max
            /\ \A t \in {0, 1} : e1[y].link[t] =
                  IF y = k THEN (IF t = s THEN kid ELSE x) ELSE h[y].link[t]
      BY <1>1 DEF Heaps
<1> HIDE DEF e1
<1>4. e2 \in H /\ UpPut(e1, e2, k, 0)
      BY <1>1, <1>3, PutUp
<1> HIDE DEF e2
<1>5. e3 \in H /\ UpPut(e2, e3, x, k)
      BY <1>1, <1>4, PutUp
<1> HIDE DEF e3
<1>6. e4 \in H /\ LinkPut(e3, e4, x, s, 0)
      BY <1>1, <1>5, PutLink
<1> HIDE DEF e4
<1>7. g \in H /\ UpPut(e4, g, kid, k)
      BY <1>1, <1>6, SetParentIs
<1> HIDE DEF g
<1>8. ASSUME NEW y \in Keys \union {-1}
      PROVE  /\ \A t \in {0, 1} : g[y].link[t] =
                   IF y = k THEN (IF t = s THEN kid ELSE x)
                   ELSE IF y = x /\ t = s THEN 0 ELSE h[y].link[t]
             /\ g[y].up = IF y = kid \/ y = x THEN k ELSE IF y = k THEN 0 ELSE h[y].up
             /\ g[y].max = h[y].max
  <2>1. /\ g[y].link = e4[y].link /\ g[y].max = e4[y].max
        /\ g[y].up = IF y = kid THEN k ELSE e4[y].up
        BY <1>7 DEF UpPut
  <2>2. /\ e4[y].up = e3[y].up /\ e4[y].max = e3[y].max
        /\ \A u \in {0, 1} : e4[y].link[u] = IF y = x /\ u = s THEN 0 ELSE e3[y].link[u]
        BY <1>6 DEF LinkPut
  <2>3. /\ e3[y].link = e2[y].link /\ e3[y].max = e2[y].max
        /\ e3[y].up = IF y = x THEN k ELSE e2[y].up
        BY <1>5 DEF UpPut
  <2>4. /\ e2[y].link = e1[y].link /\ e2[y].max = e1[y].max
        /\ e2[y].up = IF y = k THEN 0 ELSE e1[y].up
        BY <1>4 DEF UpPut
  <2>5. \A t \in {0, 1} : g[y].link[t] =
           IF y = k THEN (IF t = s THEN kid ELSE x)
           ELSE IF y = x /\ t = s THEN 0 ELSE h[y].link[t]
    <3> TAKE t \in {0, 1}
    <3>1. g[y].link[t] = IF y = x /\ t = s THEN 0 ELSE e1[y].link[t]
          BY <2>1, <2>2, <2>3, <2>4
    <3>2. e1[y].link[t] = IF y = k THEN (IF t = s THEN kid ELSE x) ELSE h[y].link[t]
          BY <1>3
    <3> QED BY <1>1, <3>1, <3>2
  <2>6. e1[y].up = h[y].up /\ e1[y].max = h[y].max
        BY <1>3
  <2> QED BY <1>1, <2>1, <2>2, <2>3, <2>4, <2>5, <2>6
<1> QED BY <1>2, <1>7, <1>8 DEF ToppedNodes

ToppedKeys(h, sub, new, x, k, s) ==
    /\ new[k] = sub[x] \union {k}
    /\ new[x] = {x} \union sub[h[x].link[1 - s]]
    /\ \A y \in Keys \union {0} : y # x /\ y # k => new[y] = sub[y]

LEMMA ToppedTree ==
    ASSUME NEW h, NEW sub, NEW x, NEW k, NEW s, NEW kid, Topping(h, sub, x, k, s, kid),
           NEW g, ToppedNodes(h, g, x, k, s, kid),
           NEW new, new = ToppedSub(h, sub, x, k, s, kid)
    PROVE  SearchTree(Keys, g, new) /\ ToppedKeys(h, sub, new, x, k, s)
<1> DEFINE c1 == [y \in Keys |-> [link |-> [t \in {0, 1} |->
                    IF y = x /\ t = s THEN 0 ELSE h[y].link[t]]]]
           c2 == [y \in Keys |-> [link |-> [t \in {0, 1} |->
                    IF y = k /\ t = s THEN kid ELSE c1[y].link[t]]]]
           n1 == Pruned(sub, h, x, s)
           n2 == Grafted(n1, k, kid)
           other == h[x].link[1 - s]
<1>1. /\ SearchTree(Keys, h, sub)
      /\ x \in Keys /\ k \in Keys /\ k # x /\ s \in {0, 1} /\ 1 - s \in {0, 1}
      /\ 1 - s # s
      /\ kid \in Keys \union {0} /\ kid # x /\ kid # k
      /\ sub[k] = {k} /\ sub[0] = {} /\ \A t \in {0, 1} : h[k].link[t] = 0
      BY ToppingIs
<1>2. /\ \A y \in Keys : x \in sub[y] => y = x
      /\ \A y \in Keys : k \in sub[y] => y = k
      /\ sub[x] = {x} \union sub[kid] \union sub[other]
      /\ x \notin sub[kid] /\ k \notin sub[kid]
      BY ToppingIs
<1>3. /\ \A y \in sub[kid] : IF s = 0 THEN y < k ELSE y > k
      /\ \A y \in {x} \union sub[other] : IF 1 - s = 0 THEN y < k ELSE y > k
      BY ToppingIs
<1>4. /\ \A y \in Keys, t \in {0, 1} :
            c1[y].link[t] = IF y = x /\ t = s THEN 0 ELSE h[y].link[t]
      /\ \A y \in Keys, t \in {0, 1} :
            c2[y].link[t] = IF y = k /\ t = s THEN kid ELSE c1[y].link[t]
      OBVIOUS
<1>5. sub \in [Keys \union {0} -> SUBSET Keys]
      BY <1>1 DEF SearchTree
<1>6. new = Grafted(n2, k, x)
      BY DEF ToppedSub
<1> HIDE DEF c1, c2, n1, n2, other
<1>7. SearchTree(Keys, c1, n1)
  <2>1. LinkSet(Keys, h, c1, x, s, 0)
        BY <1>4 DEF LinkSet
  <2>2. \A y \in Keys, u \in {0, 1} : h[y].link[u] # x
    <3> SUFFICES ASSUME NEW y \in Keys, NEW u \in {0, 1}, h[y].link[u] = x PROVE FALSE
        OBVIOUS
    <3>1. x \in sub[y] /\ x # y BY <1>1, NodeFacts
    <3> QED BY <1>2, <3>1
  <2> QED BY <1>1, <2>1, <2>2, PruneTree DEF n1
<1>8. /\ n1[x] = {x} \union sub[other]
      /\ \A y \in Keys \union {0} : y # x => n1[y] = sub[y]
      /\ DOMAIN n1 = Keys \union {0}
      BY <1>1, <1>5, Zenon DEF n1, Pruned, other
<1>9. other \in Keys \union {0} /\ k \notin sub[other] /\ k \notin sub[x]
  <2>1. other \in Keys \union {0} BY <1>1, NodeFacts DEF other
  <2>2. k \notin sub[x] BY <1>1, <1>2
  <2> QED BY <1>2, <2>1, <2>2, Zenon
<1>10. \A y \in Keys \union {0} : k \in n1[y] <=> y = k
  <2> TAKE y \in Keys \union {0}
  <2>1. CASE y = x BY <1>1, <1>8, <1>9, <2>1
  <2>2. CASE y # x BY <1>1, <1>2, <1>8, <2>2
  <2> QED BY <2>1, <2>2
<1>11. n1[kid] = sub[kid] /\ n1[k] = {k} /\ n1[0] = {}
       BY <1>1, <1>8, SplayKeysFacts
<1>12. SearchTree(Keys, c2, n2)
  <2>1. LinkSet(Keys, c1, c2, k, s, kid)
        BY <1>4 DEF LinkSet
  <2>2. c1[k].link[s] = 0
        BY <1>1, <1>4
  <2>3. \A y \in Keys, u \in {0, 1} : k \notin n1[c1[y].link[u]]
    <3> SUFFICES ASSUME NEW y \in Keys, NEW u \in {0, 1}, k \in n1[c1[y].link[u]]
                 PROVE  FALSE
        OBVIOUS
    <3>1. c1[y].link[u] \in Keys \union {0} BY <1>7, NodeFacts
    <3>2. c1[y].link[u] = k BY <1>10, <3>1
    <3>3. k \in n1[y] /\ k # y BY <1>1, <1>7, <3>2, NodeFacts
    <3> QED BY <1>10, <3>3
  <2>4. \A j \in n1[kid] : IF s = 0 THEN j < k ELSE j > k
        BY <1>3, <1>11
  <2> QED BY <1>1, <1>7, <2>1, <2>2, <2>3, <2>4, GraftTree DEF n2
<1>13. /\ n2[k] = {k} \union sub[kid]
       /\ \A y \in Keys \union {0} : y # k => n2[y] = n1[y]
       /\ DOMAIN n2 = Keys \union {0}
       BY <1>1, <1>8, <1>10, <1>11, Zenon DEF n2, Grafted
<1>14. SearchTree(Keys, g, new)
  <2>1. LinkSet(Keys, c2, g, k, 1 - s, x)
    <3> SUFFICES ASSUME NEW y \in Keys, NEW t \in {0, 1}
                 PROVE  g[y].link[t] = IF y = k /\ t = 1 - s THEN x ELSE c2[y].link[t]
        BY DEF LinkSet
    <3>1. g[y].link[t] = IF y = k THEN (IF t = s THEN kid ELSE x)
                         ELSE IF y = x /\ t = s THEN 0 ELSE h[y].link[t]
          BY DEF ToppedNodes
    <3>2. t = s \/ t = 1 - s BY <1>1
    <3> QED BY <1>1, <1>4, <3>1, <3>2
  <2>2. c2[k].link[1 - s] = 0
        BY <1>1, <1>4
  <2>3. n2[x] = {x} \union sub[other]
        BY <1>1, <1>8, <1>13
  <2>4. \A y \in Keys, u \in {0, 1} : k \notin n2[c2[y].link[u]]
    <3> SUFFICES ASSUME NEW y \in Keys, NEW u \in {0, 1}, k \in n2[c2[y].link[u]]
                 PROVE  FALSE
        OBVIOUS
    <3>1. c2[y].link[u] \in Keys \union {0} BY <1>12, NodeFacts
    <3>2. c2[y].link[u] = k BY <1>10, <1>13, <3>1
    <3>3. k \in n2[y] /\ k # y BY <1>1, <1>12, <3>2, NodeFacts
    <3> QED BY <1>10, <1>13, <3>3
  <2>5. \A j \in n2[x] : IF 1 - s = 0 THEN j < k ELSE j > k
        BY <1>3, <2>3
  <2> QED BY <1>1, <1>6, <1>12, <2>1, <2>2, <2>4, <2>5, GraftTree
<1>15. new[k] = sub[x] \union {k}
  <2>1. k \in n2[k] /\ n2[x] = {x} \union sub[other]
        BY <1>1, <1>8, <1>13
  <2>2. new[k] = n2[k] \union n2[x]
        BY <1>1, <1>6, <1>13, <2>1 DEF Grafted
  <2> QED BY <1>2, <1>13, <2>1, <2>2
<1>16. \A y \in Keys \union {0} : y # k => new[y] = n1[y]
       BY <1>6, <1>10, <1>13 DEF Grafted
<1> QED BY <1>1, <1>8, <1>14, <1>15, <1>16 DEF ToppedKeys, other

LEMMA ToppedUps ==
    ASSUME NEW h, NEW sub, NEW x, NEW k, NEW s, NEW kid, Topping(h, sub, x, k, s, kid),
           NEW g, ToppedNodes(h, g, x, k, s, kid)
    PROVE  /\ \A y \in Keys, t \in {0, 1} : g[y].link[t] # 0 => g[g[y].link[t]].up = y
           /\ g[k].up = 0
           /\ \A y \in Keys \ (sub[x] \union {k}) :
                 g[y].link = h[y].link /\ g[y].up = h[y].up /\ g[y].max = h[y].max
<1>1. /\ Whole(h, x, sub) /\ SearchTree(Keys, h, sub)
      /\ x \in Keys /\ k \in Keys /\ k # x /\ s \in {0, 1} /\ 1 - s # s
      /\ kid \in Keys \union {0} /\ kid # x /\ kid # k
      /\ x \notin sub[kid] /\ k \notin sub[kid] /\ x \in sub[x]
      BY ToppingIs
<1>2. /\ \A y \in Keys : x \in sub[y] => y = x
      /\ \A y \in Keys : k \in sub[y] => y = k
      BY ToppingIs
<1>3. /\ \A y \in Keys, t \in {0, 1} : h[y].link[t] # 0 => h[h[y].link[t]].up = y
      /\ h \in Heaps(Keys \union {0}) /\ kid = h[x].link[s]
      BY <1>1, WholeFacts DEF Whole, Topping
<1>4. \A y \in Keys :
          /\ \A t \in {0, 1} : g[y].link[t] =
                IF y = k THEN (IF t = s THEN kid ELSE x)
                ELSE IF y = x /\ t = s THEN 0 ELSE h[y].link[t]
          /\ g[y].up = IF y = kid \/ y = x THEN k ELSE IF y = k THEN 0 ELSE h[y].up
      BY DEF ToppedNodes
<1>5. ASSUME NEW y \in Keys, NEW t \in {0, 1}, g[y].link[t] # 0
      PROVE  g[g[y].link[t]].up = y
  <2>1. CASE y = k
    <3>1. g[y].link[t] = kid \/ g[y].link[t] = x BY <1>4, <2>1
    <3>2. g[y].link[t] \in Keys BY <1>1, <1>5, <3>1
    <3> QED BY <1>4, <2>1, <3>1, <3>2
  <2>2. CASE y # k
    <3> DEFINE z == h[y].link[t]
    <3>1. g[y].link[t] = z /\ ~(y = x /\ t = s) BY <1>4, <1>5, <2>2
    <3>2. z \in Keys /\ z \in sub[y] /\ z # y
          BY <1>1, <1>5, <3>1, NodeFacts
    <3>3. h[z].up = y BY <1>3, <1>5, <3>1
    <3> HIDE DEF z
    <3>4. z # x /\ z # k BY <1>2, <3>2
    <3>5. z # kid
      <4> SUFFICES ASSUME z = kid PROVE FALSE
          OBVIOUS
      <4>1. kid # 0 BY <3>2, SplayKeysFacts
      <4>2. h[kid].up = x BY <1>1, <1>3, <4>1
      <4>3. y = x /\ t # s BY <3>1, <3>3, <4>2
      <4>4. kid \in sub[kid] BY <1>1, <3>2, NodeFacts
      <4>5. kid \in sub[h[x].link[s]] /\ kid \in sub[h[x].link[t]]
            BY <1>3, <4>3, <4>4 DEF z
      <4>6. s = t
            BY <1>1, <4>5, OneSide
      <4> QED BY <4>3, <4>6
    <3> QED BY <1>4, <3>1, <3>2, <3>3, <3>4, <3>5
  <2> QED BY <2>1, <2>2
<1>6. g[k].up = 0
      BY <1>1, <1>4
<1>7. ASSUME NEW y \in Keys \ (sub[x] \union {k})
      PROVE  g[y].link = h[y].link /\ g[y].up = h[y].up /\ g[y].max = h[y].max
  <2>1. y # x /\ y # k BY <1>1, <1>7
  <2>2. y # kid
    <3> SUFFICES ASSUME y = kid PROVE FALSE
        OBVIOUS
    <3>1. kid # 0 BY <1>7, SplayKeysFacts, Zenon
    <3>2. kid \in sub[kid] /\ sub[kid] \subseteq sub[x]
          BY <1>1, <1>3, <3>1, NodeFacts
    <3> QED BY <1>7, <3>2
  <2>3. \A t \in {0, 1} : g[y].link[t] = h[y].link[t] BY <1>4, <2>1
  <2>4. g[y].link = h[y].link
    <3>1. /\ g \in Heaps(Keys \union {0}) /\ h \in Heaps(Keys \union {0})
          BY <1>3 DEF ToppedNodes
    <3>2. /\ g[y].link = [t \in {0, 1} |-> g[y].link[t]]
          /\ h[y].link = [t \in {0, 1} |-> h[y].link[t]]
          BY <3>1 DEF Heaps
    <3> QED BY <2>3, <3>2
  <2>5. g[y].up = h[y].up /\ g[y].max = h[y].max
        BY <1>4, <2>1, <2>2, Zenon DEF ToppedNodes
  <2> QED BY <2>4, <2>5
<1> QED BY <1>5, <1>6, <1>7

LEMMA ToppedWhole ==
    ASSUME NEW h, NEW sub, NEW x, NEW k, NEW s, NEW kid, Topping(h, sub, x, k, s, kid),
           NEW f, f = Topping3(h, x, k, s, kid),
           NEW g, g = Refresh(Refresh(Refresh(f, kid), x), k)
    PROVE  \E new : Whole(g, k, new) /\ new[k] = sub[x] \union {k}
<1> DEFINE new == ToppedSub(h, sub, x, k, s, kid)
           f1 == Refresh(f, kid)
           f2 == Refresh(f1, x)
           S0 == sub[x] \ {x}
           S1 == IF kid = 0 THEN S0 ELSE S0 \union {kid}
           S2 == S1 \union {x}
<1>1. /\ Whole(h, x, sub) /\ SearchTree(Keys, h, sub) /\ h \in Heaps(Keys \union {0})
      /\ x \in Keys /\ k \in Keys /\ k # x /\ s \in {0, 1} /\ 1 - s \in {0, 1}
      /\ kid \in Keys \union {0} /\ kid # x /\ kid # k
      /\ sub[x] = {x} \union sub[kid] \union sub[h[x].link[1 - s]]
      /\ x \notin sub[kid] /\ k \notin sub[kid] /\ x \in sub[x] /\ k \notin sub[x]
  <2>1. /\ Whole(h, x, sub) /\ SearchTree(Keys, h, sub)
        /\ x \in Keys /\ k \in Keys /\ k # x /\ s \in {0, 1} /\ 1 - s \in {0, 1}
        /\ kid \in Keys \union {0} /\ kid # x /\ kid # k
        /\ sub[x] = {x} \union sub[kid] \union sub[h[x].link[1 - s]]
        /\ x \notin sub[kid] /\ k \notin sub[kid] /\ x \in sub[x] /\ k \notin sub[x]
        BY ToppingIs
  <2>2. h \in Heaps(Keys \union {0}) BY <2>1, WholeFacts
  <2> QED BY <2>1, <2>2
<1>2. ToppedNodes(h, f, x, k, s, kid)
      BY ToppedHeap
<1>3. SearchTree(Keys, f, new) /\ ToppedKeys(h, sub, new, x, k, s)
      BY <1>2, ToppedTree
<1> HIDE DEF new
<1>4. /\ \A y \in Keys, t \in {0, 1} : f[y].link[t] # 0 => f[f[y].link[t]].up = y
      /\ f[k].up = 0
      /\ \A y \in Keys \ (sub[x] \union {k}) :
            f[y].link = h[y].link /\ f[y].up = h[y].up /\ f[y].max = h[y].max
      BY <1>2, ToppedUps
<1>5. /\ f \in Heaps(Keys \union {0})
      /\ \A y \in Keys \union {-1} :
          /\ \A t \in {0, 1} : f[y].link[t] =
                IF y = k THEN (IF t = s THEN kid ELSE x)
                ELSE IF y = x /\ t = s THEN 0 ELSE h[y].link[t]
          /\ f[y].up = IF y = kid \/ y = x THEN k ELSE IF y = k THEN 0 ELSE h[y].up
          /\ f[y].max = h[y].max
      BY <1>2 DEF ToppedNodes
<1>6. S0 \subseteq Keys /\ Sized(f, new, S0)
  <2>1. sub[x] \subseteq Keys BY <1>1, NodeFacts
  <2>2. ASSUME NEW y \in S0 PROVE IsMax(f[y].max, new[y])
    <3>1. y \in Keys /\ y # x /\ y # k /\ y \in sub[x] BY <1>1, <2>1
    <3>2. new[y] = sub[y] BY <1>3, <3>1, Zenon DEF ToppedKeys
    <3>3. IsMax(h[y].max, sub[y]) BY <1>1, <3>1 DEF Whole
    <3> QED BY <1>5, <3>1, <3>2, <3>3
  <2> QED BY <2>1, <2>2, Zenon DEF Sized
<1>7. \A y \in Keys, t \in {0, 1} :
         y \in sub[x] /\ h[y].link[t] # 0 => h[y].link[t] \in S0
  <2> TAKE y \in Keys, t \in {0, 1}
  <2> HAVE y \in sub[x] /\ h[y].link[t] # 0
  <2>1. h[y].link[t] \in sub[h[y].link[t]] /\ sub[h[y].link[t]] \subseteq sub[y]
        BY <1>1, NodeFacts
  <2>2. sub[y] \subseteq sub[x] BY <1>1, SubTrans
  <2>3. h[y].link[t] # x BY <1>1, WholeFacts
  <2> QED BY <2>1, <2>2, <2>3
<1>8. kid = 0 \/ (kid \in sub[x] /\ kid \in S0)
  <2>1. kid # 0 => kid \in sub[kid] BY <1>1, NodeFacts
  <2> QED BY <1>1, <2>1, Zenon
<1>9. Refreshed(f, f1, new, kid, S0)
  <2>1. kid = 0 \/ ChildrenIn(f, kid, S0)
    <3> SUFFICES ASSUME kid # 0, NEW t \in {0, 1}, f[kid].link[t] # 0
                 PROVE  f[kid].link[t] \in S0
        BY DEF ChildrenIn
    <3>1. kid \in Keys /\ kid \in sub[x] BY <1>1, <1>8
    <3>2. f[kid].link[t] = h[kid].link[t] BY <1>1, <1>5, <3>1
    <3> QED BY <1>7, <3>1, <3>2
  <2> HIDE DEF S0
  <2> QED BY <1>1, <1>3, <1>5, <1>6, <2>1, RefreshSized
<1>10. /\ f1 \in Heaps(Keys \union {0}) /\ SearchTree(Keys, f1, new) /\ Sized(f1, new, S1)
       /\ S1 = S0
  <2>1. S1 = S0 BY <1>8
  <2> QED BY <1>9, <2>1 DEF Refreshed, SameShape
<1> HIDE DEF f1
<1>11. Refreshed(f1, f2, new, x, S0)
  <2>1. ChildrenIn(f1, x, S0)
    <3> SUFFICES ASSUME NEW t \in {0, 1}, f1[x].link[t] # 0
                 PROVE  f1[x].link[t] \in S0
        BY DEF ChildrenIn
    <3>1. f1[x].link[t] = f[x].link[t] BY <1>1, <1>9 DEF Refreshed, SameShape
    <3>2. f[x].link[t] = h[x].link[t] BY <1>1, <1>5, <3>1
    <3> QED BY <1>1, <1>7, <3>1, <3>2
  <2>2. x \in Keys \union {0} BY <1>1
  <2> HIDE DEF S0, S1
  <2> QED BY <1>6, <1>10, <2>1, <2>2, RefreshSized, ZenonT(30)
<1>12. /\ f2 \in Heaps(Keys \union {0}) /\ SearchTree(Keys, f2, new)
       /\ Sized(f2, new, sub[x])
  <2>1. S0 \union {x} = sub[x] /\ x # 0 BY <1>1, SplayKeysFacts
  <2> QED BY <1>11, <2>1 DEF Refreshed, SameShape
<1> HIDE DEF f2, S0, S1, S2
<1>13. Refreshed(f2, g, new, k, sub[x])
  <2>1. ChildrenIn(f2, k, sub[x])
    <3> SUFFICES ASSUME NEW t \in {0, 1}, f2[k].link[t] # 0
                 PROVE  f2[k].link[t] \in sub[x]
        BY DEF ChildrenIn
    <3>1. f2[k].link[t] = f[k].link[t]
          BY <1>1, <1>9, <1>11 DEF Refreshed, SameShape
    <3>2. f[k].link[t] = kid \/ f[k].link[t] = x BY <1>1, <1>5, Zenon
    <3> QED BY <1>1, <1>8, <3>1, <3>2
  <2>2. k \in Keys \union {0} /\ sub[x] \subseteq Keys BY <1>1, NodeFacts
  <2>3. g = Refresh(f2, k) BY DEF f1, f2
  <2> QED BY <1>12, <2>1, <2>2, <2>3, RefreshSized
<1>14. /\ g \in Heaps(Keys \union {0}) /\ SearchTree(Keys, g, new)
       /\ Sized(g, new, sub[x] \union {k})
  <2>1. k # 0 BY <1>1, SplayKeysFacts
  <2> QED BY <1>13, <2>1 DEF Refreshed, SameShape
<1>15. \A y \in Keys \union {-1} : g[y].link = f[y].link /\ g[y].up = f[y].up
       BY <1>9, <1>11, <1>13 DEF Refreshed, SameShape
<1>16. ASSUME NEW y \in Keys \union {-1}, y \notin sub[x] \union {k}
       PROVE  g[y] = h[y]
  <2>1. y # x /\ y # k /\ y # kid BY <1>1, <1>8, <1>16, SplayKeysFacts
  <2>2. g[y].max = f[y].max /\ f[y].max = h[y].max
    <3>1. g[y].max = f2[y].max BY <1>13, <2>1 DEF Refreshed
    <3>2. f2[y].max = f1[y].max BY <1>11, <2>1 DEF Refreshed
    <3>3. f1[y].max = f[y].max BY <1>9, <2>1 DEF Refreshed
    <3> QED BY <1>5, <3>1, <3>2, <3>3
  <2>3. f[y].link = h[y].link /\ f[y].up = h[y].up
    <3>1. CASE y \in Keys BY <1>4, <1>16, <3>1
    <3>2. CASE y = -1
      <4>1. f[y].up = h[y].up BY <1>5, <2>1
      <4>2. \A t \in {0, 1} : f[y].link[t] = h[y].link[t] BY <1>5, <2>1
      <4>3. /\ f[y].link = [t \in {0, 1} |-> f[y].link[t]]
            /\ h[y].link = [t \in {0, 1} |-> h[y].link[t]]
            BY <1>1, <1>5 DEF Heaps
      <4> QED BY <4>1, <4>2, <4>3
    <3> QED BY <3>1, <3>2
  <2>4. g[y] \in SplayNode /\ h[y] \in SplayNode
        BY <1>1, <1>14 DEF Heaps, SplayNode
  <2> QED BY <1>15, <2>2, <2>3, <2>4, SameNode
<1>17. new[k] = sub[x] \union {k}
       BY <1>3 DEF ToppedKeys
<1>18. g \in [Keys \union {-1} -> SplayNode]
       BY <1>14 DEF Heaps, SplayNode
<1>19. g[-1] = NewNode
  <2>1. h[-1] = NewNode BY <1>1 DEF Whole
  <2>2. -1 \notin sub[x] \union {k}
    <3>1. sub[x] \subseteq Keys BY <1>1, NodeFacts
    <3> QED BY <1>1, <3>1, SplayKeysFacts
  <2> QED BY <1>16, <2>1, <2>2
<1>20. \A y \in Keys \ new[k] : g[y] = NewNode
  <2>1. \A y \in Keys \ sub[x] : h[y] = NewNode BY <1>1 DEF Whole
  <2> QED BY <1>16, <1>17, <2>1, Zenon
<1>21. \A y \in Keys, t \in {0, 1} : g[y].link[t] # 0 => g[g[y].link[t]].up = y
  <2> TAKE y \in Keys, t \in {0, 1}
  <2> HAVE g[y].link[t] # 0
  <2>1. f[y].link[t] \in Keys \union {0} BY <1>3, NodeFacts
  <2> QED BY <1>4, <1>15, <2>1
<1>22. g[k].up = 0
       BY <1>1, <1>4, <1>15
<1>23. \A y \in new[k] : IsMax(g[y].max, new[y])
       BY <1>14, <1>17 DEF Sized
<1>24. k \in Keys \union {0}
       BY <1>1
<1> QED BY <1>14, <1>17, <1>18, <1>19, <1>20, <1>21, <1>22, <1>23, <1>24 DEF Whole

-----------------------------------------------------------------------------
\* A node has left the tree, and q is to be the root.
Leaving(f, q, sub) ==
    /\ SearchTree(Keys, f, sub) /\ q \in Keys \union {0}
    /\ f \in [Keys \union {-1} -> SplayNode] /\ f[-1] = NewNode
    /\ Sized(f, sub, sub[q] \ {q})
    /\ \A x \in Keys \ sub[q] : f[x] = NewNode
    /\ \A x \in Keys, t \in {0, 1} : f[x].link[t] # 0 =>
          f[f[x].link[t]].up = x /\ f[x].link[t] # q

LEMMA LeavingIs ==
    ASSUME NEW f, NEW q, NEW sub, Leaving(f, q, sub)
    PROVE  Whole(set_parent(Refresh(f, q), q, 0), q, sub)
<1> DEFINE f1 == Refresh(f, q)
           g == set_parent(f1, q, 0)
           S == sub[q] \ {q}
<1>1. /\ SearchTree(Keys, f, sub) /\ q \in Keys \union {0}
      /\ f \in [Keys \union {-1} -> SplayNode] /\ f[-1] = NewNode
      /\ Sized(f, sub, S)
      /\ \A x \in Keys \ sub[q] : f[x] = NewNode
      /\ \A x \in Keys, t \in {0, 1} : f[x].link[t] # 0 =>
            f[f[x].link[t]].up = x /\ f[x].link[t] # q
      BY DEF Leaving
<1>2. /\ f \in Heaps(Keys \union {0}) /\ sub[q] \subseteq Keys /\ sub[0] = {}
      /\ q # 0 => q \in sub[q]
  <2>1. f \in Heaps(Keys \union {0}) BY <1>1 DEF Heaps, SplayNode
  <2>2. sub[q] \subseteq Keys /\ sub[0] = {} BY <1>1 DEF SearchTree
  <2>3. q # 0 => q \in sub[q] BY <1>1, NodeFacts
  <2> QED BY <2>1, <2>2, <2>3
<1>3. q = 0 \/ ChildrenIn(f, q, S)
  <2> SUFFICES ASSUME q # 0, NEW t \in {0, 1}, f[q].link[t] # 0
               PROVE  f[q].link[t] \in S
      BY DEF ChildrenIn
  <2>1. q \in Keys BY <1>1, Zenon
  <2>2. f[q].link[t] \in sub[f[q].link[t]] /\ sub[f[q].link[t]] \subseteq sub[q]
        BY <1>1, <2>1, NodeFacts
  <2>3. f[q].link[t] # q BY <1>1, <2>1
  <2> QED BY <2>2, <2>3
<1>4. Refreshed(f, f1, sub, q, S)
  <2>1. S \subseteq Keys BY <1>2
  <2> HIDE DEF S
  <2> QED BY <1>1, <1>2, <1>3, <2>1, RefreshSized
<1> HIDE DEF f1
<1>5. /\ f1 \in Heaps(Keys \union {0}) /\ SearchTree(Keys, f1, sub)
      /\ Sized(f1, sub, sub[q])
      /\ \A y \in Keys \union {-1} : f1[y].link = f[y].link /\ f1[y].up = f[y].up
      /\ \A y \in Keys \union {-1} : y # q => f1[y].max = f[y].max
  <2>1. (IF q = 0 THEN S ELSE S \union {q}) = sub[q]
        BY <1>2
  <2> QED BY <1>4, <2>1 DEF Refreshed, SameShape
<1>6. g \in Heaps(Keys \union {0}) /\ UpPut(f1, g, q, 0)
  <2>1. 0 \in Keys \union {0} OBVIOUS
  <2> QED BY <1>1, <1>5, <2>1, SetParentIs
<1> HIDE DEF g
<1>7. \A y \in Keys \union {-1} :
         /\ g[y].link = f[y].link /\ g[y].max = f1[y].max
         /\ g[y].up = IF y = q THEN 0 ELSE f[y].up
      BY <1>5, <1>6 DEF UpPut
<1>8. ASSUME NEW y \in Keys \union {-1}, y # q PROVE g[y] = f[y]
  <2>1. g[y].link = f[y].link /\ g[y].max = f[y].max /\ g[y].up = f[y].up
        BY <1>5, <1>7, <1>8
  <2>2. g[y] \in SplayNode /\ f[y] \in SplayNode
        BY <1>1, <1>6 DEF Heaps, SplayNode
  <2> QED BY <2>1, <2>2, SameNode
<1>9. SearchTree(Keys, g, sub)
      BY <1>1, <1>7, SameLinks
<1>10. g \in [Keys \union {-1} -> SplayNode]
       BY <1>6 DEF Heaps, SplayNode
<1>11. g[-1] = NewNode /\ \A x \in Keys \ sub[q] : g[x] = NewNode
  <2>1. q # -1 BY <1>1, SplayKeysFacts
  <2>2. \A x \in Keys \ sub[q] : x # q BY <1>2, SplayKeysFacts
  <2> QED BY <1>1, <1>8, <2>1, <2>2
<1>12. ASSUME NEW x \in Keys, NEW t \in {0, 1}, g[x].link[t] # 0
       PROVE  g[g[x].link[t]].up = x
  <2>1. g[x].link[t] = f[x].link[t] BY <1>7
  <2>2. f[x].link[t] \in Keys BY <1>1, <1>12, <2>1, NodeFacts
  <2> QED BY <1>1, <1>7, <1>12, <2>1, <2>2
<1>13. q # 0 => g[q].up = 0
       BY <1>1, <1>7
<1>14. \A y \in sub[q] : IsMax(g[y].max, sub[y])
       BY <1>2, <1>5, <1>7 DEF Sized
<1>15. Whole(g, q, sub)
       BY <1>1, <1>9, <1>10, <1>11, <1>12, <1>13, <1>14 DEF Whole
<1> QED BY <1>15 DEF g, f1

\* A root with nothing on its left.
LEMMA SmallestLeaves ==
    ASSUME NEW h, NEW sub, NEW x \in Keys, Whole(h, x, sub), h[x].link[0] = 0,
           NEW q, q = h[x].link[1], NEW f, f = [h EXCEPT ![x] = NewNode]
    PROVE  \E new : Leaving(f, q, new) /\ new[q] = sub[x] \ {x}
<1> DEFINE new == Pruned(sub, h, x, 1)
<1>1. /\ SearchTree(Keys, h, sub) /\ h \in [Keys \union {-1} -> SplayNode]
      /\ h[-1] = NewNode
      /\ \A y \in Keys \ sub[x] : h[y] = NewNode
      /\ \A y \in Keys, t \in {0, 1} : h[y].link[t] # 0 => h[h[y].link[t]].up = y
      /\ \A y \in sub[x] : IsMax(h[y].max, sub[y])
      BY DEF Whole
<1>2. /\ sub \in [Keys \union {0} -> SUBSET Keys] /\ sub[0] = {} /\ x \in sub[x]
      /\ sub[x] \subseteq Keys
      /\ q \in Keys \union {0} /\ q # x /\ x \notin sub[q] /\ sub[q] \subseteq sub[x]
      /\ sub[x] = {x} \union sub[q]
  <2>1. sub \in [Keys \union {0} -> SUBSET Keys] /\ sub[0] = {} /\ x \in sub[x]
        BY <1>1, NodeFacts DEF SearchTree
  <2>2. q \in Keys \union {0} /\ q # x /\ x \notin sub[q] /\ sub[q] \subseteq sub[x]
        BY <1>1, NodeFacts
  <2>3. sub[x] = {x} \union sub[h[x].link[0]] \union sub[h[x].link[1]]
        BY <1>1 DEF SearchTree
  <2> QED BY <2>1, <2>2, <2>3
<1>3. /\ \A y \in Keys : x \in sub[y] => y = x
      /\ \A y \in Keys, t \in {0, 1} : h[y].link[t] # 0 => h[y].link[t] # x
      BY WholeFacts
<1>4. /\ f \in [Keys \union {-1} -> SplayNode]
      /\ \A y \in Keys \union {-1} : y # x => f[y] = h[y]
      /\ f[x] = NewNode
      BY <1>1, SplayNewNodeIs
<1>5. -1 \notin Keys /\ 0 \notin Keys
      BY SplayKeysFacts
<1>6. SearchTree(Keys, f, new)
  <2>1. LinkSet(Keys, h, f, x, 1, 0)
    <3> SUFFICES ASSUME NEW y \in Keys, NEW u \in {0, 1}
                 PROVE  f[y].link[u] = IF y = x /\ u = 1 THEN 0 ELSE h[y].link[u]
        BY DEF LinkSet
    <3>1. CASE y = x BY <1>4, <3>1, SplayNewNodeIs
    <3>2. CASE y # x BY <1>4, <3>2
    <3> QED BY <3>1, <3>2
  <2>2. \A y \in Keys, u \in {0, 1} : h[y].link[u] # x
        BY <1>3, <1>5
  <2>3. 1 \in {0, 1} OBVIOUS
  <2> HIDE DEF new
  <2> QED BY <1>1, <2>1, <2>2, <2>3, PruneTree DEF new
<1>7. \A y \in Keys \union {0} : y # x => new[y] = sub[y]
      BY <1>2 DEF Pruned
<1> HIDE DEF new
<1>8. new[q] = sub[x] \ {x}
      BY <1>2, <1>7
<1>9. Sized(f, new, new[q] \ {q})
  <2> SUFFICES ASSUME NEW y \in new[q] PROVE IsMax(f[y].max, new[y])
      BY DEF Sized
  <2>1. y \in sub[x] /\ y # x /\ y \in Keys BY <1>2, <1>8
  <2> QED BY <1>1, <1>4, <1>7, <2>1
<1>10. \A y \in Keys \ new[q] : f[y] = NewNode
  <2> SUFFICES ASSUME NEW y \in Keys \ new[q] PROVE f[y] = NewNode
      BY Zenon
  <2>1. CASE y = x BY <1>4, <2>1
  <2>2. CASE y # x
    <3>1. y \notin sub[x] BY <1>8, <2>2
    <3> QED BY <1>1, <1>4, <2>2, <3>1
  <2> QED BY <2>1, <2>2
<1>11. ASSUME NEW y \in Keys, NEW t \in {0, 1}, f[y].link[t] # 0
       PROVE  f[f[y].link[t]].up = y /\ f[y].link[t] # q
  <2>1. y # x BY <1>4, <1>11, SplayNewNodeIs
  <2>2. f[y].link[t] = h[y].link[t] BY <1>4, <2>1, Zenon
  <2>3. /\ h[y].link[t] \in Keys /\ h[y].link[t] # x
        /\ h[h[y].link[t]].up = y
        BY <1>1, <1>3, <1>11, <2>2, NodeFacts
  <2>4. h[y].link[t] # q
        BY <1>1, <1>11, <2>1, <2>2, <2>3
  <2> QED BY <1>4, <2>2, <2>3, <2>4
<1>12. f[-1] = NewNode
       BY <1>1, <1>4, <1>5, Zenon
<1>13. Leaving(f, q, new)
       BY <1>2, <1>4, <1>6, <1>9, <1>10, <1>11, <1>12 DEF Leaving
<1> QED BY <1>8, <1>13

\* The tree x that has been splayed gets the right side of the victim v.
Rejoining(o, h, r, sub, x, v, q, f) ==
    /\ SplayTree(o, h, r, sub) /\ o.pc = "splayed"
    /\ x = o.cur /\ v = o.victim /\ v # 0
    /\ q = h[v].link[1]
    /\ f = [set_parent([h EXCEPT ![x].link[1] = q], q, x)
              EXCEPT ![v] = NewNode]

LEMMA RejoinFacts ==
    ASSUME NEW o, NEW h, NEW r, NEW sub, NEW x, NEW v, NEW q, NEW f,
           Rejoining(o, h, r, sub, x, v, q, f)
    PROVE  /\ SearchTree(Keys, Cut(o, h), sub) /\ x \in Keys /\ v \in Keys /\ x # v
           /\ sub[0] = {} /\ x \in sub[x] /\ v \in sub[v]
           /\ q \in Keys \union {0} /\ q # x /\ q # v
           /\ sub[v] = {v} \union sub[q] /\ v \notin sub[q]
           /\ q # 0 => q \in sub[q]
           /\ \A k \in sub[x] : k \notin sub[v]
           /\ \A k \in sub[x], j \in sub[v] : k < j
           /\ Cut(o, h)[v].link[0] = 0 /\ Cut(o, h)[v].link[1] = q
           /\ h[x].link[1] = 0
           /\ \A y \in Keys, t \in {0, 1} : y # v \/ t = 1 =>
                 Cut(o, h)[y].link[t] = h[y].link[t]
           /\ All(o, h, r, sub) = sub[x] \union sub[v]
<1>1. /\ SplayTree(o, h, r, sub) /\ SplayOp(o, r) /\ SplayHeap(o, h)
      /\ Pieces(o, h, r, sub) /\ Sides(o, h, sub) /\ Settled(o, h, sub)
      /\ ~Apart(o) /\ ~AtCaller(o)
      /\ o.pc = "splayed" /\ x = o.cur /\ v = o.victim /\ v # 0 /\ q = h[v].link[1]
      BY DEF Rejoining, SplayTree, Apart, AtCaller
<1>2. /\ SearchTree(Keys, Cut(o, h), sub) /\ o.cur \in Keys
      /\ o.victim \in Keys \union {0}
      /\ \A s \in {0, 1} : Hung(h, s) = 0
  <2>1. SearchTree(Keys, Cut(o, h), sub) /\ o.cur \in Keys BY <1>1, Trees
  <2>2. o.victim \in Keys \union {0} /\ \A s \in {0, 1} : ~Apart(o) => Hung(h, s) = 0
        BY <1>1, Trees
  <2> QED BY <1>1, <2>1, <2>2
<1>3. x \in Keys /\ v \in Keys
      BY <1>1, <1>2
<1>4. /\ sub \in [Keys \union {0} -> SUBSET Keys] /\ sub[0] = {}
      /\ x \in sub[x] /\ v \in sub[v]
      BY <1>2, <1>3, NodeFacts DEF SearchTree
<1>5. \A y \in Keys, t \in {0, 1} : CutAt(o, y, t) <=> y = v /\ t = 0
      BY <1>1 DEF CutAt
<1>6. /\ Cut(o, h)[v].link[0] = 0 /\ Cut(o, h)[v].link[1] = q
      /\ \A y \in Keys, t \in {0, 1} : y # v \/ t = 1 =>
            Cut(o, h)[y].link[t] = h[y].link[t]
      BY <1>1, <1>3, <1>5, CutIs
<1>7. /\ q \in Keys \union {0} /\ q # v /\ v \notin sub[q] /\ (q # 0 => q \in sub[q])
      BY <1>2, <1>3, <1>6, NodeFacts
<1>8. sub[v] = {v} \union sub[q]
  <2>1. sub[v] = {v} \union sub[Cut(o, h)[v].link[0]] \union sub[Cut(o, h)[v].link[1]]
        BY <1>2, <1>3 DEF SearchTree
  <2> QED BY <1>4, <1>6, <2>1
<1>9. \A k \in sub[x] : k \notin sub[v]
  <2> SUFFICES ASSUME NEW k \in sub[x], k \in sub[v] PROVE FALSE
      OBVIOUS
  <2>1. k \in Keys BY <1>3, <1>4
  <2> QED BY <1>1, <2>1, Distinct
<1>10. \A k \in sub[x] : k < v
       BY <1>1 DEF Pieces
<1>11. \A k \in sub[x], j \in sub[v] : k < j
  <2> TAKE k \in sub[x], j \in sub[v]
  <2>1. j = v \/ j > v
    <3>1. \A t \in {0, 1} : \A i \in sub[Cut(o, h)[v].link[t]] :
             IF t = 0 THEN i < v ELSE i > v
          BY <1>2, <1>3, Zenon DEF SearchTree
    <3>2. \A i \in sub[Cut(o, h)[v].link[1]] : i > v BY ONLY <3>1
    <3> QED BY <1>6, <1>8, <3>2
  <2>2. k \in Nat /\ j \in Nat /\ v \in Nat
    <3>1. k \in Keys /\ j \in Keys BY <1>3, <1>4
    <3> QED BY <1>3, <3>1, SplayKeysFacts
  <2> QED BY <1>10, <2>1, <2>2
<1>12. x # v
       BY <1>4, <1>9
<1>13. h[x].link[1] = 0
  <2> SUFFICES ASSUME h[x].link[1] # 0 PROVE FALSE
      OBVIOUS
  <2> DEFINE z == h[x].link[1]
  <2>1. Cut(o, h)[x].link[1] = z BY <1>3, <1>6
  <2>2. /\ z \in sub[z] /\ sub[z] \subseteq sub[x] /\ z # x
        BY <1>2, <1>3, <2>1, NodeFacts
  <2>3. z > x
    <3>1. \A t \in {0, 1} : \A i \in sub[Cut(o, h)[x].link[t]] :
             IF t = 0 THEN i < x ELSE i > x
          BY <1>2, <1>3, Zenon DEF SearchTree
    <3>2. \A i \in sub[Cut(o, h)[x].link[1]] : i > x BY ONLY <3>1
    <3> QED BY <2>1, <2>2, <3>2
  <2>4. o.key = v BY <1>1 DEF SplayOp
  <2>5. z < v <=> z < x BY <1>1, <2>2, <2>4 DEF Settled
  <2>6. z < v BY <1>10, <2>2
  <2>7. z \in Nat /\ x \in Nat BY <1>3, <1>4, <2>2, SplayKeysFacts
  <2> HIDE DEF z
  <2> QED BY <2>3, <2>5, <2>6, <2>7
<1>14. q # x
       BY <1>3, <1>4, <1>7, <1>8, <1>9, SplayKeysFacts
<1>15. All(o, h, r, sub) = sub[x] \union sub[v]
       BY <1>1, <1>2, <1>4 DEF All
<1> QED BY <1>2, <1>3, <1>4, <1>6, <1>7, <1>8, <1>9, <1>11, <1>12, <1>13, <1>14, <1>15

RejoinNodes(h, f, x, v, q) ==
    /\ f \in [Keys \union {-1} -> SplayNode]
    /\ f[v] = NewNode
    /\ \A y \in Keys \union {-1} : y # v =>
          /\ \A t \in {0, 1} : f[y].link[t] = IF y = x /\ t = 1 THEN q ELSE h[y].link[t]
          /\ f[y].up = IF y = q THEN x ELSE h[y].up
          /\ f[y].max = h[y].max
    /\ \A y \in Keys \union {-1} : y \notin {v, x, q} => f[y] = h[y]

LEMMA RejoinHeap ==
    ASSUME NEW o, NEW h, NEW r, NEW sub, NEW x, NEW v, NEW q, NEW f,
           Rejoining(o, h, r, sub, x, v, q, f)
    PROVE  RejoinNodes(h, f, x, v, q)
<1> DEFINE e1 == [h EXCEPT ![x].link[1] = q]
           e2 == set_parent(e1, q, x)
           H == Heaps(Keys \union {0})
<1>1. f = [e2 EXCEPT ![v] = NewNode] /\ SplayHeap(o, h)
      BY DEF Rejoining, SplayTree
<1>2. x \in Keys /\ v \in Keys /\ q \in Keys \union {0} /\ q # v /\ x # v
      BY RejoinFacts
<1>3. x \in Keys \union {-1} /\ x \in Keys \union {0} /\ 1 \in {0, 1} /\ h \in H
      BY <1>1, <1>2, HeapsAre
<1>4. e1 \in H /\ LinkPut(h, e1, x, 1, q)
      BY <1>2, <1>3, PutLink
<1> HIDE DEF e1
<1>5. e2 \in H /\ UpPut(e1, e2, q, x)
      BY <1>2, <1>3, <1>4, SetParentIs
<1> HIDE DEF e2
<1>6. /\ f \in [Keys \union {-1} -> SplayNode] /\ f[v] = NewNode
      /\ \A y \in Keys \union {-1} : y # v => f[y] = e2[y]
  <2>1. e2 \in [Keys \union {-1} -> SplayNode] BY <1>5 DEF Heaps, SplayNode
  <2> QED BY <1>1, <1>2, <2>1, SplayNewNodeIs
<1>7. ASSUME NEW y \in Keys \union {-1}, y # v
      PROVE  /\ \A t \in {0, 1} : f[y].link[t] = IF y = x /\ t = 1 THEN q ELSE h[y].link[t]
             /\ f[y].up = IF y = q THEN x ELSE h[y].up
             /\ f[y].max = h[y].max
  <2>1. f[y] = e2[y] BY <1>6, <1>7
  <2>2. /\ e2[y].link = e1[y].link /\ e2[y].max = e1[y].max
        /\ e2[y].up = IF y = q THEN x ELSE e1[y].up
        BY <1>5 DEF UpPut
  <2>3. /\ e1[y].up = h[y].up /\ e1[y].max = h[y].max
        /\ \A u \in {0, 1} : e1[y].link[u] = IF y = x /\ u = 1 THEN q ELSE h[y].link[u]
        BY <1>4 DEF LinkPut
  <2> QED BY <2>1, <2>2, <2>3
<1>8. ASSUME NEW y \in Keys \union {-1}, y \notin {v, x, q} PROVE f[y] = h[y]
  <2>1. f[y] \in SplayNode /\ h[y] \in SplayNode
        BY <1>1, <1>6 DEF SplayHeap
  <2>2. f[y].up = h[y].up /\ f[y].max = h[y].max /\ \A t \in {0, 1} : f[y].link[t] = h[y].link[t]
        BY <1>7, <1>8
  <2>3. f[y].link = h[y].link
    <3>1. /\ f[y].link = [t \in {0, 1} |-> f[y].link[t]]
          /\ h[y].link = [t \in {0, 1} |-> h[y].link[t]]
          BY <2>1 DEF SplayNode
    <3> QED BY <2>2, <3>1
  <2> QED BY <2>1, <2>2, <2>3, SameNode
<1> QED BY <1>6, <1>7, <1>8 DEF RejoinNodes

LEMMA RejoinTree ==
    ASSUME NEW o, NEW h, NEW r, NEW sub, NEW x, NEW v, NEW q, NEW f,
           Rejoining(o, h, r, sub, x, v, q, f),
           NEW new, new = Grafted(Pruned(sub, Cut(o, h), v, 1), x, q)
    PROVE  /\ SearchTree(Keys, f, new)
           /\ new[x] = sub[x] \union sub[q]
           /\ \A y \in Keys : y # x /\ y # v => new[y] = sub[y]
<1> DEFINE c == Cut(o, h)
           c1 == [y \in Keys |-> [link |-> [t \in {0, 1} |->
                    IF y = v /\ t = 1 THEN 0 ELSE c[y].link[t]]]]
           n1 == Pruned(sub, c, v, 1)
<1>1. /\ SearchTree(Keys, c, sub) /\ x \in Keys /\ v \in Keys /\ x # v
      /\ sub[0] = {} /\ x \in sub[x] /\ v \in sub[v]
      /\ q \in Keys \union {0} /\ q # x /\ q # v
      /\ sub[v] = {v} \union sub[q] /\ v \notin sub[q]
      BY RejoinFacts
<1>2. /\ \A k \in sub[x] : k \notin sub[v]
      /\ \A k \in sub[x], j \in sub[v] : k < j
      BY RejoinFacts
<1>3. /\ c[v].link[0] = 0 /\ c[v].link[1] = q
      /\ h[x].link[1] = 0
      /\ \A y \in Keys, t \in {0, 1} : y # v \/ t = 1 => c[y].link[t] = h[y].link[t]
      BY RejoinFacts
<1>4. /\ \A y \in Keys : x \in sub[y] => y = x
      /\ \A y \in Keys : v \in sub[y] => y = v
      /\ \A y \in Keys, t \in {0, 1} : c[y].link[t] # v /\ c[y].link[t] # x
  <2>1. /\ SplayOp(o, r) /\ SplayHeap(o, h) /\ Pieces(o, h, r, sub) /\ Sides(o, h, sub)
        /\ x = o.cur /\ v = o.victim /\ ~AtCaller(o)
        BY DEF Rejoining, SplayTree, AtCaller
  <2>2. x \in Roots(o, h, r) /\ v \in Roots(o, h, r)
        BY <2>1 DEF Roots
  <2>3. \A y \in Keys : x \in sub[y] => y = x BY <1>1, <2>1, <2>2, Tops
  <2>4. \A y \in Keys : v \in sub[y] => y = v BY <1>1, <2>1, <2>2, Tops
  <2>5. ASSUME NEW y \in Keys, NEW t \in {0, 1} PROVE c[y].link[t] # v /\ c[y].link[t] # x
    <3>1. \A z \in Keys : c[y].link[t] = z => z \in sub[y] /\ z # y
          BY <1>1, NodeFacts
    <3> HIDE DEF c
    <3> QED BY <1>1, <2>3, <2>4, <3>1
  <2> QED BY <2>3, <2>4, <2>5
<1>5. \A y \in Keys, t \in {0, 1} :
         c1[y].link[t] = IF y = v /\ t = 1 THEN 0 ELSE c[y].link[t]
      OBVIOUS
<1>6. sub \in [Keys \union {0} -> SUBSET Keys]
      BY <1>1 DEF SearchTree
<1>7. new = Grafted(n1, x, q)
      OBVIOUS
<1> HIDE DEF c, c1, n1
<1>8. SearchTree(Keys, c1, n1)
  <2>1. LinkSet(Keys, c, c1, v, 1, 0) BY <1>5 DEF LinkSet
  <2>2. 1 \in {0, 1} /\ \A y \in Keys, u \in {0, 1} : c[y].link[u] # v BY <1>4
  <2> QED BY <1>1, <2>1, <2>2, PruneTree DEF n1
<1>9. /\ n1[v] = {v}
      /\ \A y \in Keys \union {0} : y # v => n1[y] = sub[y]
      /\ DOMAIN n1 = Keys \union {0}
  <2>1. n1[v] = {v} \union sub[c[v].link[1 - 1]] BY <1>1, <1>6 DEF n1, Pruned
  <2>2. 1 - 1 = 0 OBVIOUS
  <2>3. n1[v] = {v} BY <1>1, <1>3, <2>1, <2>2
  <2> QED BY <1>6, <2>3, Zenon DEF n1, Pruned
<1>10. \A y \in Keys \union {0} : x \in n1[y] <=> y = x
  <2> TAKE y \in Keys \union {0}
  <2>1. CASE y = v BY <1>1, <1>9, <2>1
  <2>2. CASE y # v BY <1>1, <1>4, <1>9, <2>2
  <2> QED BY <2>1, <2>2
<1>11. SearchTree(Keys, f, new)
  <2>1. LinkSet(Keys, c1, f, x, 1, q)
    <3> SUFFICES ASSUME NEW y \in Keys, NEW t \in {0, 1}
                 PROVE  f[y].link[t] = IF y = x /\ t = 1 THEN q ELSE c1[y].link[t]
        BY DEF LinkSet
    <3>1. RejoinNodes(h, f, x, v, q) BY RejoinHeap
    <3>2. CASE y = v
      <4>1. f[y].link[t] = 0 BY <3>1, <3>2, SplayNewNodeIs DEF RejoinNodes
      <4>2. c1[y].link[t] = 0 BY <1>3, <1>5, <3>2
      <4> QED BY <1>1, <3>2, <4>1, <4>2
    <3>3. CASE y # v
      <4>1. f[y].link[t] = IF y = x /\ t = 1 THEN q ELSE h[y].link[t]
            BY <3>1, <3>3 DEF RejoinNodes
      <4>2. c1[y].link[t] = h[y].link[t] BY <1>3, <1>5, <3>3
      <4> QED BY <4>1, <4>2
    <3> QED BY <3>2, <3>3
  <2>2. c1[x].link[1] = 0 BY <1>1, <1>3, <1>5
  <2>3. \A y \in Keys, u \in {0, 1} : x \notin n1[c1[y].link[u]]
    <3> SUFFICES ASSUME NEW y \in Keys, NEW u \in {0, 1}, x \in n1[c1[y].link[u]]
                 PROVE  FALSE
        OBVIOUS
    <3>1. c1[y].link[u] \in Keys \union {0} BY <1>8, NodeFacts
    <3>2. c1[y].link[u] = x BY <1>10, <3>1
    <3>3. x \in n1[y] /\ x # y BY <1>1, <1>8, <3>2, NodeFacts
    <3> QED BY <1>10, <3>3
  <2>4. \A j \in n1[q] : IF 1 = 0 THEN j < x ELSE j > x
    <3> TAKE j \in n1[q]
    <3>1. j \in sub[v] /\ j \in Keys BY <1>1, <1>6, <1>9
    <3>2. x < j /\ x \in Nat /\ j \in Nat BY <1>1, <1>2, <3>1, SplayKeysFacts
    <3> QED BY <3>2
  <2>5. 1 \in {0, 1} OBVIOUS
  <2> QED BY <1>1, <1>7, <1>8, <2>1, <2>2, <2>3, <2>4, <2>5, GraftTree
<1>12. /\ new[x] = n1[x] \union n1[q]
       /\ \A y \in Keys : y # x => new[y] = n1[y]
       BY <1>1, <1>7, <1>9, <1>10 DEF Grafted
<1> QED BY <1>1, <1>9, <1>11, <1>12

LEMMA VictimLeaves ==
    ASSUME NEW o, NEW h, NEW r, NEW sub, NEW x, NEW v, NEW q, NEW f,
           Rejoining(o, h, r, sub, x, v, q, f)
    PROVE  \E new : Leaving(f, x, new) /\ new[x] = All(o, h, r, sub) \ {v}
<1> DEFINE new == Grafted(Pruned(sub, Cut(o, h), v, 1), x, q)
<1>0. /\ SplayTree(o, h, r, sub) /\ SplayOp(o, r) /\ SplayHeap(o, h)
      /\ Pieces(o, h, r, sub) /\ Ups(o, h, r) /\ Sizes(o, h, r, sub)
      /\ ~Apart(o) /\ ~AtCaller(o) /\ o.pc = "splayed"
      /\ x = o.cur /\ v = o.victim /\ q = h[v].link[1]
      BY DEF Rejoining, SplayTree, Apart, AtCaller
<1>1. /\ SearchTree(Keys, Cut(o, h), sub) /\ x \in Keys /\ v \in Keys /\ x # v
      /\ sub[0] = {} /\ x \in sub[x] /\ v \in sub[v]
      /\ q \in Keys \union {0} /\ q # x /\ q # v
      /\ sub[v] = {v} \union sub[q] /\ v \notin sub[q]
      /\ q # 0 => q \in sub[q]
      BY RejoinFacts
<1>2. /\ \A k \in sub[x] : k \notin sub[v]
      /\ \A y \in Keys, t \in {0, 1} : y # v \/ t = 1 => Cut(o, h)[y].link[t] = h[y].link[t]
      /\ All(o, h, r, sub) = sub[x] \union sub[v]
      BY RejoinFacts
<1>3. RejoinNodes(h, f, x, v, q)
      BY RejoinHeap
<1>4. /\ SearchTree(Keys, f, new) /\ new[x] = sub[x] \union sub[q]
      /\ \A y \in Keys : y # x /\ y # v => new[y] = sub[y]
      BY RejoinTree
<1> HIDE DEF new
<1>5. sub \in [Keys \union {0} -> SUBSET Keys] /\ -1 \notin Keys /\ 0 \notin Keys
      BY <1>1, SplayKeysFacts DEF SearchTree
<1>6. new[x] = All(o, h, r, sub) \ {v}
      BY <1>1, <1>2, <1>4
<1>7. \A y \in Keys, t \in {0, 1} : CutAt(o, y, t) <=> y = v /\ t = 0
      BY <1>0, <1>1 DEF CutAt
<1>8. Sized(f, new, new[x] \ {x})
  <2> SUFFICES ASSUME NEW y \in new[x] \ {x} PROVE IsMax(f[y].max, new[y])
      BY DEF Sized
  <2>1. y \in All(o, h, r, sub) /\ y # v /\ y # x /\ y \in Keys /\ sub[y] \subseteq Keys
        BY <1>1, <1>2, <1>5, <1>6
  <2>2. \A s \in {0, 1} : o.tmax[s] = -1
    <3>1. o.pc # "climb" BY <1>0
    <3> QED BY <1>0, <3>1 DEF SplayOp
  <2>3. \A s \in {0, 1} : o.tmax[s] \notin sub[y]
        BY <1>5, <2>1, <2>2
  <2>4. IsMax(h[y].max, sub[y])
        BY <1>0, <2>1, <2>3 DEF Sizes
  <2>5. f[y].max = h[y].max
        BY <1>3, <2>1 DEF RejoinNodes
  <2> QED BY <1>4, <2>1, <2>4, <2>5
<1>9. \A z \in Keys \ new[x] : f[z] = NewNode
  <2> SUFFICES ASSUME NEW z \in Keys \ new[x] PROVE f[z] = NewNode
      BY Zenon
  <2>1. CASE z = v BY <1>3, <2>1 DEF RejoinNodes
  <2>2. CASE z # v
    <3>1. z \notin All(o, h, r, sub) BY <1>6, <2>2
    <3>2. z # x /\ z # q BY <1>1, <1>2, <1>5, <3>1
    <3>3. f[z] = h[z] BY <1>3, <2>2, <3>2 DEF RejoinNodes
    <3>4. h[z] = NewNode BY <1>0, <3>1 DEF Pieces
    <3> QED BY <3>3, <3>4
  <2> QED BY <2>1, <2>2
<1>10. \A y \in Keys, t \in {0, 1} : Cut(o, h)[y].link[t] # v /\ Cut(o, h)[y].link[t] # x
  <2>1. x \in Roots(o, h, r) /\ v \in Roots(o, h, r)
        BY <1>0 DEF Roots
  <2>2. Sides(o, h, sub) BY <1>0 DEF Sides
  <2>3. \A y \in Keys, t \in {0, 1} : Cut(o, h)[y].link[t] # v
        BY <1>0, <1>1, <2>1, <2>2, Tops
  <2>4. \A y \in Keys, t \in {0, 1} : Cut(o, h)[y].link[t] # x
        BY <1>0, <1>1, <2>1, <2>2, Tops
  <2> QED BY <2>3, <2>4
<1>11. ASSUME NEW y \in Keys, NEW t \in {0, 1}, f[y].link[t] # 0
       PROVE  f[f[y].link[t]].up = y /\ f[y].link[t] # x
  <2>1. y # v
        BY <1>3, <1>11, SplayNewNodeIs DEF RejoinNodes
  <2>2. f[y].link[t] = IF y = x /\ t = 1 THEN q ELSE h[y].link[t]
        BY <1>3, <2>1 DEF RejoinNodes
  <2>3. CASE y = x /\ t = 1
    <3>1. f[y].link[t] = q /\ q \in Keys BY <1>1, <1>11, <2>2, <2>3
    <3>2. f[q].up = x BY <1>1, <1>3, <3>1 DEF RejoinNodes
    <3> QED BY <1>1, <2>3, <3>1, <3>2
  <2>4. CASE ~(y = x /\ t = 1)
    <3> DEFINE z == h[y].link[t]
    <3>1. f[y].link[t] = z /\ z # 0 BY <1>11, <2>2, <2>4
    <3>2. ~CutAt(o, y, t) BY <1>7, <2>1
    <3>3. h[z].up = y BY <1>0, <3>1, <3>2 DEF Ups
    <3>4. z # v /\ z # x BY <1>2, <1>10, <2>1
    <3>5. z \in Keys BY <1>0, <3>1, NodeTypes
    <3>6. z # q
      <4> SUFFICES ASSUME z = q PROVE FALSE
          OBVIOUS
      <4>1. h[v].link[1] # 0 /\ ~CutAt(o, v, 1) BY <1>0, <1>1, <1>7, <3>1
      <4>2. h[q].up = v
        <5>1. \A a \in Keys, u \in {0, 1} :
                 h[a].link[u] # 0 /\ ~CutAt(o, a, u) => h[h[a].link[u]].up = a
              BY <1>0 DEF Ups
        <5> QED BY <1>0, <1>1, <4>1, <5>1
      <4> QED BY <2>1, <3>3, <4>2
    <3> HIDE DEF z
    <3> QED BY <1>3, <3>1, <3>3, <3>4, <3>5, <3>6 DEF RejoinNodes
  <2> QED BY <2>3, <2>4
<1>12. f[-1] = NewNode /\ f \in [Keys \union {-1} -> SplayNode]
  <2>1. -1 \notin {v, x, q} BY <1>1, <1>5, SplayKeysFacts
  <2>2. f[-1] = h[-1] BY <1>3, <2>1 DEF RejoinNodes
  <2> QED BY <1>0, <1>3, <2>2 DEF SplayHeap, RejoinNodes
<1>13. Leaving(f, x, new)
       BY <1>1, <1>4, <1>8, <1>9, <1>11, <1>12 DEF Leaving
<1> QED BY <1>6, <1>13

-----------------------------------------------------------------------------
(***************************************************************************)
(* A splay begins.                                                         *)
(***************************************************************************)
LEMMA SplayBegins ==
    ASSUME NEW o, NEW o2, NEW h, NEW r, NEW sub, Whole(h, r, sub), r # 0,
           SplayOp(o2, r), o2.pc = "splay", o2.cur = r, o2.victim = 0,
           \A s \in {0, 1} : o2.tmax[s] = -1
    PROVE  SplayTree(o2, h, r, sub) /\ All(o2, h, r, sub) = sub[r]
<1>1. /\ SearchTree(Keys, h, sub) /\ h \in [Keys \union {-1} -> SplayNode]
      /\ h[-1] = NewNode /\ r \in Keys
      /\ \A x \in Keys \ sub[r] : h[x] = NewNode
      /\ \A x \in Keys, t \in {0, 1} : h[x].link[t] # 0 => h[h[x].link[t]].up = x
      /\ h[r].up = 0
      /\ \A y \in sub[r] : IsMax(h[y].max, sub[y])
      BY DEF Whole
<1>2. /\ Apart(o2) /\ ~AtCaller(o2)
      /\ Hung(h, 0) = 0 /\ Hung(h, 1) = 0 /\ sub[0] = {} /\ r \in sub[r]
      BY <1>1, NodeFacts, SplayNewNodeIs DEF Apart, AtCaller, Hung
<1>3. All(o2, h, r, sub) = sub[r]
      BY <1>2 DEF All
<1>4. \A y \in Keys, t \in {0, 1} : ~CutAt(o2, y, t)
      BY SplayKeysFacts DEF CutAt
<1>5. SearchTree(Keys, Cut(o2, h), sub)
  <2>1. \A y \in Keys, t \in {0, 1} : Cut(o2, h)[y].link[t] = h[y].link[t]
        BY <1>4, CutIs
  <2> QED BY <1>1, <2>1, SameLinks
<1>6. SplayHeap(o2, h)
      BY <1>1, <1>2 DEF SplayHeap
<1>7. Pieces(o2, h, r, sub)
      BY <1>1, <1>2, <1>3, <1>5 DEF Pieces
<1>8. Sides(o2, h, sub)
  <2> SUFFICES ASSUME NEW s \in {0, 1}
               PROVE  Hung(h, s) = 0 /\ o2.tmax[s] = -1
      BY <1>2 DEF Sides
  <2> QED BY <1>2
<1>9. Stale(o2, h, sub)
      BY <1>1, <1>2 DEF Stale
<1>10. Settled(o2, h, sub)
      BY DEF Settled
<1>11. Ups(o2, h, r)
      BY <1>1, <1>2 DEF Ups
<1>12. Sizes(o2, h, r, sub)
      BY <1>1, <1>3 DEF Sizes
<1> QED BY <1>3, <1>6, <1>7, <1>8, <1>9, <1>10, <1>11, <1>12 DEF SplayTree

\* That of a removal, on the left of what it found.
LEMMA SecondSplay ==
    ASSUME NEW o, NEW o2, NEW h, NEW r, NEW sub, SplayTree(o, h, r, sub),
           o.pc = "splayed", o.victim = 0, NEW x, x = o.cur, o.key = x, h[x].link[0] # 0,
           SplayOp(o2, r), o2.pc = "splay", o2.cur = h[x].link[0], o2.victim = x,
           \A s \in {0, 1} : o2.tmax[s] = -1
    PROVE  \E new : SplayTree(o2, h, r, new) /\ All(o2, h, r, new) = All(o, h, r, sub)
<1> DEFINE q == h[x].link[0]
           new == Pruned(sub, h, x, 0)
<1>1. /\ Whole(h, x, sub) /\ All(o, h, r, sub) = sub[x] /\ x \in Keys
      BY WholeSplayed
<1>2. /\ SearchTree(Keys, h, sub) /\ h \in [Keys \union {-1} -> SplayNode]
      /\ h[-1] = NewNode
      /\ \A y \in Keys \ sub[x] : h[y] = NewNode
      /\ \A y \in Keys, t \in {0, 1} : h[y].link[t] # 0 => h[h[y].link[t]].up = y
      /\ \A y \in sub[x] : IsMax(h[y].max, sub[y])
      BY <1>1 DEF Whole
<1>3. r \in sub[x]
  <2>1. Pieces(o, h, r, sub) /\ ~AtCaller(o) BY Zenon DEF SplayTree, AtCaller
  <2> QED BY <1>1, <2>1 DEF Pieces
<1>4. /\ sub \in [Keys \union {0} -> SUBSET Keys] /\ sub[0] = {}
      /\ q \in Keys /\ q # x /\ x \notin sub[q] /\ sub[q] \subseteq sub[x]
      /\ sub[x] = {x} \union sub[q] \union sub[h[x].link[1]]
      /\ \A k \in sub[q] : k < x
  <2>1. sub \in [Keys \union {0} -> SUBSET Keys] /\ sub[0] = {}
        BY <1>2, Zenon DEF SearchTree
  <2>2. /\ q \in Keys \union {0} /\ q # x /\ x \notin sub[q] /\ sub[q] \subseteq sub[x]
        BY <1>1, <1>2, NodeFacts
  <2>3. /\ sub[x] = {x} \union sub[h[x].link[0]] \union sub[h[x].link[1]]
        /\ \A k \in sub[h[x].link[0]] : k < x
        BY <1>1, <1>2 DEF SearchTree
  <2> QED BY <2>1, <2>2, <2>3, Zenon
<1>5. /\ \A y \in Keys : x \in sub[y] => y = x
      /\ \A y \in Keys, t \in {0, 1} : h[y].link[t] # 0 => h[y].link[t] # x
      BY <1>1, WholeFacts
<1>6. Apart(o2) /\ ~AtCaller(o2)
      BY DEF Apart, AtCaller
<1>7. \A s \in {0, 1} : Hung(h, s) = 0
      BY <1>2, SplayNewNodeIs DEF Hung
<1>8. \A y \in Keys, t \in {0, 1} : CutAt(o2, y, t) <=> y = x /\ t = 0
      BY SplayKeysFacts DEF CutAt
<1>9. SearchTree(Keys, Cut(o2, h), new)
  <2>1. LinkSet(Keys, h, Cut(o2, h), x, 0, 0) BY <1>8, CutIs DEF LinkSet
  <2>2. 0 \in {0, 1} /\ \A y \in Keys, u \in {0, 1} : h[y].link[u] # x
        BY <1>1, <1>5, SplayKeysFacts, Zenon
  <2> HIDE DEF new
  <2> QED BY <1>1, <1>2, <2>1, <2>2, PruneTree DEF new
<1>10. /\ \A y \in Keys \union {0} : y # x => new[y] = sub[y]
       /\ new[x] = {x} \union sub[h[x].link[1]]
  <2>1. 1 - 0 = 1 OBVIOUS
  <2> QED BY <1>1, <1>4, <2>1, Zenon DEF Pruned
<1> HIDE DEF q, new
<1>11. o2.cur = q
       BY DEF q
<1>12. All(o2, h, r, new) = sub[x]
  <2>1. new[q] = sub[q] /\ new[0] = {} BY <1>1, <1>4, <1>10, SplayKeysFacts
  <2> QED BY <1>4, <1>6, <1>7, <1>10, <1>11, <2>1 DEF All
<1>13. SplayHeap(o2, h)
       BY <1>2, <1>6 DEF SplayHeap
<1>14. Pieces(o2, h, r, new)
  <2>1. o2.victim # 0 => \A a \in new[o2.cur] \union new[Hung(h, 0)] \union new[Hung(h, 1)] :
                            a < o2.victim
    <3>1. new[q] = sub[q] /\ new[0] = {} BY <1>1, <1>4, <1>10, SplayKeysFacts
    <3> QED BY <1>4, <1>7, <1>11, <3>1
  <2> QED BY <1>2, <1>3, <1>6, <1>9, <1>12, <2>1 DEF Pieces
<1>15. Sides(o2, h, new)
  <2>1. new[0] = {} BY <1>1, <1>4, <1>10, SplayKeysFacts
  <2> QED BY <1>7, <2>1 DEF Sides
<1>16. Stale(o2, h, new)
  <2>1. h[q].up = x BY <1>1, <1>2 DEF q
  <2> QED BY <1>6, <1>11, <2>1 DEF Stale, q
<1>17. Settled(o2, h, new)
       BY DEF Settled
<1>18. Ups(o2, h, r)
       BY <1>2, <1>6 DEF Ups
<1>19. Sizes(o2, h, r, new)
  <2>1. \A y \in sub[x] : y # x => IsMax(h[y].max, new[y])
        BY <1>1, <1>2, <1>4, <1>10
  <2> QED BY <1>12, <2>1, Zenon DEF Sizes
<1>20. SplayTree(o2, h, r, new)
       BY <1>13, <1>14, <1>15, <1>16, <1>17, <1>18, <1>19 DEF SplayTree
<1> QED BY <1>1, <1>12, <1>20

-----------------------------------------------------------------------------
(***************************************************************************)
(* What can be reached from the root and the locals of a call, by the      *)
(* links there are, cut or not: the keys of all the pieces.                *)
(***************************************************************************)
\* dag says what is under each node by all its links; it leads to nothing outside A.
Closed(sub, dag, A) ==
    \A y \in Keys : sub[y] \subseteq dag[y] /\ (y \in A => dag[y] \subseteq A)

\* t is the last of P on side s, and over it is only P; what is under z is beyond.
Ended(c, dag, t, s, z, P) ==
    /\ c[t].link[s] = 0 /\ P \subseteq Keys
    /\ \A y \in Keys : t \in dag[y] => y \in P
    /\ \A a \in P : /\ a # t => Before(s, a, t)
                    /\ \A k \in dag[z] : Before(s, a, k)

LEMMA GraftEnd ==
    ASSUME NEW c, NEW dag, SearchTree(Keys, c, dag), NEW t \in Keys \union {0, -1},
           NEW s \in {0, 1}, NEW z \in Keys \union {0}, NEW P,
           t \in Keys => Ended(c, dag, t, s, z, P),
           NEW g, LinkSet(Keys, c, g, t, s, z),
           NEW sub, NEW A, Closed(sub, dag, A), z \in A \union {0}
    PROVE  /\ SearchTree(Keys, g, Grafted(dag, t, z))
           /\ Closed(sub, Grafted(dag, t, z), A)
<1>1. /\ dag \in [Keys \union {0} -> SUBSET Keys] /\ dag[0] = {}
      /\ \A y \in Keys : y \in dag[y]
      BY NodeFacts DEF SearchTree
<1>2. /\ \A y \in Keys \union {0} : Grafted(dag, t, z)[y] =
            IF t \in dag[y] THEN dag[y] \union dag[z] ELSE dag[y]
      /\ Grafted(dag, t, z) = [y \in Keys \union {0} |->
            IF t \in dag[y] THEN dag[y] \union dag[z] ELSE dag[y]]
      BY <1>1, Zenon DEF Grafted
<1>3. Closed(sub, Grafted(dag, t, z), A)
  <2> SUFFICES ASSUME NEW y \in Keys
               PROVE  /\ sub[y] \subseteq Grafted(dag, t, z)[y]
                      /\ y \in A => Grafted(dag, t, z)[y] \subseteq A
      BY Zenon DEF Closed
  <2>1. z \in Keys /\ z \in A => dag[z] \subseteq A BY DEF Closed
  <2>2. dag[z] \subseteq A BY <1>1, <2>1
  <2>3. sub[y] \subseteq dag[y] /\ (y \in A => dag[y] \subseteq A) BY DEF Closed
  <2> QED BY <1>2, <2>2, <2>3, Zenon
<1>4. CASE t \notin Keys
  <2>1. \A y \in Keys \union {0} : t \notin dag[y] BY <1>1, <1>4, Zenon
  <2>2. Grafted(dag, t, z) = [y \in Keys \union {0} |-> dag[y]] BY <1>2, <2>1, Zenon
  <2>3. Grafted(dag, t, z) = dag BY <1>1, <2>2
  <2>4. \A y \in Keys, u \in {0, 1} : g[y].link[u] = c[y].link[u]
        BY <1>4 DEF LinkSet
  <2> QED BY <1>3, <2>3, <2>4, SameLinks
<1>5. CASE t \in Keys
  <2>1. /\ c[t].link[s] = 0 /\ P \subseteq Keys
        /\ \A y \in Keys : t \in dag[y] => y \in P
        /\ \A a \in P : a # t => Before(s, a, t)
        /\ \A a \in P : \A k \in dag[z] : Before(s, a, k)
        BY <1>5 DEF Ended
  <2>2. dag[z] \subseteq Keys /\ t \in P /\ t \in Nat
        BY <1>1, <1>5, <2>1, SplayKeysFacts
  <2>3. ASSUME NEW y \in Keys, NEW u \in {0, 1}, t \in dag[c[y].link[u]], NEW k \in dag[z]
        PROVE  IF u = 0 THEN k < y ELSE k > y
    <3>1. t \in dag[y] /\ y # t /\ (IF u = 0 THEN t < y ELSE t > y)
      <4>1. dag[c[y].link[u]] \subseteq dag[y] /\ y \notin dag[c[y].link[u]]
            BY NodeFacts
      <4>2. IF u = 0 THEN t < y ELSE t > y BY <2>3 DEF SearchTree
      <4> QED BY <2>3, <4>1, <4>2
    <3>2. Before(s, y, t) /\ Before(s, y, k) BY <2>1, <3>1
    <3>3. y \in Nat /\ k \in Nat BY <2>2, SplayKeysFacts
    <3> QED BY <2>2, <3>1, <3>2, <3>3 DEF Before
  <2>4. \A k \in dag[z] : IF s = 0 THEN k < t ELSE k > t
    <3> TAKE k \in dag[z]
    <3>1. Before(s, t, k) BY <2>1, <2>2
    <3>2. k \in Nat BY <2>2, SplayKeysFacts
    <3> QED BY <2>2, <3>1, <3>2 DEF Before
  <2> QED BY <1>3, <1>5, <2>1, <2>3, <2>4, GraftTree
<1> QED BY <1>4, <1>5

Reaches(o, h, r, sub) ==
    \E dag : SearchTree(Keys, h, dag) /\ Closed(sub, dag, All(o, h, r, sub))

\* Only the left link of a victim is cut, if any.
LEMMA ReachVictim ==
    ASSUME NEW o, NEW h, NEW r, NEW sub, SplayTree(o, h, r, sub),
           \A y \in Keys, t \in {0, 1} : CutAt(o, y, t) => y = o.victim /\ t = 0,
           o.victim # 0 => h[o.victim].link[0] \in sub[o.cur]
    PROVE  Reaches(o, h, r, sub)
<1> DEFINE c == Cut(o, h)
           v == o.victim
           z == IF v = 0 THEN 0 ELSE h[v].link[0]
           dag == Grafted(sub, v, z)
           A == All(o, h, r, sub)
<1>1. /\ SplayOp(o, r) /\ SplayHeap(o, h) /\ Pieces(o, h, r, sub) /\ Sides(o, h, sub)
      BY DEF SplayTree
<1>2. /\ SearchTree(Keys, c, sub) /\ v \in Keys \union {0} /\ sub[0] = {}
      /\ \A y \in Keys : y \in sub[y]
      /\ \A y \in Keys : \A k \in sub[y] : sub[k] \subseteq sub[y]
  <2>1. SearchTree(Keys, c, sub) /\ v \in Keys \union {0} BY <1>1, Trees
  <2>2. sub[0] = {} BY <2>1 DEF SearchTree
  <2> HIDE DEF c
  <2>3. \A y \in Keys : y \in sub[y] BY <2>1, NodeFacts, Zenon
  <2>4. \A y \in Keys : \A k \in sub[y] : sub[k] \subseteq sub[y]
        BY <2>1, SubTrans
  <2> QED BY <2>1, <2>2, <2>3, <2>4
<1>3. v # 0 => ~AtCaller(o) /\ v \in Roots(o, h, r) /\ o.cur \in Keys
      BY <1>1, Trees DEF SplayOp, Roots
<1>4. sub \in [Keys \union {0} -> SUBSET Keys]
      BY <1>2 DEF SearchTree
<1>5. z \in Keys \union {0} /\ z \in A \union {0} /\ (v # 0 => sub[z] \subseteq sub[o.cur])
      BY <1>2, <1>3, <1>4 DEF All
<1>6. Closed(sub, sub, A)
  <2> SUFFICES ASSUME NEW y \in Keys, y \in A PROVE sub[y] \subseteq A
      BY Zenon DEF Closed
  <2>1. PICK p \in Roots(o, h, r) : y \in sub[p] BY RootsAll
  <2>2. p \in Keys
    <3>1. Roots(o, h, r) \subseteq Keys \union {0} BY <1>1, IsForest DEF Forest
    <3> QED BY <1>2, <2>1, <3>1
  <2>3. sub[y] \subseteq sub[p] BY <1>2, <2>1, <2>2
  <2> QED BY <2>3, RootsAll
<1>7. LinkSet(Keys, c, h, v, 0, z)
  <2> SUFFICES ASSUME NEW y \in Keys, NEW u \in {0, 1}
               PROVE  h[y].link[u] = IF y = v /\ u = 0 THEN z ELSE c[y].link[u]
      BY DEF LinkSet
  <2>1. CASE y = v /\ u = 0
        BY <2>1, SplayKeysFacts
  <2>2. CASE ~(y = v /\ u = 0)
    <3>1. ~CutAt(o, y, u) BY <2>2
    <3> QED BY <2>2, <3>1, CutIs
  <2> QED BY <2>1, <2>2
<1>8. v \in Keys => Ended(c, sub, v, 0, z, {v})
  <2> SUFFICES ASSUME v \in Keys PROVE Ended(c, sub, v, 0, z, {v})
      OBVIOUS
  <2>1. v # 0 BY SplayKeysFacts
  <2>2. c[v].link[0] = 0 BY <2>1, CutIs DEF CutAt
  <2>3. \A y \in Keys : v \in sub[y] => y = v BY <1>1, <1>3, <2>1, Tops
  <2>4. \A k \in sub[z] : k < v
    <3>1. \A k \in sub[o.cur] : k < v BY <1>1, <2>1 DEF Pieces
    <3> QED BY <1>5, <2>1, <3>1
  <2>5. \A k \in sub[z] : Before(0, v, k)
    <3> TAKE k \in sub[z]
    <3>1. k < v /\ k \in Nat /\ v \in Nat BY <1>4, <1>5, <2>4, SplayKeysFacts
    <3> QED BY <3>1 DEF Before
  <2> HIDE DEF c, v, z
  <2> QED BY <2>2, <2>3, <2>5 DEF Ended
<1> HIDE DEF c, v, z, dag, A
<1>9. SearchTree(Keys, h, dag) /\ Closed(sub, dag, A)
  <2>1. v \in Keys \union {0, -1} /\ 0 \in {0, 1} BY <1>2
  <2> QED BY <1>2, <1>5, <1>6, <1>7, <1>8, <2>1, GraftEnd DEF dag
<1> QED BY <1>9 DEF Reaches, A

\* c with one more link.
Relinked(c, t, s, z) ==
    [x \in Keys |-> [link |-> [u \in {0, 1} |->
                                 IF x = t /\ u = s THEN z ELSE c[x].link[u]]]]

LEMMA RelinkedIs ==
    ASSUME NEW c, NEW t, NEW s \in {0, 1}, NEW z, NEW g, g = Relinked(c, t, s, z)
    PROVE  LinkSet(Keys, c, g, t, s, z)
  BY DEF LinkSet, Relinked

\* The pieces but that of the victim.
Rest(o, h, sub) == sub[o.cur] \union sub[Hung(h, 0)] \union sub[Hung(h, 1)]

LEMMA ClosedPieces ==
    ASSUME NEW o, NEW h, NEW r, NEW sub, SplayTree(o, h, r, sub), ~AtCaller(o)
    PROVE  /\ Closed(sub, sub, All(o, h, r, sub))
           /\ Closed(sub, sub, Rest(o, h, sub))
           /\ All(o, h, r, sub) = Rest(o, h, sub) \union sub[o.victim]
<1>1. SplayOp(o, r) /\ SplayHeap(o, h) /\ Pieces(o, h, r, sub)
      BY DEF SplayTree
<1>2. /\ sub \in [Keys \union {0} -> SUBSET Keys] /\ sub[0] = {}
      /\ \A y \in Keys : \A k \in sub[y] : sub[k] \subseteq sub[y]
      /\ o.cur \in Keys /\ o.victim \in Keys \union {0}
      /\ \A s \in {0, 1} : Hung(h, s) \in Keys \union {0}
      BY <1>1, Trees
<1>3. \A p \in Keys \union {0} : \A k \in sub[p] : sub[k] \subseteq sub[p]
      BY <1>2
<1>4. All(o, h, r, sub) = Rest(o, h, sub) \union sub[o.victim]
      BY DEF All, Rest
<1>5. \A k \in Rest(o, h, sub) : sub[k] \subseteq Rest(o, h, sub)
      BY <1>2, <1>3 DEF Rest
<1>6. \A k \in All(o, h, r, sub) : sub[k] \subseteq All(o, h, r, sub)
      BY <1>2, <1>3, <1>4, <1>5
<1> QED BY <1>4, <1>5, <1>6 DEF Closed

\* The last node hung, of side s, still leads to what is to be looked at.
LastHung(o, h, sub, s) ==
    /\ Apart(o) /\ s \in {0, 1} /\ o.tmax[s] # -1
    /\ h[o.tmax[s]].link[s] = o.cur
    /\ o.tmax[1 - s] # -1 => h[o.tmax[1 - s]].link[1 - s] \in sub[Hung(h, s)]
    /\ o.victim # 0 => h[o.victim].link[0] = Hung(h, 1)

First(o, sub, s) == Grafted(sub, o.tmax[s], o.cur)

FirstLinks(o, h, s) == Relinked(Cut(o, h), o.tmax[s], s, o.cur)

Back(o, h, s) == IF o.tmax[s] = -1 THEN 0 ELSE h[o.tmax[s]].link[s]

Second(o, h, sub, s) == Grafted(First(o, sub, s), o.tmax[1 - s], Back(o, h, 1 - s))

SecondLinks(o, h, s) ==
    Relinked(FirstLinks(o, h, s), o.tmax[1 - s], 1 - s, Back(o, h, 1 - s))

LEMMA ReachFirst ==
    ASSUME NEW o, NEW h, NEW r, NEW sub, SplayTree(o, h, r, sub), NEW s,
           LastHung(o, h, sub, s)
    PROVE  /\ SearchTree(Keys, FirstLinks(o, h, s), First(o, sub, s))
           /\ Closed(sub, First(o, sub, s), All(o, h, r, sub))
           /\ Closed(sub, First(o, sub, s), Rest(o, h, sub))
<1> DEFINE t == o.tmax[s]
           c == Cut(o, h)
           P == sub[Hung(h, s)]
<1>1. /\ SplayOp(o, r) /\ SplayHeap(o, h) /\ Pieces(o, h, r, sub) /\ Sides(o, h, sub)
      /\ Apart(o) /\ ~AtCaller(o) /\ s \in {0, 1} /\ t # -1
      BY DEF SplayTree, LastHung, Apart, AtCaller
<1>2. /\ SearchTree(Keys, c, sub) /\ sub \in [Keys \union {0} -> SUBSET Keys]
      /\ \A y \in Keys : y \in sub[y]
      /\ o.cur \in Keys /\ t \in Keys \union {0, -1} /\ Hung(h, s) \in Keys \union {0}
      BY <1>1, Trees
<1>3. /\ Hung(h, s) # 0 /\ t \in P
      /\ \A a \in P : /\ a # t => Before(s, a, t)
                      /\ \A k \in sub[o.cur] : Before(s, a, k)
      BY <1>1 DEF Sides
<1>4. \A y \in Keys : t \in sub[y] => y \in P
  <2>1. Hung(h, s) \in Roots(o, h, r) BY <1>1 DEF Roots
  <2> QED BY <1>1, <1>3, <2>1, Apiece
<1>5. c[t].link[s] = 0
  <2>1. t \in Keys BY <1>2, <1>3
  <2> QED BY <1>1, <2>1, CutIs DEF CutAt
<1>6. Ended(c, sub, t, s, o.cur, P)
  <2> HIDE DEF c, t
  <2>1. P \subseteq Keys BY <1>2
  <2> HIDE DEF P
  <2> QED BY <1>3, <1>4, <1>5, <2>1 DEF Ended
<1>7. /\ Closed(sub, sub, All(o, h, r, sub)) /\ Closed(sub, sub, Rest(o, h, sub))
      /\ o.cur \in All(o, h, r, sub) /\ o.cur \in Rest(o, h, sub)
  <2>1. /\ Closed(sub, sub, All(o, h, r, sub)) /\ Closed(sub, sub, Rest(o, h, sub))
        /\ All(o, h, r, sub) = Rest(o, h, sub) \union sub[o.victim]
        BY <1>1, ClosedPieces
  <2>2. o.cur \in Rest(o, h, sub) BY <1>2 DEF Rest
  <2> QED BY <2>1, <2>2
<1>8. LinkSet(Keys, c, FirstLinks(o, h, s), t, s, o.cur)
  <2>1. FirstLinks(o, h, s) = Relinked(c, t, s, o.cur) BY DEF FirstLinks
  <2>2. s \in {0, 1} BY <1>1
  <2> QED BY <2>1, <2>2, RelinkedIs
<1> HIDE DEF t, c, P
<1>9. /\ SearchTree(Keys, FirstLinks(o, h, s), Grafted(sub, t, o.cur))
      /\ Closed(sub, Grafted(sub, t, o.cur), All(o, h, r, sub))
      BY <1>1, <1>2, <1>6, <1>7, <1>8, GraftEnd
<1>10. Closed(sub, Grafted(sub, t, o.cur), Rest(o, h, sub))
      BY <1>1, <1>2, <1>6, <1>7, <1>8, GraftEnd
<1> QED BY <1>9, <1>10 DEF First, t

LEMMA ReachSecond ==
    ASSUME NEW o, NEW h, NEW r, NEW sub, SplayTree(o, h, r, sub), NEW s,
           LastHung(o, h, sub, s)
    PROVE  /\ SearchTree(Keys, SecondLinks(o, h, s), Second(o, h, sub, s))
           /\ Closed(sub, Second(o, h, sub, s), All(o, h, r, sub))
           /\ Closed(sub, Second(o, h, sub, s), Rest(o, h, sub))
<1> DEFINE u == 1 - s
           t == o.tmax[u]
           z == Back(o, h, u)
           c == FirstLinks(o, h, s)
           dag == First(o, sub, s)
           P == sub[Hung(h, u)]
<1>1. /\ SplayOp(o, r) /\ SplayHeap(o, h) /\ Pieces(o, h, r, sub) /\ Sides(o, h, sub)
      /\ Apart(o) /\ ~AtCaller(o) /\ s \in {0, 1} /\ u \in {0, 1} /\ u # s
      /\ t # -1 => z \in sub[Hung(h, s)]
      /\ t = -1 => z = 0
      BY DEF SplayTree, LastHung, Apart, AtCaller, Back
<1>2. /\ sub \in [Keys \union {0} -> SUBSET Keys]
      /\ \A y \in Keys : y \in sub[y]
      /\ \A y \in Keys : \A k \in sub[y] : sub[k] \subseteq sub[y]
      /\ o.cur \in Keys /\ o.key \in Keys /\ t \in Keys \union {0, -1}
      /\ Hung(h, s) \in Keys \union {0} /\ Hung(h, u) \in Keys \union {0}
      /\ sub[0] = {}
      BY <1>1, Trees
<1>3. /\ SearchTree(Keys, c, dag)
      /\ Closed(sub, dag, All(o, h, r, sub)) /\ Closed(sub, dag, Rest(o, h, sub))
      BY ReachFirst
<1>4. LinkSet(Keys, c, SecondLinks(o, h, s), t, u, z)
  <2>1. SecondLinks(o, h, s) = Relinked(c, t, u, z) BY DEF SecondLinks
  <2> HIDE DEF c, t, u, z
  <2> QED BY <1>1, <2>1, RelinkedIs
<1>5. \A y \in Keys \union {0} : dag[y] \subseteq sub[y] \union sub[o.cur]
  <2>1. DOMAIN sub = Keys \union {0} BY <1>2
  <2> QED BY <2>1 DEF First, Grafted
<1>6. sub[Hung(h, s)] \subseteq Rest(o, h, sub) /\ Rest(o, h, sub) \subseteq All(o, h, r, sub)
  <2>1. All(o, h, r, sub) = Rest(o, h, sub) \union sub[o.victim]
        BY <1>1, ClosedPieces
  <2> QED BY <1>1, <2>1 DEF Rest
<1>7. z \in Keys \union {0} /\ z \in Rest(o, h, sub) \union {0}
      BY <1>1, <1>2, <1>6
<1>8. t \in Keys => Ended(c, dag, t, u, z, P)
  <2> SUFFICES ASSUME t \in Keys PROVE Ended(c, dag, t, u, z, P)
      OBVIOUS
  <2>1. t # -1 /\ z \in sub[Hung(h, s)] /\ z \in Keys
    <3>1. t # -1 BY SplayKeysFacts
    <3>2. sub[Hung(h, s)] \subseteq Keys BY <1>2
    <3> HIDE DEF t, z
    <3> QED BY <1>1, <3>1, <3>2
  <2>2. /\ Hung(h, u) # 0 /\ t \in P
        /\ \A a \in P : a # t => Before(u, a, t)
        /\ \A a \in P : Before(u, a, o.key) /\ \A k \in sub[o.cur] : Before(u, a, k)
        BY <1>1, <2>1 DEF Sides
  <2>3. \A a \in sub[Hung(h, s)] : Before(s, a, o.key)
        BY <1>1 DEF Sides
  <2>4. /\ Hung(h, u) \in Roots(o, h, r) /\ o.cur \in Roots(o, h, r)
        /\ Hung(h, s) \in Roots(o, h, r)
        BY <1>1 DEF Roots
  <2>5. Hung(h, u) # o.cur /\ Hung(h, u) # Hung(h, s)
    <3>1. t \in Nat BY <2>1, SplayKeysFacts
    <3>2. ~Before(u, t, t) BY <3>1 DEF Before
    <3>3. Hung(h, u) # o.cur BY <2>2, <3>2
    <3>4. Before(u, t, o.key) BY <2>2
    <3>5. ~Before(s, t, o.key)
      <4>1. o.key \in Nat BY <1>2, SplayKeysFacts
      <4> HIDE DEF t
      <4> QED BY <1>1, <3>1, <3>4, <4>1 DEF Before
    <3> QED BY <2>2, <2>3, <3>3, <3>5
  <2>6. t \notin sub[o.cur] BY <1>1, <2>2, <2>4, <2>5, Apiece
  <2>7. \A y \in Keys : t \in dag[y] => y \in P
    <3>1. \A y \in Keys : t \in sub[y] => y \in P
          BY <1>1, <2>2, <2>4, Apiece
    <3> HIDE DEF dag, P, t
    <3> QED BY <1>5, <2>6, <3>1
  <2>8. c[t].link[u] = 0
    <3>1. \A x \in Keys, i \in {0, 1} : c[x].link[i] =
             IF x = o.tmax[s] /\ i = s THEN o.cur ELSE Cut(o, h)[x].link[i]
      <4>1. s \in {0, 1} BY <1>1
      <4>2. c = Relinked(Cut(o, h), o.tmax[s], s, o.cur) BY DEF FirstLinks
      <4> HIDE DEF c
      <4>3. LinkSet(Keys, Cut(o, h), c, o.tmax[s], s, o.cur)
            BY <4>1, <4>2, RelinkedIs
      <4> QED BY <4>3 DEF LinkSet
    <3>2. Cut(o, h)[t].link[u] = 0 BY <1>1, CutIs DEF CutAt
    <3> HIDE DEF c, t, u
    <3> QED BY <1>1, <3>1, <3>2
  <2>9. ASSUME NEW a \in P, NEW k \in dag[z] PROVE Before(u, a, k)
    <3>1. sub[z] \subseteq sub[Hung(h, s)]
      <4>1. Hung(h, s) \in Keys BY <1>2, <2>1
      <4> HIDE DEF z
      <4> QED BY <1>2, <2>1, <4>1
    <3>2. k \in sub[z] \union sub[o.cur]
      <4> HIDE DEF dag, z
      <4> QED BY <1>5, <1>7, <2>9
    <3>3. k \in sub[o.cur] \/ k \in sub[Hung(h, s)]
      <4> HIDE DEF z
      <4> QED BY <3>1, <3>2
    <3>4. CASE k \in sub[o.cur] BY <2>2, <2>9, <3>4
    <3>5. CASE k \in sub[Hung(h, s)]
      <4>1. Before(u, a, o.key) /\ Before(s, k, o.key)
            BY <2>2, <2>3, <2>9, <3>5
      <4>2. a \in Nat /\ k \in Nat /\ o.key \in Nat
            BY <1>2, <2>9, <3>5, SplayKeysFacts
      <4> HIDE DEF P, dag, z
      <4> QED BY <1>1, <4>1, <4>2 DEF Before
    <3> QED BY <3>3, <3>4, <3>5
  <2> HIDE DEF c, t, u, z, dag
  <2>10. P \subseteq Keys BY <1>2
  <2> HIDE DEF P
  <2> QED BY <2>2, <2>7, <2>8, <2>9, <2>10 DEF Ended
<1> HIDE DEF c, t, u, z, dag, P
<1>9. /\ SearchTree(Keys, SecondLinks(o, h, s), Grafted(dag, t, z))
      /\ Closed(sub, Grafted(dag, t, z), Rest(o, h, sub))
  <2>1. u \in {0, 1} /\ t \in Keys \union {0, -1} BY <1>1, <1>2
  <2>2. z \in Keys \union {0} /\ z \in Rest(o, h, sub) \union {0} BY <1>7
  <2>3. Closed(sub, dag, Rest(o, h, sub)) /\ SearchTree(Keys, c, dag) BY <1>3
  <2> QED BY <1>4, <1>8, <2>1, <2>2, <2>3, GraftEnd
<1>10. Closed(sub, Grafted(dag, t, z), All(o, h, r, sub))
  <2>1. z \in All(o, h, r, sub) \union {0} BY <1>6, <1>7
  <2> QED BY <1>1, <1>2, <1>3, <1>4, <1>7, <1>8, <2>1, GraftEnd, SMTT(20)
<1> QED BY <1>9, <1>10 DEF Second, t, z, dag, u

LEMMA ReachLast ==
    ASSUME NEW o, NEW h, NEW r, NEW sub, SplayTree(o, h, r, sub), NEW s,
           LastHung(o, h, sub, s)
    PROVE  Reaches(o, h, r, sub)
<1> DEFINE v == o.victim
           z == IF v = 0 THEN 0 ELSE h[v].link[0]
           c == SecondLinks(o, h, s)
           dag == Second(o, h, sub, s)
           A == All(o, h, r, sub)
           B == Rest(o, h, sub)
<1>1. /\ SplayOp(o, r) /\ SplayHeap(o, h) /\ Pieces(o, h, r, sub) /\ Sides(o, h, sub)
      /\ Apart(o) /\ ~AtCaller(o) /\ s \in {0, 1}
      BY DEF SplayTree, LastHung, Apart, AtCaller
<1>2. /\ sub \in [Keys \union {0} -> SUBSET Keys] /\ sub[0] = {}
      /\ \A y \in Keys : y \in sub[y]
      /\ v \in Keys \union {0} /\ Hung(h, 1) \in Keys \union {0}
      /\ o.cur \in Keys
      BY <1>1, Trees
<1>3. /\ SearchTree(Keys, c, dag) /\ Closed(sub, dag, A) /\ Closed(sub, dag, B)
      BY ReachSecond
<1>4. v # 0 => z = Hung(h, 1)
      BY DEF LastHung
<1>5. z \in Keys \union {0} /\ z \in B \union {0} /\ z \in A \union {0}
  <2>1. Hung(h, 1) \in B \union {0} BY <1>2 DEF Rest
  <2>2. A = B \union sub[v] BY <1>1, ClosedPieces
  <2>3. z = 0 \/ z = Hung(h, 1) BY <1>4
  <2> HIDE DEF z, A, B
  <2> QED BY <1>2, <2>1, <2>2, <2>3
<1>6. v # 0 => v \in Keys /\ \A k \in B : Before(0, v, k)
  <2> SUFFICES ASSUME v # 0 PROVE v \in Keys /\ \A k \in B : Before(0, v, k)
      OBVIOUS
  <2>1. v \in Keys BY <1>2
  <2>2. \A k \in B : k < v BY <1>1 DEF Pieces, Rest
  <2>3. B \subseteq Keys BY <1>2, <1>1, Trees DEF Rest
  <2> HIDE DEF v, B
  <2>4. \A k \in B : k \in Nat /\ v \in Nat BY <2>1, <2>3, SplayKeysFacts
  <2> QED BY <2>1, <2>2, <2>4 DEF Before
<1>7. \A y \in Keys : dag[y] \subseteq sub[y] \union B
  <2>1. \A y \in Keys \union {0} :
           First(o, sub, s)[y] \subseteq sub[y] \union sub[o.cur]
    <3>1. DOMAIN sub = Keys \union {0} BY <1>2
    <3> QED BY <3>1 DEF First, Grafted
  <2>2. \A y \in Keys \union {0} : dag[y] \subseteq
           First(o, sub, s)[y] \union First(o, sub, s)[Back(o, h, 1 - s)]
    <3>1. DOMAIN First(o, sub, s) = Keys \union {0} BY <1>2 DEF First, Grafted
    <3> QED BY <3>1 DEF Second, Grafted
  <2>3. First(o, sub, s)[Back(o, h, 1 - s)] \subseteq B
    <3> DEFINE b == Back(o, h, 1 - s)
    <3>1. Closed(sub, First(o, sub, s), B) BY ReachFirst
    <3>2. b = 0 \/ b \in sub[Hung(h, s)]
          BY DEF LastHung, Back
    <3>3. b = 0 \/ b \in B BY <1>1, <3>2 DEF Rest
    <3>4. First(o, sub, s)[0] = {}
      <4>1. SearchTree(Keys, FirstLinks(o, h, s), First(o, sub, s)) BY ReachFirst
      <4> QED BY <4>1 DEF SearchTree
    <3>5. B \subseteq Keys BY <1>2, <1>1, Trees DEF Rest
    <3> HIDE DEF b, B
    <3>6. b # 0 => First(o, sub, s)[b] \subseteq B BY <3>1, <3>3, <3>5 DEF Closed
    <3> QED BY <3>4, <3>6 DEF b
  <2>4. sub[o.cur] \subseteq B BY DEF Rest
  <2> HIDE DEF dag, B
  <2> QED BY <2>1, <2>2, <2>3, <2>4
<1>8. v # 0 => Ended(c, dag, v, 0, z, {v})
  <2> SUFFICES ASSUME v # 0 PROVE Ended(c, dag, v, 0, z, {v})
      OBVIOUS
  <2>1. v \notin B
    <3> SUFFICES ASSUME v \in B PROVE FALSE
        OBVIOUS
    <3>1. Before(0, v, v) /\ v \in Nat BY <1>6, SplayKeysFacts
    <3> HIDE DEF v
    <3> QED BY <3>1 DEF Before
  <2>2. \A y \in Keys : v \in dag[y] => y = v
    <3>1. v \in Roots(o, h, r) BY <1>1 DEF Roots
    <3>2. \A y \in Keys : v \in sub[y] => y = v BY <1>1, <1>6, <3>1, Tops
    <3> HIDE DEF v, dag, B
    <3> QED BY <1>7, <2>1, <3>2
  <2>3. c[v].link[0] = 0
    <3>1. \A i \in {0, 1} : o.tmax[i] # v
      <4> SUFFICES ASSUME NEW i \in {0, 1}, o.tmax[i] = v PROVE FALSE
          OBVIOUS
      <4>1. o.tmax[i] # -1 BY <1>6, SplayKeysFacts
      <4>2. o.tmax[i] \in sub[Hung(h, i)] BY <1>1, <4>1 DEF Sides
      <4>3. v \in B BY <4>2 DEF Rest
      <4> QED BY <2>1, <4>3
    <3>2. Cut(o, h)[v].link[0] = 0 BY <1>6, CutIs DEF CutAt
    <3>3. LinkSet(Keys, Cut(o, h), FirstLinks(o, h, s), o.tmax[s], s, o.cur)
          BY <1>1, RelinkedIs DEF FirstLinks
    <3>4. LinkSet(Keys, FirstLinks(o, h, s), c, o.tmax[1 - s], 1 - s, Back(o, h, 1 - s))
      <4>1. 1 - s \in {0, 1} BY <1>1
      <4> QED BY <4>1, RelinkedIs DEF SecondLinks
    <3>5. 1 - s \in {0, 1} BY <1>1
    <3> HIDE DEF v, c
    <3>6. c[v].link[0] = FirstLinks(o, h, s)[v].link[0]
          BY <1>6, <3>1, <3>4, <3>5 DEF LinkSet
    <3>7. FirstLinks(o, h, s)[v].link[0] = Cut(o, h)[v].link[0]
          BY <1>1, <1>6, <3>1, <3>3 DEF LinkSet
    <3> QED BY <3>2, <3>6, <3>7
  <2>4. \A k \in dag[z] : Before(0, v, k)
    <3>1. dag[z] \subseteq B
      <4>0. SearchTree(Keys, c, dag) BY <1>3
      <4>1. dag[0] = {}
        <5> HIDE DEF dag, c
        <5> QED BY <4>0 DEF SearchTree
      <4>2. z = 0 \/ (z \in Keys /\ z \in B) BY <1>5
      <4> HIDE DEF z, dag, B
      <4> QED BY <1>3, <4>1, <4>2 DEF Closed
    <3> HIDE DEF z, dag, B, v
    <3> QED BY <1>6, <3>1
  <2> HIDE DEF z, dag, B, v, c
  <2> QED BY <1>6, <2>2, <2>3, <2>4 DEF Ended
<1>9. LinkSet(Keys, c, h, v, 0, z)
  <2> SUFFICES ASSUME NEW y \in Keys, NEW i \in {0, 1}
               PROVE  h[y].link[i] = IF y = v /\ i = 0 THEN z ELSE c[y].link[i]
      BY DEF LinkSet
  <2> DEFINE f == FirstLinks(o, h, s)
             u == 1 - s
             t == o.tmax[s]
             q == o.tmax[u]
             b == Back(o, h, u)
  <2>1. f[y].link[i] = IF y = t /\ i = s THEN o.cur ELSE Cut(o, h)[y].link[i]
    <3>1. LinkSet(Keys, Cut(o, h), f, t, s, o.cur)
          BY <1>1, RelinkedIs DEF FirstLinks
    <3> HIDE DEF f, t
    <3> QED BY <3>1 DEF LinkSet
  <2>2. c[y].link[i] = IF y = q /\ i = u THEN b ELSE f[y].link[i]
    <3>1. LinkSet(Keys, f, c, q, u, b)
      <4>1. 1 - s \in {0, 1} BY <1>1
      <4> QED BY <4>1, RelinkedIs DEF SecondLinks
    <3> HIDE DEF f, q, u, c, b
    <3> QED BY <3>1 DEF LinkSet
  <2>3. Cut(o, h)[y].link[i] = IF CutAt(o, y, i) THEN 0 ELSE h[y].link[i]
        BY CutIs
  <2>4. CutAt(o, y, i) <=> (y = o.tmax[i] \/ (y = v /\ i = 0))
    <3>1. Apart(o) BY <1>1
    <3> QED BY <3>1 DEF CutAt
  <2>5. i = s \/ i = u BY <1>1
  <2>6. s # u BY <1>1
  <2>7. h[t].link[s] = o.cur /\ (q # -1 => b = h[q].link[u])
        BY DEF LastHung, Back
  <2>8. y # -1 /\ y # 0 BY SplayKeysFacts
  <2>9. CASE y = v /\ i = 0 BY <2>8, <2>9
  <2>10. CASE ~(y = v /\ i = 0) /\ i = s
    <3> HIDE DEF c, f, u, b, z, v
    <3> QED BY <2>1, <2>2, <2>3, <2>4, <2>6, <2>7, <2>10
  <2>11. CASE ~(y = v /\ i = 0) /\ i = u
    <3>1. y = o.tmax[i] => q # -1 /\ y = q BY <2>8, <2>11
    <3> HIDE DEF c, f, b, z, v
    <3>2. y = q /\ i = u => h[y].link[i] = c[y].link[i]
          BY <2>2, <2>7, <2>8
    <3>3. y # q => ~CutAt(o, y, i) /\ c[y].link[i] = f[y].link[i]
          BY <2>2, <2>4, <2>11
    <3>4. f[y].link[i] = Cut(o, h)[y].link[i]
          BY <2>1, <2>6, <2>11
    <3> QED BY <2>3, <2>11, <3>2, <3>3, <3>4
  <2> QED BY <2>5, <2>9, <2>10, <2>11
<1> HIDE DEF v, z, c, dag, A, B
<1>10. SearchTree(Keys, h, Grafted(dag, v, z)) /\ Closed(sub, Grafted(dag, v, z), A)
  <2>1. v \in Keys \union {0, -1} /\ 0 \in {0, 1} BY <1>2
  <2>2. v \in Keys => Ended(c, dag, v, 0, z, {v}) BY <1>8, SplayKeysFacts
  <2>3. z \in Keys \union {0} /\ z \in A \union {0} BY <1>5
  <2>4. SearchTree(Keys, c, dag) /\ Closed(sub, dag, A) BY <1>3
  <2> QED BY <1>9, <2>1, <2>2, <2>3, <2>4, GraftEnd
<1> QED BY <1>10 DEF Reaches, A

\* Whatever the step of the call, what is under the root, the locals and head by
\* the links there are is the keys of the pieces.
LEMMA AlwaysReaches ==
    ASSUME NEW o, NEW h, NEW r, NEW sub, SplayTree(o, h, r, sub)
    PROVE  Reaches(o, h, r, sub)
<1>1. /\ SplayOp(o, r) /\ SplayHeap(o, h) /\ Pieces(o, h, r, sub) /\ Sides(o, h, sub)
      /\ Stale(o, h, sub)
      BY DEF SplayTree
<1>2. /\ o.victim \in Keys \union {0}
      /\ \A y \in Keys : y \in sub[y]
      /\ ~AtCaller(o) => o.cur \in Keys
      /\ AtCaller(o) => o.victim = 0
      BY <1>1, Trees
<1>3. CASE Apart(o) /\ \E s \in {0, 1} : o.tmax[s] # -1
  <2>1. PICK s \in {0, 1} : LastHung(o, h, sub, s)
        BY <1>1, <1>3 DEF Stale, LastHung
  <2> QED BY <2>1, ReachLast
<1>4. CASE ~(Apart(o) /\ \E s \in {0, 1} : o.tmax[s] # -1)
  <2>1. ASSUME o.victim # 0 PROVE h[o.victim].link[0] \in sub[o.cur]
    <3>1. o.cur \in Keys BY <1>2, <2>1
    <3>2. CASE Apart(o)
      <4>1. h[o.victim].link[0] = o.cur BY <1>1, <1>4, <2>1, <3>2 DEF Stale
      <4> QED BY <1>2, <3>1, <4>1
    <3>3. CASE ~Apart(o) BY <1>1, <2>1, <3>3 DEF Stale
    <3> QED BY <3>2, <3>3
  <2>2. \A y \in Keys, t \in {0, 1} : CutAt(o, y, t) => y = o.victim /\ t = 0
        BY <1>4, SplayKeysFacts DEF CutAt
  <2> QED BY <2>1, <2>2, ReachVictim
<1> QED BY <1>3, <1>4

\* The keys InTree speaks of, of any state.
TreeIn(o, h, r) ==
    UNION {UnderIn(Keys, h, x) : x \in {r, o.cur, o.victim, h[-1].link[0], h[-1].link[1]}}

LEMMA TreeInIs ==
    ASSUME NEW o, NEW h, NEW r, NEW sub, SplayTree(o, h, r, sub)
    PROVE  TreeIn(o, h, r) = All(o, h, r, sub)
<1> DEFINE R == {r, o.cur, o.victim, Hung(h, 0), Hung(h, 1)}
           A == All(o, h, r, sub)
<1>1. PICK dag : SearchTree(Keys, h, dag) /\ Closed(sub, dag, A)
      BY AlwaysReaches DEF Reaches
<1>2. /\ SplayOp(o, r) /\ SplayHeap(o, h) /\ Pieces(o, h, r, sub)
      BY DEF SplayTree
<1>3. /\ sub[0] = {} /\ A \subseteq Keys
      /\ \A y \in Keys : y \in sub[y]
      /\ o.victim \in Keys \union {0} /\ r \in Keys \union {0}
      /\ ~AtCaller(o) => o.cur \in Keys
      /\ AtCaller(o) => o.cur = 0 /\ o.victim = 0
      /\ \A s \in {0, 1} : /\ Hung(h, s) \in Keys \union {0}
                           /\ ~Apart(o) => Hung(h, s) = 0
      BY <1>2, Trees
<1>4. \A x : UnderIn(Keys, h, x) = dag[x]
      BY <1>1, UnderIs
<1>5. dag[0] = {} BY <1>1 DEF SearchTree
<1>6. R \subseteq Keys \union {0}
      BY <1>3
<1>7. \A x \in R : x = 0 \/ x \in A
  <2>1. CASE AtCaller(o)
    <3>1. ~Apart(o) BY <2>1 DEF AtCaller, Apart
    <3>2. \A x \in R : x = 0 \/ x = r BY <1>3, <2>1, <3>1
    <3>3. A = sub[r] BY <2>1 DEF All
    <3> QED BY <1>3, <3>2, <3>3
  <2>2. CASE ~AtCaller(o)
    <3>1. r \in A BY <1>2, <2>2 DEF Pieces
    <3>2. A = sub[o.cur] \union sub[o.victim] \union sub[Hung(h, 0)] \union sub[Hung(h, 1)]
          BY <2>2 DEF All
    <3> HIDE DEF A
    <3> QED BY <1>3, <3>1, <3>2
  <2> QED BY <2>1, <2>2
<1>8. \A x \in R : dag[x] \subseteq A
      BY <1>1, <1>3, <1>5, <1>7 DEF Closed
<1>9. \A k \in A : \E x \in R : k \in dag[x]
  <2> TAKE k \in A
  <2>1. PICK p \in Roots(o, h, r) : k \in sub[p] BY RootsAll
  <2>2. p \in R BY DEF Roots
  <2>3. p \in Keys
    <3> HIDE DEF R
    <3> QED BY <1>3, <1>6, <2>1, <2>2
  <2>4. k \in dag[p] BY <1>1, <2>1, <2>3 DEF Closed
  <2> QED BY <2>2, <2>4
<1>10. TreeIn(o, h, r) = UNION {dag[x] : x \in R}
       BY <1>4 DEF TreeIn, Hung
<1> HIDE DEF R, A
<1> QED BY <1>8, <1>9, <1>10 DEF A

-----------------------------------------------------------------------------
(***************************************************************************)
(* What a call does to the tree, and to the set of its keys.               *)
(***************************************************************************)
LEMMA SplayHeld ==
    ASSUME NEW sub, SplayTree(op, node, root, sub)
    PROVE  InTree = All(op, node, root, sub)
<1>1. \A x : Under(x) = UnderIn(Keys, node, x)
      BY DEF Under, UnderIn, Ref, NULL
<1>2. InTree = TreeIn(op, node, root)
      BY <1>1 DEF InTree, TreeIn, HEAD
<1> QED BY <1>2, TreeInIs

LEMMA SplayHeldNext ==
    ASSUME NEW sub, SplayTree(op', node', root', sub)
    PROVE  InTree' = All(op', node', root', sub)
<1>1. \A x : Under(x)' = UnderIn(Keys, node', x)
      BY DEF Under, UnderIn, Ref, NULL
<1>2. InTree' = TreeIn(op', node', root')
      BY <1>1 DEF InTree, TreeIn, HEAD
<1> QED BY <1>2, TreeInIs

SplayAt(sub) == SplayTree(op, node, root, sub)

\* What callers see of a step: nothing,
Works == UNCHANGED <<InTree, op.call, op.key, op.ret>>

\* that a call begins,
Asks ==
    /\ op.call = "none" /\ op.key = 0 /\ op.ret = "none"
    /\ op'.call \in {"insert", "remove", "lookup"} /\ op'.key \in Keys
    /\ op'.ret = "none" /\ UNCHANGED InTree

\* that it has its effect, all at once, and its answer,
Answers ==
    /\ op.ret = "none" /\ UNCHANGED <<op.call, op.key>>
    /\ \/ /\ op.call = "insert" /\ InTree' = InTree \union {op.key}
          /\ op'.ret = YesNo(op.key \notin InTree)
       \/ /\ op.call = "remove" /\ InTree' = InTree \ {op.key}
          /\ op'.ret = YesNo(op.key \in InTree)
       \/ /\ op.call = "lookup" /\ UNCHANGED InTree
          /\ op'.ret = YesNo(op.key \in InTree)

\* or that it returns.
Returns ==
    /\ op.ret # "none" /\ UNCHANGED InTree
    /\ op'.call = "none" /\ op'.key = 0 /\ op'.ret = "none"

\* A step of the tree keeps the invariant, and is one that callers of a set expect.
SplayGood == SplayInv' /\ (Works \/ Asks \/ Answers \/ Returns)

\* A call goes on, or asks, or returns; no key is lost.
LEMMA SplayQuiet ==
    ASSUME NEW sub, SplayAt(sub),
           NEW new, SplayTree(op', node', root', new),
           All(op', node', root', new) = All(op, node, root, sub),
           \/ UNCHANGED <<op.call, op.key, op.ret>>
           \/ op.pc = "idle" /\ op'.pc = "start"
           \/ op.pc = "done" /\ op'.pc = "idle"
    PROVE  SplayGood
<1>1. SplayInv'
      BY DEF SplayInv
<1>2. InTree' = InTree
      BY SplayHeld, SplayHeldNext DEF SplayAt
<1>3. SplayOp(op, root) /\ SplayOp(op', root')
      BY DEF SplayAt, SplayTree
<1>4. CASE UNCHANGED <<op.call, op.key, op.ret>>
      BY <1>1, <1>2, <1>4 DEF SplayGood, Works
<1>5. CASE op.pc = "idle" /\ op'.pc = "start"
  <2>1. op.call = "none" /\ op.key = 0 /\ op.ret = "none"
        BY <1>3, <1>5 DEF SplayOp
  <2>2. op'.call \in {"insert", "remove", "lookup"} /\ op'.key \in Keys /\ op'.ret = "none"
        BY <1>3, <1>5 DEF SplayOp
  <2> QED BY <1>1, <1>2, <2>1, <2>2 DEF SplayGood, Asks
<1>6. CASE op.pc = "done" /\ op'.pc = "idle"
  <2>1. op.ret # "none"
        BY <1>3, <1>6 DEF SplayOp
  <2>2. op'.call = "none" /\ op'.key = 0 /\ op'.ret = "none"
        BY <1>3, <1>6 DEF SplayOp
  <2> QED BY <1>1, <1>2, <2>1, <2>2 DEF SplayGood, Returns
<1> QED BY <1>4, <1>5, <1>6

\* A call is answered.
LEMMA SplayAnswer ==
    ASSUME NEW sub, SplayAt(sub),
           op.pc \notin {"idle", "done"},
           NEW x, NEW ret \in {"yes", "no"}, Done(x, ret),
           NEW new, Whole(node', x, new),
           \/ /\ op.call = "insert"
              /\ new[x] = All(op, node, root, sub) \union {op.key}
              /\ ret = "yes" <=> op.key \notin All(op, node, root, sub)
           \/ /\ op.call = "remove"
              /\ new[x] = All(op, node, root, sub) \ {op.key}
              /\ ret = "yes" <=> op.key \in All(op, node, root, sub)
           \/ /\ op.call = "lookup"
              /\ new[x] = All(op, node, root, sub)
              /\ ret = "yes" <=> op.key \in All(op, node, root, sub)
    PROVE  SplayGood
<1>0. SplayOp(op, root) BY DEF SplayAt, SplayTree
<1>1. /\ op'.pc = "done" /\ op'.ret = ret /\ op'.call = op.call /\ op'.key = op.key
      /\ op'.cur = 0 /\ op'.victim = 0 /\ \A s \in {0, 1} : op'.tmax[s] = -1
      /\ op.ret = "none" /\ root' = x
      BY <1>0 DEF SplayOp, Done, Idle, NULL, HEAD, Side
<1>2. op' \in [pc : {"done"}, call : {"insert", "remove", "lookup"},
               key : Keys \union {0}, cur : {0}, tmax : [{0, 1} -> Keys \union {0, -1}],
               victim : {0}, ret : {"yes", "no"}]
  <2>1. Idle.tmax \in [{0, 1} -> Keys \union {0, -1}]
        BY DEF Idle, HEAD, Side
  <2> QED BY <1>0, <2>1 DEF SplayOp, Done, NULL
<1>3. x \in Keys \union {0} /\ op'.key # 0
      BY <1>0, <1>1 DEF Whole, SplayOp
<1>4. SplayOp(op', root') /\ AtCaller(op')
      BY <1>1, <1>2, <1>3 DEF SplayOp, AtCaller, Apart
<1>5. SplayTree(op', node', root', new) /\ All(op', node', root', new) = new[x]
      BY <1>1, <1>4, WholeAt
<1>6. SplayInv'
      BY <1>5 DEF SplayInv
<1>7. InTree = All(op, node, root, sub) /\ InTree' = new[x]
      BY <1>5, SplayHeld, SplayHeldNext DEF SplayAt
<1>8. CASE /\ op.call = "insert"
           /\ new[x] = All(op, node, root, sub) \union {op.key}
           /\ ret = "yes" <=> op.key \notin All(op, node, root, sub)
      BY <1>1, <1>7, <1>8, <1>6 DEF SplayGood, Answers, YesNo
<1>9. CASE /\ op.call = "remove"
           /\ new[x] = All(op, node, root, sub) \ {op.key}
           /\ ret = "yes" <=> op.key \in All(op, node, root, sub)
      BY <1>1, <1>7, <1>9, <1>6 DEF SplayGood, Answers, YesNo
<1>10. CASE /\ op.call = "lookup"
            /\ new[x] = All(op, node, root, sub)
            /\ ret = "yes" <=> op.key \in All(op, node, root, sub)
      BY <1>1, <1>7, <1>10, <1>6 DEF SplayGood, Answers, YesNo
<1> QED BY <1>8, <1>9, <1>10

-----------------------------------------------------------------------------
(***************************************************************************)
(* The steps.                                                              *)
(***************************************************************************)
LEMMA SplayCall ==
    ASSUME NEW sub, SplayAt(sub),
           NEW c \in {"insert", "remove", "lookup"}, Call(c)
    PROVE  SplayGood
<1>1. PICK k \in Keys :
         op' = [Idle EXCEPT !.pc = "start", !.call = c, !.key = k]
      BY Zenon DEF Call
<1>2. /\ op.pc = "idle" /\ UNCHANGED <<node, root>> /\ SplayOp(op, root)
      /\ SplayTree(op, node, root, sub)
      BY DEF Call, SplayAt, SplayTree
<1>3. /\ op'.pc = "start" /\ op'.call = c /\ op'.key = k /\ op'.cur = 0
      /\ op'.victim = 0 /\ op'.ret = "none" /\ \A s \in {0, 1} : op'.tmax[s] = -1
      BY <1>1 DEF Idle, NULL, HEAD, Side
<1>4. op' \in [pc : {"start"}, call : {c}, key : {k}, cur : {0},
               tmax : [{0, 1} -> Keys \union {0, -1}], victim : {0}, ret : {"none"}]
      BY <1>1 DEF Idle, NULL, HEAD, Side
<1>5. SplayOp(op', root) /\ AtCaller(op') /\ AtCaller(op)
      BY <1>2, <1>3, <1>4, SplayKeysFacts DEF SplayOp, AtCaller, Apart
<1>6. Whole(node, root, sub) /\ All(op, node, root, sub) = sub[root]
      BY <1>2, <1>5, WholeAt
<1>7. SplayTree(op', node, root, sub) /\ All(op', node, root, sub) = sub[root]
      BY <1>5, <1>6, WholeAt
<1> QED BY <1>2, <1>3, <1>6, <1>7, SplayQuiet

LEMMA SplayReturn ==
    ASSUME NEW sub, SplayAt(sub), Return
    PROVE  SplayGood
<1>1. /\ op.pc = "done" /\ op' = Idle /\ UNCHANGED <<node, root>>
      /\ SplayOp(op, root) /\ SplayTree(op, node, root, sub)
      BY DEF Return, SplayAt, SplayTree
<1>2. /\ op'.pc = "idle" /\ op'.call = "none" /\ op'.key = 0 /\ op'.cur = 0
      /\ op'.victim = 0 /\ op'.ret = "none" /\ \A s \in {0, 1} : op'.tmax[s] = -1
      BY <1>1 DEF Idle, NULL, HEAD, Side
<1>3. op' \in [pc : {"idle"}, call : {"none"}, key : {0}, cur : {0},
               tmax : [{0, 1} -> Keys \union {0, -1}], victim : {0}, ret : {"none"}]
      BY <1>1 DEF Idle, NULL, HEAD, Side
<1>4. SplayOp(op', root) /\ AtCaller(op') /\ AtCaller(op)
      BY <1>1, <1>2, <1>3 DEF SplayOp, AtCaller, Apart
<1>5. Whole(node, root, sub) /\ All(op, node, root, sub) = sub[root]
      BY <1>1, <1>4, WholeAt
<1>6. SplayTree(op', node, root, sub) /\ All(op', node, root, sub) = sub[root]
      BY <1>4, <1>5, WholeAt
<1> QED BY <1>1, <1>2, <1>5, <1>6, SplayQuiet

LEMMA SplayStart ==
    ASSUME NEW sub, SplayAt(sub), Start
    PROVE  SplayGood
<1>1. /\ op.pc = "start" /\ root # 0 /\ UNCHANGED <<node, root>>
      /\ op' = [op EXCEPT !.pc = "splay", !.cur = root]
      /\ SplayOp(op, root) /\ SplayTree(op, node, root, sub)
      BY DEF Start, NULL, SplayAt, SplayTree
<1>2. /\ AtCaller(op) /\ ~Apart(op) /\ op.victim = 0 /\ op.ret = "none"
      /\ \A s \in {0, 1} : op.tmax[s] = -1
      BY <1>1 DEF SplayOp, AtCaller, Apart
<1>3. /\ op'.pc = "splay" /\ op'.call = op.call /\ op'.key = op.key /\ op'.cur = root
      /\ op'.tmax = op.tmax /\ op'.victim = op.victim /\ op'.ret = op.ret
      /\ op' \in [pc : {"splay"}, call : {"none", "insert", "remove", "lookup"},
              key : Keys \union {0}, cur : Keys \union {0},
              tmax : [{0, 1} -> Keys \union {0, -1}],
              victim : Keys \union {0}, ret : {"none", "yes", "no"}]
      BY <1>1 DEF SplayOp
<1>4. SplayOp(op', root)
      BY <1>1, <1>2, <1>3 DEF SplayOp, AtCaller, Apart
<1>5. Whole(node, root, sub) /\ All(op, node, root, sub) = sub[root]
      BY <1>1, <1>2, WholeAt
<1>6. SplayTree(op', node, root, sub) /\ All(op', node, root, sub) = sub[root]
  <2>1. /\ root # 0 /\ op'.pc = "splay" /\ op'.cur = root /\ op'.victim = 0
        /\ \A s \in {0, 1} : op'.tmax[s] = -1
        BY <1>1, <1>2, <1>3
  <2>2. Whole(node, root, sub) BY <1>5
  <2>3. SplayTree(op', node, root, sub) /\ All(op', node, root, sub) = sub[root]
        BY ONLY <1>4, <2>1, <2>2, SplayBegins
  <2> QED BY <2>3
<1> QED BY <1>1, <1>3, <1>5, <1>6, SplayQuiet

\* The steps of a splay, and of the climbs after it.
LEMMA SplayGoesOn ==
    ASSUME NEW sub, SplayAt(sub),
           \/ SplayBreak \/ SplayDown \/ Assemble
           \/ Climb \/ ClimbEnd
    PROVE  SplayGood
<1>1. SplayTree(op, node, root, sub)
      BY DEF SplayAt
<1>2. PICK new : /\ SplayTree(op', node', root', new)
                 /\ All(op', node', root', new) = All(op, node, root, sub)
  <2>1. CASE SplayBreak BY <1>1, <2>1, BreakOff
  <2>2. CASE SplayDown BY <1>1, <2>2, GoDown
  <2>3. CASE Assemble BY <1>1, <2>3, JoinUp
  <2>4. CASE Climb BY <1>1, <2>4, ClimbUp
  <2>5. CASE ClimbEnd BY <1>1, <2>5, ClimbOver
  <2> QED BY <2>1, <2>2, <2>3, <2>4, <2>5
<1>3. UNCHANGED <<op.call, op.key, op.ret>>
  <2>1. SplayOp(op, root) BY <1>1 DEF SplayTree
  <2>2. CASE SplayBreak BY <2>1, <2>2 DEF SplayBreak, SplayOp
  <2>3. CASE SplayDown BY <2>1, <2>3, Zenon DEF SplayDown, SplayOp
  <2>4. CASE Assemble BY <2>1, <2>4, Zenon DEF Assemble, SplayOp
  <2>5. CASE Climb BY <2>1, <2>5 DEF Climb, SplayOp
  <2>6. CASE ClimbEnd BY <2>1, <2>6 DEF ClimbEnd, SplayOp
  <2> QED BY <2>2, <2>3, <2>4, <2>5, <2>6
<1> QED BY <1>2, <1>3, SplayQuiet

\* A removal splays the left sub-tree.
LEMMA SplayAgain ==
    ASSUME NEW sub, SplayAt(sub), RemoveSplay
    PROVE  SplayGood
<1> DEFINE x == op.cur
<1>1. /\ op.pc = "splayed" /\ op.call = "remove" /\ op.victim = 0 /\ op.key = x
      /\ node[x].link[0] # 0 /\ UNCHANGED <<node, root>>
      /\ op' = [op EXCEPT !.pc = "splay", !.victim = x, !.cur = node[x].link[0]]
      /\ SplayOp(op, root) /\ SplayHeap(op, node) /\ SplayTree(op, node, root, sub)
      BY DEF RemoveSplay, NULL, SplayAt, SplayTree
<1>2. /\ ~AtCaller(op) /\ ~Apart(op) /\ x \in Keys
      /\ op.ret = "none" /\ \A s \in {0, 1} : op.tmax[s] = -1
  <2>1. ~AtCaller(op) /\ ~Apart(op) /\ op.pc # "climb" /\ op.pc # "done"
        BY <1>1 DEF AtCaller, Apart
  <2> QED BY <1>1, <2>1 DEF SplayOp
<1>3. node[x].link[0] \in Keys
      BY <1>1, <1>2, NodeTypes
<1>4. /\ op'.pc = "splay" /\ op'.call = op.call /\ op'.key = op.key
      /\ op'.cur = node[x].link[0]
      /\ op'.tmax = op.tmax /\ op'.victim = x /\ op'.ret = op.ret
      /\ op' \in [pc : {"splay"}, call : {"none", "insert", "remove", "lookup"},
              key : Keys \union {0}, cur : Keys \union {0},
              tmax : [{0, 1} -> Keys \union {0, -1}],
              victim : Keys \union {0}, ret : {"none", "yes", "no"}]
      BY <1>1, <1>2, <1>3 DEF SplayOp
<1>5. SplayOp(op', root)
      BY <1>1, <1>2, <1>3, <1>4, SplayKeysFacts DEF SplayOp, AtCaller, Apart
<1> HIDE DEF x
<1>6. PICK new : /\ SplayTree(op', node, root, new)
                 /\ All(op', node, root, new) = All(op, node, root, sub)
  <2>1. /\ op'.pc = "splay" /\ op'.cur = node[x].link[0] /\ op'.victim = x
        /\ \A s \in {0, 1} : op'.tmax[s] = -1
        BY <1>2, <1>4
  <2>2. /\ op.pc = "splayed" /\ op.victim = 0 /\ op.key = x /\ x = op.cur
        /\ node[x].link[0] # 0 /\ SplayTree(op, node, root, sub)
        BY <1>1 DEF x
  <2>3. \E new : /\ SplayTree(op', node, root, new)
                 /\ All(op', node, root, new) = All(op, node, root, sub)
        BY ONLY <1>5, <2>1, <2>2, SecondSplay
  <2> QED BY <2>3
<1> QED BY <1>1, <1>4, <1>6, SplayQuiet

\* The tree was empty.
LEMMA SplayEmpty ==
    ASSUME NEW sub, SplayAt(sub),
           InsertFirst \/ RemoveEmpty
    PROVE  SplayGood
<1>1. /\ op.pc = "start" /\ root = 0 /\ AtCaller(op) /\ SplayOp(op, root)
      /\ op.key \in Keys /\ SplayTree(op, node, root, sub)
      BY DEF InsertFirst, RemoveEmpty, NULL, SplayAt, SplayTree,
             AtCaller, SplayOp
<1>2. Whole(node, root, sub) /\ All(op, node, root, sub) = sub[root]
      BY <1>1, WholeAt
<1>3. sub[0] = {} /\ op.pc \notin {"idle", "done"}
      BY <1>1, <1>2 DEF Whole, SearchTree
<1>4. CASE InsertFirst
  <2>1. /\ op.call = "insert" /\ Done(op.key, "yes")
        /\ node' = Refresh([node EXCEPT ![op.key] = NewNode], op.key)
        BY <1>4 DEF InsertFirst
  <2>2. Whole(node', op.key, sub) /\ sub[op.key] = {op.key}
        BY <1>1, <1>2, <2>1, FirstNode
  <2>3. /\ sub[op.key] = All(op, node, root, sub) \union {op.key}
        /\ op.key \notin All(op, node, root, sub)
        BY <1>1, <1>2, <1>3, <2>2
  <2> QED BY <1>3, <2>1, <2>2, <2>3, SplayAnswer
<1>5. CASE RemoveEmpty
  <2>1. op.call = "remove" /\ Done(0, "no") /\ node' = node
        BY <1>5 DEF RemoveEmpty, NULL
  <2>2. Whole(node', 0, sub)
        BY <1>1, <1>2, <2>1
  <2>3. /\ sub[0] = All(op, node, root, sub) \ {op.key}
        /\ op.key \notin All(op, node, root, sub)
        BY <1>1, <1>2, <1>3
  <2> QED BY <1>3, <2>1, <2>2, <2>3, SplayAnswer
<1> QED BY <1>4, <1>5

\* What a call finds when the splay has ended.
LEMMA SplayFound ==
    ASSUME NEW sub, SplayAt(sub), op.pc = "splayed", op.victim = 0
    PROVE  /\ Whole(node, op.cur, sub) /\ All(op, node, root, sub) = sub[op.cur]
           /\ op.cur \in Keys /\ op.key \in Keys
           /\ \A y \in sub[op.cur] \ {op.cur} : y < op.key <=> y < op.cur
           /\ op.key \in All(op, node, root, sub) <=> op.key = op.cur
           /\ op.pc \notin {"idle", "done"}
<1>1. SplayTree(op, node, root, sub) BY DEF SplayAt
<1>2. /\ Whole(node, op.cur, sub)
      /\ All(op, node, root, sub) = sub[op.cur]
      /\ op.cur \in Keys /\ op.key \in Keys /\ op.cur \in sub[op.cur]
      /\ \A y \in sub[op.cur] \ {op.cur} : y # op.key /\ (y < op.key <=> y < op.cur)
      /\ op.key \in sub[op.cur] <=> op.key = op.cur
      BY <1>1, WholeSplayed
<1> QED BY <1>2

\* A call that leaves the tree as the splay has made it.
LEMMA SplayOnly ==
    ASSUME NEW sub, SplayAt(sub),
           \/ InsertRefuse \/ Lookup \/ RemoveAbsent
    PROVE  SplayGood
<1>1. op.pc = "splayed" /\ op.victim = 0 /\ node' = node
  <2>1. op.pc = "splayed" /\ node' = node
        BY DEF InsertRefuse, Lookup, RemoveAbsent
  <2>2. op.call # "remove" \/ op.victim = 0
        BY DEF InsertRefuse, Lookup, RemoveAbsent, NULL
  <2>3. SplayOp(op, root) BY DEF SplayAt, SplayTree
  <2> QED BY <2>1, <2>2, <2>3 DEF SplayOp
<1>2. /\ Whole(node, op.cur, sub) /\ All(op, node, root, sub) = sub[op.cur]
      /\ op.cur \in Keys /\ op.key \in Keys
      /\ op.key \in All(op, node, root, sub) <=> op.key = op.cur
      /\ op.pc \notin {"idle", "done"}
      BY <1>1, SplayFound
<1>3. Whole(node', op.cur, sub)
      BY <1>1, <1>2
<1>4. CASE InsertRefuse
  <2>1. op.call = "insert" /\ op.cur = op.key /\ Done(op.cur, "no")
        BY <1>4 DEF InsertRefuse
  <2>2. sub[op.cur] = All(op, node, root, sub) \union {op.key} BY <1>2, <2>1
  <2> QED BY <1>2, <1>3, <2>1, <2>2, SplayAnswer
<1>5. CASE RemoveAbsent
  <2>1. op.call = "remove" /\ op.cur # op.key /\ Done(op.cur, "no")
        BY <1>5 DEF RemoveAbsent
  <2>2. sub[op.cur] = All(op, node, root, sub) \ {op.key} BY <1>2, <2>1
  <2> QED BY <1>2, <1>3, <2>1, <2>2, SplayAnswer
<1>6. CASE Lookup
  <2> DEFINE ret == IF op.cur = op.key THEN "yes" ELSE "no"
  <2>1. op.call = "lookup" /\ Done(op.cur, ret)
        BY <1>6 DEF Lookup, YesNo
  <2>2. ret \in {"yes", "no"} /\ (ret = "yes" <=> op.cur = op.key)
        OBVIOUS
  <2> HIDE DEF ret
  <2>3. ret = "yes" <=> op.key \in All(op, node, root, sub) BY <1>2, <2>2
  <2> QED BY <1>2, <1>3, <2>1, <2>2, <2>3, SplayAnswer
<1> QED BY <1>4, <1>5, <1>6

\* The new node becomes the root.
LEMMA SplayInsert ==
    ASSUME NEW sub, SplayAt(sub), InsertRoot
    PROVE  SplayGood
<1> DEFINE x == op.cur
           k == op.key
           s == IF k < x THEN 0 ELSE 1
           kid == node[x].link[s]
           f == Topping3(node, x, k, s, kid)
<1>1. /\ op.pc = "splayed" /\ op.call = "insert" /\ x # k /\ Done(k, "yes")
      /\ node' = Refresh(Refresh(Refresh(f, kid), x), k)
      BY Zenon DEF InsertRoot, Toward, Topping3, NULL, Side
<1>2. op.victim = 0
      BY <1>1 DEF SplayAt, SplayTree, SplayOp
<1>3. /\ Whole(node, x, sub) /\ All(op, node, root, sub) = sub[x]
      /\ x \in Keys /\ k \in Keys
      /\ \A y \in sub[x] \ {x} : y < k <=> y < x
      /\ k \in All(op, node, root, sub) <=> k = x
      /\ op.pc \notin {"idle", "done"}
      BY <1>1, <1>2, SplayFound
<1>4. k \notin sub[x]
      BY <1>1, <1>3
<1>5. Topping(node, sub, x, k, s, kid)
      BY <1>3, <1>4 DEF Topping
<1> HIDE DEF f, s, kid, x, k
<1>6. PICK new : Whole(node', k, new) /\ new[k] = sub[x] \union {k}
      BY <1>1, <1>5, ToppedWhole DEF f
<1> QED BY <1>1, <1>3, <1>4, <1>6, SplayAnswer, Zenon DEF k

\* A node that has nothing on its left leaves the tree,
LEMMA SplayRemoveSmallest ==
    ASSUME NEW sub, SplayAt(sub), RemoveSmallest
    PROVE  SplayGood
<1> DEFINE x == op.cur
           q == node[x].link[1]
           f == [node EXCEPT ![x] = NewNode]
<1>1. /\ op.pc = "splayed" /\ op.call = "remove" /\ op.victim = 0 /\ op.key = x
      /\ node[x].link[0] = 0 /\ Done(q, "yes")
      /\ node' = set_parent(Refresh(f, q), q, 0)
      BY DEF RemoveSmallest, Leave, NULL
<1>2. /\ Whole(node, x, sub) /\ All(op, node, root, sub) = sub[x]
      /\ x \in Keys
      /\ op.key \in All(op, node, root, sub)
      /\ op.pc \notin {"idle", "done"}
      BY <1>1, SplayFound
<1> HIDE DEF x, q, f
<1>3. PICK new : Leaving(f, q, new) /\ new[q] = sub[x] \ {x}
      BY <1>1, <1>2, SmallestLeaves DEF f, q
<1>4. Whole(node', q, new)
      BY <1>1, <1>3, LeavingIs
<1> QED BY <1>1, <1>2, <1>3, <1>4, SplayAnswer

\* and one that has is left by what its left sub-tree has been splayed to.
LEMMA SplayRemoveJoin ==
    ASSUME NEW sub, SplayAt(sub), RemoveJoin
    PROVE  SplayGood
<1> DEFINE x == op.cur
           v == op.victim
           q == node[v].link[1]
           f == [set_parent([node EXCEPT ![x].link[1] = q], q, x)
                   EXCEPT ![v] = NewNode]
<1>1. /\ SplayTree(op, node, root, sub) /\ SplayOp(op, root) /\ SplayHeap(op, node)
      /\ Pieces(op, node, root, sub)
      /\ op.pc = "splayed" /\ v # 0 /\ Done(x, "yes")
      BY DEF SplayAt, SplayTree, RemoveJoin, Leave, NULL
<1>2. v = op.key /\ op.call = "remove" /\ ~AtCaller(op)
      BY <1>1 DEF SplayOp
<1>3. node' = set_parent(Refresh(f, x), x, 0)
      BY <1>2 DEF RemoveJoin, Leave, NULL
<1>4. Rejoining(op, node, root, sub, x, v, q, f)
      BY <1>1 DEF Rejoining
<1>5. v \in All(op, node, root, sub)
  <2>1. v \in Keys /\ \A y \in Keys : y \in sub[y] BY <1>1, Trees
  <2> QED BY <1>2, <2>1 DEF All
<1> HIDE DEF x, v, q, f
<1>6. PICK new : Leaving(f, x, new) /\ new[x] = All(op, node, root, sub) \ {v}
      BY <1>4, VictimLeaves
<1>7. Whole(node', x, new)
      BY <1>3, <1>6, LeavingIs
<1>8. op.pc \notin {"idle", "done"}
      BY <1>1
<1> QED BY <1>1, <1>2, <1>5, <1>6, <1>7, <1>8, SplayAnswer

LEMMA SplayStep ==
    ASSUME SplayInv, [Next]_vars
    PROVE  SplayGood
<1>1. PICK sub : SplayAt(sub)
      BY DEF SplayInv, SplayAt
<1>2. CASE UNCHANGED vars
  <2>1. UNCHANGED <<node, root, op>>
        BY <1>2 DEF vars
  <2>2. SplayTree(op', node', root', sub)
        BY <1>1, <2>1 DEF SplayAt
  <2>3. All(op', node', root', sub) = All(op, node, root, sub)
        BY <2>1
  <2> QED BY <1>1, <2>1, <2>2, <2>3, SplayQuiet
<1>3. CASE Next
  <2>1. CASE \E c \in {"insert", "remove", "lookup"} : Call(c)
        BY <1>1, <2>1, SplayCall
  <2>2. CASE Start
        BY <1>1, <2>2, SplayStart
  <2>3. CASE SplayBreak \/ SplayDown \/ Assemble \/ Climb \/ ClimbEnd
        BY <1>1, <2>3, SplayGoesOn
  <2>4. CASE InsertFirst \/ RemoveEmpty
        BY <1>1, <2>4, SplayEmpty
  <2>5. CASE InsertRefuse \/ Lookup \/ RemoveAbsent
        BY <1>1, <2>5, SplayOnly
  <2>6. CASE InsertRoot
        BY <1>1, <2>6, SplayInsert
  <2>7. CASE RemoveSmallest
        BY <1>1, <2>7, SplayRemoveSmallest
  <2>8. CASE RemoveSplay
        BY <1>1, <2>8, SplayAgain
  <2>9. CASE RemoveJoin
        BY <1>1, <2>9, SplayRemoveJoin
  <2>10. CASE Return
        BY <1>1, <2>10, SplayReturn
  <2> QED BY <1>3, <2>1, <2>2, <2>3, <2>4, <2>5, <2>6, <2>7, <2>8, <2>9, <2>10
             DEF Next, Step
<1> QED BY <1>2, <1>3

-----------------------------------------------------------------------------
(***************************************************************************)
(* What the invariant says, in the words of SplayProps.                    *)
(***************************************************************************)
LEMMA MaxIs ==
    ASSUME NEW S, S \subseteq Keys, NEW m \in Nat, IsMax(m, S)
    PROVE  m = Max({Size[k] : k \in S})
<1> DEFINE T == {Size[k] : k \in S}
<1>1. T \subseteq Nat /\ m \in T /\ \A n \in T : m >= n
      BY SplayKeysFacts DEF IsMax
<1> HIDE DEF T
<1>2. \A n \in T : (\A i \in T : n >= i) => n = m
      BY <1>1
<1>3. Max(T) = CHOOSE n \in T : \A i \in T : n >= i
      BY DEF Max
<1>4. Max(T) = m
      BY <1>1, <1>2, <1>3
<1> QED BY <1>4 DEF T

LEMMA SplayMeans ==
    ASSUME SplayInv, op.pc = "idle"
    PROVE  LinksAgree /\ Ordered /\ MaxSizeExact
<1>1. PICK sub : SplayTree(op, node, root, sub)
      BY DEF SplayInv
<1>2. SplayOp(op, root) /\ AtCaller(op)
      BY <1>1 DEF SplayTree, AtCaller
<1>3. Whole(node, root, sub) /\ All(op, node, root, sub) = sub[root]
      BY <1>1, <1>2, WholeAt
<1>4. SearchTree(Keys, node, sub) /\ sub[root] \subseteq Keys
      BY <1>3 DEF Whole, SearchTree
<1>5. \A x : Under(x) = sub[x]
  <2>1. \A x : Under(x) = UnderIn(Keys, node, x)
        BY DEF Under, UnderIn, Ref, NULL
  <2>2. \A x : UnderIn(Keys, node, x) = sub[x]
        BY <1>4, UnderIs
  <2> QED BY <2>1, <2>2
<1>6. InTree = sub[root]
  <2>1. InTree = TreeIn(op, node, root)
    <3>1. \A x : Under(x) = UnderIn(Keys, node, x)
          BY DEF Under, UnderIn, Ref, NULL
    <3> QED BY <3>1 DEF InTree, TreeIn, HEAD
  <2> QED BY <1>1, <1>3, <2>1, TreeInIs
<1>7. LinksAgree
      BY <1>3, <1>4, <1>6 DEF Whole, LinksAgree, NULL, Side
<1>8. Ordered
  <2>1. \A x \in sub[root] : \A t \in {0, 1} : \A k \in sub[node[x].link[t]] :
           IF t = 0 THEN k < x ELSE k > x
        BY <1>4 DEF SearchTree
  <2> QED BY <1>5, <1>6, <2>1 DEF Ordered
<1>9. MaxSizeExact
  <2> SUFFICES ASSUME NEW x \in sub[root]
               PROVE  node[x].max = Max({Size[k] : k \in sub[x]})
      BY <1>5, <1>6 DEF MaxSizeExact
  <2>1. x \in Keys /\ sub[x] \subseteq Keys
        BY <1>4 DEF SearchTree
  <2>2. IsMax(node[x].max, sub[x]) /\ node[x].max \in Nat
        BY <1>3, <2>1 DEF Whole, SplayNode
  <2> QED BY <2>1, <2>2, MaxIs
<1> QED BY <1>7, <1>8, <1>9

\* Between the calls only is anything said.
LEMMA SplayMeansAll ==
    SplayInv => LinksAgree /\ Ordered /\ MaxSizeExact
<1> SUFFICES ASSUME SplayInv PROVE LinksAgree /\ Ordered /\ MaxSizeExact
    OBVIOUS
<1>1. CASE op.pc = "idle"
      BY <1>1, SplayMeans
<1>2. CASE op.pc # "idle"
      BY <1>2 DEF AtRest, LinksAgree, Ordered, MaxSizeExact
<1> QED BY <1>1, <1>2

LEMMA SplayInvInit ==
    ASSUME Init
    PROVE  \E sub : SplayTree(op, node, root, sub) /\ All(op, node, root, sub) = {}
<1> DEFINE sub == [x \in Keys \union {0} |-> IF x = 0 THEN {} ELSE {x}]
<1>1. /\ node = [k \in Keys \union {-1} |-> NewNode] /\ root = 0 /\ op = Idle
      BY DEF Init, NULL, HEAD
<1>2. SearchTree(Keys, node, sub)
  <2>1. \A x \in Keys : \A t \in {0, 1} : node[x].link[t] = 0
        BY <1>1, SplayNewNodeIs
  <2>2. sub \in [Keys \union {0} -> SUBSET Keys] /\ sub[0] = {}
        BY SplayKeysFacts
  <2>3. \A x \in Keys : sub[x] = {x}
        BY SplayKeysFacts
  <2>4. \A x \in Keys : IsFiniteSet({x})
        BY FS_Singleton
  <2> HIDE DEF sub
  <2> QED BY <2>1, <2>2, <2>3, <2>4, SplayKeysFacts DEF SearchTree
<1>3. sub[root] = {} BY <1>1
<1> HIDE DEF sub
<1>4. Whole(node, root, sub)
  <2>1. node \in [Keys \union {-1} -> SplayNode] /\ node[-1] = NewNode
        BY <1>1, SplayNewNodeIs
  <2>2. \A x \in Keys : node[x] = NewNode BY <1>1
  <2> QED BY <1>1, <1>2, <1>3, <2>1, <2>2, SplayNewNodeIs DEF Whole
<1>5. SplayOp(op, root) /\ AtCaller(op)
      BY <1>1 DEF SplayOp, AtCaller, Apart, Idle, NULL, HEAD, Side
<1> QED BY <1>3, <1>4, <1>5, WholeAt

\* A tree starts empty.
LEMMA SplayInit == Init => SplayInv /\ InTree = {}
<1> SUFFICES ASSUME Init PROVE SplayInv /\ InTree = {}
    OBVIOUS
<1>1. PICK sub : SplayTree(op, node, root, sub) /\ All(op, node, root, sub) = {}
      BY SplayInvInit
<1>2. InTree = {}
      BY <1>1, SplayHeld
<1> QED BY <1>1, <1>2 DEF SplayInv

LEMMA SplayAlways == Spec => []SplayInv
<1>1. Init => SplayInv
      BY SplayInit
<1>2. SplayInv /\ [Next]_vars => SplayInv'
      BY SplayStep DEF SplayGood
<1> QED BY <1>1, <1>2, PTL DEF Spec
=============================================================================
