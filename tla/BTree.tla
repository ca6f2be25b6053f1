-------------------------------- MODULE BTree --------------------------------
(***************************************************************************)
(* The B-tree of libtree/btree/btree.c: bt_insert(), bt_remove() and       *)
(* bt_search(), one loop iteration per step, by callers that run one call  *)
(* at a time.  The arrays of a node are sequences of what is in use, so    *)
(* slot_len is the length of slot, and links is empty in a leaf; indexes   *)
(* are those of the code, from 0.  The member parent is written by a split *)
(* and read by nothing: it is left out.                                    *)
(***************************************************************************)
EXTENDS Integers, FiniteSets, SequencesExt, FiniteSetsExt

CONSTANTS Keys,         \* the keys callers may insert
          Nodes,        \* addresses of struct bt_node, a set of numbers
          MIN_DEGREE    \* t of the text books; 16 in btree.h

NULL == 0

SizesOK == Keys \subseteq Nat \ {NULL} /\ Nodes \subseteq Nat \ {NULL}
           /\ MIN_DEGREE \in Nat /\ MIN_DEGREE >= 2

MIN_NODE_SLOTS == MIN_DEGREE - 1
MAX_NODE_SLOTS == 2 * MIN_DEGREE - 1

VARIABLES node,     \* the nodes
          root,     \* the root
          op        \* the call in progress: its locals, and where it is

vars == <<node, root, op>>

bt_zalloc_node == [used |-> TRUE, slot |-> <<>>, links |-> <<>>]
FreeNode == [bt_zalloc_node EXCEPT !.used = FALSE]

\* cur is n of the insert and of the search, and sub of the removal; val and
\* idx are those of bt_remove(), which calls itself with another value.
Idle == [pc |-> "idle", call |-> "none", key |-> NULL, cur |-> NULL,
         val |-> NULL, idx |-> 0, ret |-> "none"]

\* The node calloc() hands out; Nodes bounds how many there can be.
FreeNodes(h) == {x \in Nodes : ~h[x].used}
Fresh(h) == Min(FreeNodes(h))

Init ==
    /\ root = Min(Nodes)
    /\ node = [x \in Nodes |-> IF x = root THEN bt_zalloc_node ELSE FreeNode]
    /\ op = Idle

Call(c, k) ==
    /\ op.pc = "idle"
    /\ op' = [Idle EXCEPT !.pc = IF c = "insert" THEN "root" ELSE c,
                          !.call = c, !.key = k, !.val = k, !.cur = root]
    /\ UNCHANGED <<node, root>>

Done(ret) == op' = [op EXCEPT !.pc = "done", !.cur = NULL, !.val = NULL,
                              !.idx = 0, !.ret = ret]

slot_len(x) == Len(node[x].slot)
IsFull(x) == slot_len(x) = MAX_NODE_SLOTS

\* Mutant of IsGtMin: a node at its minimum will do.
IsGeMin(x) == slot_len(x) >= MIN_NODE_SLOTS

IsGtMin(x) == slot_len(x) > MIN_NODE_SLOTS
IsLeaf(h, x) == h[x].links = <<>>

\* Where bt_search_node_index() stops: past the smaller keys.
Index(x, k) == Cardinality({i \in DOMAIN node[x].slot : node[x].slot[i] < k})
Has(x, k) == Index(x, k) < slot_len(x) /\ node[x].slot[Index(x, k) + 1] = k

Child(x, i) == node[x].links[i + 1]

-----------------------------------------------------------------------------
(***************************************************************************)
(* bt_insert().                                                            *)
(***************************************************************************)
\* The first n elements of an array, and those after them; a leaf has no links.
Lower(a, n) == SubSeq(a, 1, Min({n, Len(a)}))
Upper(a, n) == SubSeq(a, n + 1, Len(a))

\* Mutant of SplitChild: the right half begins one child too late.
SplitChildLate(h, p, i) ==
    LET c == h[p].links[i + 1]
        n == Fresh(h)
    IN [h EXCEPT
          ![n] = [used |-> TRUE,
                  slot |-> Upper(h[c].slot, MIN_DEGREE),
                  links |-> Upper(h[c].links, MIN_DEGREE + 1)],
          ![c].slot = Lower(@, MIN_NODE_SLOTS),
          ![c].links = Lower(@, MIN_DEGREE),
          ![p].slot = InsertAt(@, i + 1, h[c].slot[MIN_DEGREE]),
          ![p].links = InsertAt(@, i + 2, n)]

\* bt_split_child_node(): the full child i of p keeps the lower half, a new node
\* to its right gets the upper one, and p the key between them.
SplitChild(h, p, i) ==
    LET c == h[p].links[i + 1]
        n == Fresh(h)
    IN [h EXCEPT
          ![n] = [used |-> TRUE,
                  slot |-> Upper(h[c].slot, MIN_DEGREE),
                  links |-> Upper(h[c].links, MIN_DEGREE)],
          ![c].slot = Lower(@, MIN_NODE_SLOTS),
          ![c].links = Lower(@, MIN_DEGREE),
          ![p].slot = InsertAt(@, i + 1, h[c].slot[MIN_DEGREE]),
          ![p].links = InsertAt(@, i + 2, n)]

\* bt_split_root_node(): the old root becomes the left kid of a new one.
SplitRoot ==
    LET p == Fresh(node)
        grown == [node EXCEPT ![p] = [bt_zalloc_node EXCEPT !.links = <<root>>]]
    IN /\ op.pc = "root" /\ IsFull(root)
       /\ node' = SplitChild(grown, p, 0)
       /\ root' = p
       /\ op' = [op EXCEPT !.pc = "insert", !.cur = p]

KeepRoot ==
    /\ op.pc = "root" /\ ~IsFull(root)
    /\ op' = [op EXCEPT !.pc = "insert"]
    /\ UNCHANGED <<node, root>>

InsertRefuse ==
    /\ op.pc = "insert" /\ Has(op.cur, op.key)
    /\ Done("no")
    /\ UNCHANGED <<node, root>>

\* "Hit the bottom."
InsertLeaf ==
    /\ op.pc = "insert" /\ ~Has(op.cur, op.key) /\ IsLeaf(node, op.cur)
    /\ node' = [node EXCEPT ![op.cur].slot =
                               InsertAt(@, Index(op.cur, op.key) + 1, op.key)]
    /\ Done("yes")
    /\ UNCHANGED root

InsertDown ==
    /\ op.pc = "insert" /\ ~Has(op.cur, op.key) /\ ~IsLeaf(node, op.cur)
    /\ ~IsFull(Child(op.cur, Index(op.cur, op.key)))
    /\ op' = [op EXCEPT !.cur = Child(op.cur, Index(op.cur, op.key))]
    /\ UNCHANGED <<node, root>>

\* Mutant of InsertSplit: the key between the halves is not looked at.
InsertSplitLeft ==
    LET i == Index(op.cur, op.key)
        h == SplitChild(node, op.cur, i)
    IN /\ op.pc = "insert" /\ ~Has(op.cur, op.key) /\ ~IsLeaf(node, op.cur)
       /\ IsFull(Child(op.cur, i))
       /\ node' = h
       /\ op' = [op EXCEPT !.cur = h[op.cur].links[i + 1]]
       /\ UNCHANGED root

\* A full child is split on the way down: the key may be the one that came up,
\* or right of it.
InsertSplit ==
    LET i == Index(op.cur, op.key)
        h == SplitChild(node, op.cur, i)
        sep == h[op.cur].slot[i + 1]
    IN /\ op.pc = "insert" /\ ~Has(op.cur, op.key) /\ ~IsLeaf(node, op.cur)
       /\ IsFull(Child(op.cur, i))
       /\ node' = h
       /\ IF sep = op.key THEN Done("no")
          ELSE op' = [op EXCEPT !.cur =
                        h[op.cur].links[i + (IF op.key > sep THEN 2 ELSE 1)]]
       /\ UNCHANGED root

-----------------------------------------------------------------------------
(***************************************************************************)
(* bt_remove(): the descent, which leaves no node at its minimum behind.   *)
(***************************************************************************)
\* Mutant of MoveLeft: the child of the moved key stays.
MoveLeftKeyOnly(h, p, i) ==
    LET l == h[p].links[i + 1]
        r == h[p].links[i + 2]
    IN [h EXCEPT ![l].slot = Append(@, h[p].slot[i + 1]),
                 ![p].slot[i + 1] = Head(h[r].slot),
                 ![r].slot = Tail(@)]

\* bt_move_to_left(): the first key of child i + 1 goes to p, and that of p to
\* child i, which also gets the first child.
MoveLeft(h, p, i) ==
    LET l == h[p].links[i + 1]
        r == h[p].links[i + 2]
        kid == IF IsLeaf(h, r) THEN <<>> ELSE <<Head(h[r].links)>>
    IN [h EXCEPT ![l].slot = Append(@, h[p].slot[i + 1]),
                 ![l].links = @ \o kid,
                 ![p].slot[i + 1] = Head(h[r].slot),
                 ![r].slot = Tail(@),
                 ![r].links = IF kid = <<>> THEN @ ELSE Tail(@)]

\* bt_move_to_right(): the last key of child i goes to p, and that of p to child
\* i + 1, which also gets the last child.
MoveRight(h, p, i) ==
    LET l == h[p].links[i + 1]
        r == h[p].links[i + 2]
        kid == IF IsLeaf(h, r) THEN <<>> ELSE <<Last(h[l].links)>>
    IN [h EXCEPT ![r].slot = <<h[p].slot[i + 1]>> \o @,
                 ![r].links = kid \o @,
                 ![p].slot[i + 1] = Last(h[l].slot),
                 ![l].slot = Front(@),
                 ![l].links = IF kid = <<>> THEN @ ELSE Front(@)]

\* The left one of the two siblings bt_merge_siblings() takes.
MergeIndex(p, i) == IF i = slot_len(p) THEN i - 1 ELSE i

\* bt_merge_siblings(): the left one takes the key of p between them and all the
\* right one has, which is freed, and so is a root that has no key left.
Merged(p, i) == Child(p, MergeIndex(p, i))

Merge(p, i) ==
    LET m == MergeIndex(p, i)
        r == Child(p, m + 1)
        h == [node EXCEPT
                ![Merged(p, i)].slot = @ \o <<node[p].slot[m + 1]>> \o node[r].slot,
                ![Merged(p, i)].links = @ \o node[r].links,
                ![p].slot = RemoveAt(@, m + 1),
                ![p].links = RemoveAt(@, m + 2),
                ![r] = FreeNode]
        drop == h[p].slot = <<>> /\ root = p
    IN /\ node' = IF drop THEN [h EXCEPT ![p] = FreeNode] ELSE h
       /\ root' = IF drop THEN Merged(p, i) ELSE root

\* The child the removal goes to, and its siblings.
Below == Index(op.cur, op.val)

RightHasMore == Below < slot_len(op.cur) /\ IsGtMin(Child(op.cur, Below + 1))
LeftHasMore == Below > 0 /\ IsGtMin(Child(op.cur, Below - 1))

OnTheWayDown ==
    op.pc = "remove" /\ ~Has(op.cur, op.val) /\ ~IsLeaf(node, op.cur)

RemoveDown ==
    /\ OnTheWayDown
    /\ IsGtMin(Child(op.cur, Below))
    /\ op' = [op EXCEPT !.cur = Child(op.cur, Below)]
    /\ UNCHANGED <<node, root>>

RemoveDownMove ==
    /\ OnTheWayDown
    /\ ~IsGtMin(Child(op.cur, Below))
    /\ RightHasMore \/ LeftHasMore
    /\ node' = IF RightHasMore THEN MoveLeft(node, op.cur, Below)
                               ELSE MoveRight(node, op.cur, Below - 1)
    /\ op' = [op EXCEPT !.cur = Child(op.cur, Below)]
    /\ UNCHANGED root

MergesDown ==
    /\ OnTheWayDown
    /\ ~IsGtMin(Child(op.cur, Below)) /\ ~RightHasMore /\ ~LeftHasMore

RemoveDownMerge ==
    /\ MergesDown
    /\ Merge(op.cur, Below)
    /\ op' = [op EXCEPT !.cur = Merged(op.cur, Below)]

\* The result of an inner bt_remove() is not looked at.
RemoveAbsent ==
    /\ op.pc = "remove" /\ ~Has(op.cur, op.val) /\ IsLeaf(node, op.cur)
    /\ Done(IF op.val = op.key THEN "no" ELSE "yes")
    /\ UNCHANGED <<node, root>>

RemoveFound ==
    /\ op.pc = "remove" /\ Has(op.cur, op.val)
    /\ op' = [op EXCEPT !.pc = "take", !.idx = Below]
    /\ UNCHANGED <<node, root>>

-----------------------------------------------------------------------------
(***************************************************************************)
(* bt_remove(): the key at idx of cur is taken out.                        *)
(***************************************************************************)
\* The greatest and the smallest key under x.
GreatestUnder(x) ==
    LET g[y \in Nodes] == IF IsLeaf(node, y) THEN Last(node[y].slot)
                                             ELSE g[Last(node[y].links)]
    IN g[x]

SmallestUnder(x) ==
    LET s[y \in Nodes] == IF IsLeaf(node, y) THEN Head(node[y].slot)
                                             ELSE s[Head(node[y].links)]
    IN s[x]

TakeLeaf ==
    /\ op.pc = "take" /\ IsLeaf(node, op.cur)
    /\ node' = [node EXCEPT ![op.cur].slot = RemoveAt(@, op.idx + 1)]
    /\ Done("yes")
    /\ UNCHANGED root

\* Mutant of TakeInstead: the removal goes on in the same node.
TakeInsteadHere(k, x) ==
    /\ node' = [node EXCEPT ![op.cur].slot[op.idx + 1] = k]
    /\ op' = [op EXCEPT !.pc = "remove", !.val = k, !.idx = 0]
    /\ UNCHANGED root

\* A neighbour k of the key takes its place, and is removed from under x.
TakeInstead(k, x) ==
    /\ node' = [node EXCEPT ![op.cur].slot[op.idx + 1] = k]
    /\ op' = [op EXCEPT !.pc = "remove", !.cur = x, !.val = k, !.idx = 0]
    /\ UNCHANGED root

TakePrev ==
    LET x == Child(op.cur, op.idx)
    IN /\ op.pc = "take" /\ ~IsLeaf(node, op.cur)
       /\ IsGtMin(x)
       /\ TakeInstead(GreatestUnder(x), x)

TakeNext ==
    LET x == Child(op.cur, op.idx + 1)
    IN /\ op.pc = "take" /\ ~IsLeaf(node, op.cur)
       /\ ~IsGtMin(Child(op.cur, op.idx)) /\ IsGtMin(x)
       /\ TakeInstead(SmallestUnder(x), x)

MergesAround ==
    /\ op.pc = "take" /\ ~IsLeaf(node, op.cur)
    /\ ~IsGtMin(Child(op.cur, op.idx)) /\ ~IsGtMin(Child(op.cur, op.idx + 1))

\* The key goes down into the merge of the children beside it, where its index
\* is known.
TakeMerge ==
    /\ MergesAround
    /\ Merge(op.cur, op.idx)
    /\ op' = [op EXCEPT !.cur = Merged(op.cur, op.idx), !.idx = MIN_NODE_SLOTS]

-----------------------------------------------------------------------------
(* bt_search().                                                            *)
SearchDown ==
    /\ op.pc = "lookup" /\ ~Has(op.cur, op.key) /\ ~IsLeaf(node, op.cur)
    /\ op' = [op EXCEPT !.cur = Child(op.cur, Index(op.cur, op.key))]
    /\ UNCHANGED <<node, root>>

SearchEnd ==
    /\ op.pc = "lookup" /\ (Has(op.cur, op.key) \/ IsLeaf(node, op.cur))
    /\ Done(IF Has(op.cur, op.key) THEN "yes" ELSE "no")
    /\ UNCHANGED <<node, root>>

Return ==
    /\ op.pc = "done"
    /\ op' = Idle
    /\ UNCHANGED <<node, root>>

-----------------------------------------------------------------------------
Step ==
    \/ SplitRoot \/ KeepRoot
    \/ InsertRefuse \/ InsertLeaf \/ InsertDown \/ InsertSplit
    \/ RemoveDown \/ RemoveDownMove \/ RemoveDownMerge
    \/ RemoveAbsent \/ RemoveFound
    \/ TakeLeaf \/ TakePrev \/ TakeNext \/ TakeMerge
    \/ SearchDown \/ SearchEnd
    \/ Return

Next ==
    \/ \E c \in {"insert", "remove", "lookup"}, k \in Keys : Call(c, k)
    \/ Step

\* A call that has started runs to its end.
Spec == Init /\ [][Next]_vars /\ WF_vars(Step)
=============================================================================
