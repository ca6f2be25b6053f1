------------------------------ MODULE BtreeBlue ------------------------------
(***************************************************************************)
(* The B+tree of libtree/btree_blue/btree_blue.c: btree_blue_insert() and  *)
(* btree_blue_remove(), a whole call per step, and, as operators, lookup,  *)
(* first, last, get_prev and get_next.  Keys of a node decrease.  Of an    *)
(* inner node each key is a lower bound of what is under its child; the    *)
(* bound of the last child is lowered when a smaller key passes.  The      *)
(* slots of a node are two sequences, key and val (the children, none in a *)
(* leaf); in a leaf the value is the key's.  Positions are those of the    *)
(* code, from 0.  prev and next, the stub of a leaf, lead to the leaves    *)
(* with greater and with smaller keys.                                     *)
(***************************************************************************)
EXTENDS Integers, FiniteSets, SequencesExt, FiniteSetsExt

CONSTANTS Keys,         \* the keys callers may insert
          Nodes,        \* addresses of nodes, a set of numbers
          LEAF_SLOTS,   \* slot_vols[1] and slot_vols[2...], which follow from
          NODE_SLOTS    \* the sizes of a node and a key in btree_blue_init()

NULL == 0

\* The smallest nodes btree_blue_init() accepts, with keys of two words, have 9
\* and 10 slots.
SizesOK == Keys \subseteq Nat \ {NULL} /\ Nodes \subseteq Nat \ {NULL}
           /\ LEAF_SLOTS \in Nat /\ LEAF_SLOTS >= 9
           /\ NODE_SLOTS \in Nat /\ NODE_SLOTS >= 10

VARIABLES node,     \* the nodes
          root,     \* struct btree_blue_head: its node and height
          op        \* the call in progress

vars == <<node, root, op>>

NewNode == [used |-> TRUE, key |-> <<>>, val |-> <<>>, prev |-> NULL, next |-> NULL]
FreeNode == [NewNode EXCEPT !.used = FALSE]

\* bug is set when a BUG_ON is met.
Idle == [pc |-> "idle", call |-> "none", key |-> NULL, ret |-> "none", bug |-> FALSE]

Init ==
    /\ node = [x \in Nodes |-> FreeNode]
    /\ root = [node |-> NULL, height |-> 0]
    /\ op = Idle

\* A tree: what the operators below take and return.
Tree == [n |-> node, root |-> root.node, height |-> root.height, bug |-> FALSE]

Volume(level) == IF level = 1 THEN LEAF_SLOTS ELSE NODE_SLOTS

\* btree_blue_node_alloc(); Nodes bounds how many there can be.
Fresh(t) == Min({x \in Nodes : ~t.n[x].used})

BugIf(t, cond) == [t EXCEPT !.bug = @ \/ cond]

Slots(t, x) == Len(t.n[x].key)

\* getpos(): the position of the first key that is not greater, past the last
\* one when all are.
getpos(t, x, k) == Cardinality({i \in DOMAIN t.n[x].key : t.n[x].key[i] > k})

\* geteqv(): the position of the key, past the last one when it is not there.
geteqv(t, x, k) ==
    LET p == getpos(t, x, k)
    IN IF p < Slots(t, x) /\ t.n[x].key[p + 1] = k THEN p ELSE Slots(t, x)

InsertSlot(n, p, k, v) ==
    [n EXCEPT !.key = InsertAt(@, p + 1, k),
              !.val = IF v = NULL THEN @ ELSE InsertAt(@, p + 1, v)]

RemoveSlot(n, p) ==
    [n EXCEPT !.key = RemoveAt(@, p + 1),
              !.val = IF @ = <<>> THEN @ ELSE RemoveAt(@, p + 1)]

-----------------------------------------------------------------------------
(***************************************************************************)
(* find_level(): the node at a level that a key leads to, and its parent,  *)
(* or itself when there is none.                                           *)
(***************************************************************************)
\* Mutant of Lowered: the bound is left as it is.
LoweredNot(t, x, k) == t

\* "right-most key is too large, update it".
Lowered(t, x, k) ==
    IF getpos(t, x, k) = Slots(t, x) THEN [t EXCEPT !.n[x].key[Slots(t, x)] = k]
                                     ELSE t

RECURSIVE Descend(_, _, _, _, _)
Descend(t, k, x, parent, levels) ==
    IF levels = 0 \/ Slots(t, x) = 0
    THEN [t |-> BugIf(t, levels > 0), cb |-> x, parent |-> parent]
    ELSE LET low == Lowered(t, x, k)
             p == Min({getpos(t, x, k), Slots(t, x) - 1})
         IN Descend(low, k, low.n[x].val[p + 1], x, levels - 1)

find_level(t, k, level) == Descend(t, k, t.root, t.root, t.height - level)

-----------------------------------------------------------------------------
(***************************************************************************)
(* btree_blue_insert_level().                                              *)
(***************************************************************************)
\* btree_blue_grow(): a root above the root, bounded by its smallest key; or the
\* first leaf.
Grow(t) ==
    LET x == Fresh(t)
        above == InsertSlot(NewNode, 0, Last(t.n[t.root].key), t.root)
    IN [t EXCEPT !.n[x] = IF t.root = NULL THEN NewNode ELSE above,
                 !.root = x, !.height = @ + 1]

\* Mutant of LinkLeft: the leaf that was to the left is not told.
LinkLeftOneWay(t, x, y) ==
    [t EXCEPT !.n[y].next = x, !.n[y].prev = t.n[x].prev, !.n[x].prev = y]

\* The new leaf y comes between leaf x and the one to its left.
LinkLeft(t, x, y) ==
    LET linked == [t EXCEPT !.n[y].next = x, !.n[y].prev = t.n[x].prev,
                            !.n[x].prev = y]
        left == t.n[x].prev
    IN IF left = NULL THEN linked ELSE [linked EXCEPT !.n[left].next = y]

\* split_to_empty(): the first half of the slots, the greater keys, goes to y.
SplitToEmpty(t, x, y) ==
    LET half == Slots(t, x) \div 2
        First(a) == SubSeq(a, 1, Min({half, Len(a)}))
        Rest(a) == SubSeq(a, half + 1, Len(a))
    IN [t EXCEPT !.n[y].key = First(t.n[x].key), !.n[y].val = First(t.n[x].val),
                 !.n[x].key = Rest(@), !.n[x].val = Rest(@)]

\* The slot of k goes to position p of x or, when x has just been split, of the
\* half it falls into.
Put(t, x, p, k, v, level) ==
    [BugIf(t, Slots(t, x) >= Volume(level)) EXCEPT !.n[x] = InsertSlot(@, p, k, v)]

RECURSIVE InsertLevel(_, _, _, _, _)
InsertLevel(t0, k, v, level, found) ==
    LET grows == t0.height < level
        t1 == IF grows THEN Grow(t0) ELSE t0
        at == IF found = NULL \/ grows THEN find_level(t1, k, level)
              ELSE [t |-> t1, cb |-> found, parent |-> NULL]
        x == at.cb
        p == getpos(at.t, x, k)
        nr == Slots(at.t, x)
        half == nr \div 2
        t == BugIf(at.t, geteqv(at.t, x, k) < nr)
        y == Fresh(t)
        up == InsertLevel([t EXCEPT !.n[y] = NewNode], t.n[x].key[half], y,
                          level + 1, at.parent)
        two == SplitToEmpty(IF level = 1 THEN LinkLeft(up, x, y) ELSE up, x, y)
    IN IF nr < Volume(level) THEN Put(t, x, p, k, v, level)
       ELSE IF p <= half - 1 THEN Put(two, y, p, k, v, level)
                             ELSE Put(two, x, p - half, k, v, level)

-----------------------------------------------------------------------------
(***************************************************************************)
(* btree_blue_remove_level().                                              *)
(***************************************************************************)
\* btree_blue_shrink(): the only child of the root becomes the root.
Shrink(t) ==
    IF t.height <= 1 THEN t
    ELSE [t EXCEPT !.n[t.root] = FreeNode, !.root = t.n[t.root].val[1],
                   !.height = @ - 1]

\* The neighbours of a leaf no longer lead to it.
Unlink(t, x) ==
    LET l == t.n[x].prev
        r == t.n[x].next
        left == IF l = NULL THEN t ELSE [t EXCEPT !.n[l].next = r]
    IN IF r = NULL THEN left ELSE [left EXCEPT !.n[r].prev = l]

\* Mutant of Exchanged: the children of the parent stay where they are.
ExchangedNot(t, parent, l, left, right) == t

\* "Exchange left and right child in parent": what is removed from it is the
\* bound of the left one.
Exchanged(t, parent, l, left, right) ==
    [t EXCEPT !.n[parent].val[l + 1] = right, !.n[parent].val[l + 2] = left]

\* A removal that reads the key through a pointer into the slots it shifts
\* sees the key after it from then on: k, then after.
RECURSIVE RemoveLevel(_, _, _, _)

\* merge(): the left one of the children at l and l + 1 of parent gets all that
\* the right one has, which is freed.
Merge(t0, level, left, right, parent, l) ==
    LET t1 == [t0 EXCEPT !.n[left].key = @ \o t0.n[right].key,
                         !.n[left].val = @ \o t0.n[right].val]
        t2 == Exchanged(IF level = 1 THEN Unlink(t1, right) ELSE t1,
                        parent, l, left, right)
        t3 == RemoveLevel(t2, t2.n[parent].key[l + 1], t2.n[parent].key[l + 2],
                          level + 1)
    IN [t3 EXCEPT !.n[right] = FreeNode]

\* The last slot of x went: its slot in the parent follows, and x is freed.
DropEmpty(t0, k, level, x) ==
    LET t == RemoveLevel(t0, k, k, level + 1)
    IN [IF level = 1 THEN Unlink(t, x) ELSE t EXCEPT !.n[x] = FreeNode]

Rebalance(t, k, level, x, parent) ==
    LET i == getpos(t, parent, k)
        Kid(j) == t.n[parent].val[j + 1]
        Fits(j) == Slots(t, x) + Slots(t, Kid(j)) <= Volume(level)
    IN IF Slots(t, x) = 0 THEN DropEmpty(t, k, level, x)
       ELSE IF i = Slots(t, parent) \/ Kid(i) # x THEN BugIf(t, TRUE)
       ELSE IF i > 0 /\ Fits(i - 1) THEN Merge(t, level, Kid(i - 1), x, parent, i - 1)
       ELSE IF i + 1 < Slots(t, parent) /\ Fits(i + 1)
            THEN Merge(t, level, x, Kid(i + 1), parent, i)
       ELSE t

\* Mutant of IsLow: only empty nodes are looked at.
IsLowOff(t, x, level) == Slots(t, x) < 1

IsLow(t, x, level) == Slots(t, x) < Volume(level) \div 2 - 2

\* A leaf where no key is as small as k is left alone; elsewhere the slot at the
\* position of k is removed, whatever its key.
RemoveLevel(t0, k, after, level) ==
    LET at == find_level(t0, k, level)
        x == at.cb
        p == getpos(at.t, x, k)
        t == [at.t EXCEPT !.n[x] = RemoveSlot(@, p)]
    IN IF level > t0.height THEN [t0 EXCEPT !.root = NULL, !.height = 0]
       ELSE IF level = 1 /\ p = Slots(at.t, x) THEN at.t
       ELSE IF ~IsLow(t, x, level) THEN t
       ELSE IF level < t.height THEN Rebalance(t, after, level, x, at.parent)
       ELSE IF Slots(t, x) = 1 THEN Shrink(t)
       ELSE t

-----------------------------------------------------------------------------
(***************************************************************************)
(* What only reads the tree.  NULL stands for no node and no key.          *)
(***************************************************************************)
\* btree_blue_lookup_node(), in the levels under x.
RECURSIVE LeafFor(_, _, _, _)
LeafFor(t, k, x, levels) ==
    LET p == getpos(t, x, k)
    IN IF levels = 0 THEN x
       ELSE IF p = Slots(t, x) THEN NULL
       ELSE LeafFor(t, k, t.n[x].val[p + 1], levels - 1)

lookup_node(t, k) ==
    IF t.height = 0 THEN NULL ELSE LeafFor(t, k, t.root, t.height - 1)

\* btree_blue_lookup(): whether there is a value.
IsFound(t, k) ==
    LET x == lookup_node(t, k) IN x # NULL /\ geteqv(t, x, k) < Slots(t, x)

\* btree_blue_get_prev(), btree_blue_get_next(): the key they move to.
GetPrev(t, k) ==
    LET x == lookup_node(t, k)
        i == geteqv(t, x, k)
    IN IF ~IsFound(t, k) THEN NULL
       ELSE IF i + 1 < Slots(t, x) THEN t.n[x].key[i + 2]
       ELSE IF t.n[x].next # NULL THEN t.n[t.n[x].next].key[1]
       ELSE NULL

GetNext(t, k) ==
    LET x == lookup_node(t, k)
        i == geteqv(t, x, k)
    IN IF ~IsFound(t, k) THEN NULL
       ELSE IF i > 0 THEN t.n[x].key[i]
       ELSE IF t.n[x].prev # NULL THEN Last(t.n[t.n[x].prev].key)
       ELSE NULL

\* btree_blue_first(), btree_blue_last(): the key they find in a tree with keys.
RECURSIVE LeastUnder(_, _, _)
LeastUnder(t, x, levels) ==
    IF levels = 0 THEN Last(t.n[x].key) ELSE LeastUnder(t, Last(t.n[x].val), levels - 1)

RECURSIVE GreatestUnder(_, _, _)
GreatestUnder(t, x, levels) ==
    IF levels = 0 THEN Head(t.n[x].key)
                  ELSE GreatestUnder(t, Head(t.n[x].val), levels - 1)

FirstKey(t) == LeastUnder(t, t.root, t.height - 1)
LastKey(t) == GreatestUnder(t, t.root, t.height - 1)

-----------------------------------------------------------------------------
(***************************************************************************)
(* The calls.                                                              *)
(***************************************************************************)
KeysHeld == UNION {Range(node[x].key) : x \in {y \in Nodes : node[y].val = <<>>}}

\* Callers insert a key that is not there, a second one being a BUG_ON, and
\* remove one that is.
Call(c, k) ==
    /\ op.pc = "idle"
    /\ c = "insert" <=> k \notin KeysHeld
    /\ op' = [Idle EXCEPT !.pc = c, !.call = c, !.key = k]
    /\ UNCHANGED <<node, root>>

Becomes(t) ==
    /\ node' = t.n
    /\ root' = [node |-> t.root, height |-> t.height]
    /\ op' = [op EXCEPT !.pc = "done", !.ret = "yes", !.bug = t.bug]

InsertKey ==
    /\ op.pc = "insert"
    /\ Becomes(InsertLevel(Tree, op.key, NULL, 1, NULL))

RemoveKey ==
    /\ op.pc = "remove"
    /\ Becomes(RemoveLevel(Tree, op.key, op.key, 1))

Return ==
    /\ op.pc = "done"
    /\ op' = Idle
    /\ UNCHANGED <<node, root>>

-----------------------------------------------------------------------------
Step == InsertKey \/ RemoveKey \/ Return

Next ==
    \/ \E c \in {"insert", "remove"}, k \in Keys : Call(c, k)
    \/ Step

Spec == Init /\ [][Next]_vars
=============================================================================
