-------------------------------- MODULE BPlus --------------------------------
(***************************************************************************)
(* The B+tree of libtree/b+tree/b+tree.c: bpt_po_insert(), bpt_po_delete() *)
(* and bpt_lookup(), one loop iteration per step, by callers that run one  *)
(* call at a time.  A record is its key.  The arrays of a node are         *)
(* sequences of what is in use, so entries is the length of slot, and subl *)
(* is empty in a leaf; positions are those of the code, from 0.            *)
(***************************************************************************)
EXTENDS Integers, FiniteSets, SequencesExt, FiniteSetsExt

CONSTANTS Keys,     \* the keys of the records callers may insert
          Nodes,    \* addresses of struct bpn, a set of numbers
          ORDER     \* BPT_ORDER: most children a node may have

NULL == 0

SizesOK == Keys \subseteq Nat \ {NULL} /\ Nodes \subseteq Nat \ {NULL}
           /\ ORDER \in Nat /\ ORDER >= 4

MAX_ENTRIES == ORDER - 1
MIN_ENTRIES_EXTER == MAX_ENTRIES \div 2
MIN_ENTRIES_INTER == (ORDER \div 2) - 1

VARIABLES node,     \* the nodes
          root,     \* struct bpt_root: the root node, and the list of leaves
          op        \* the call in progress: its locals, and where it is

vars == <<node, root, op>>

\* Of info.parent only whether it is NULL is ever looked at.
bpn_calloc_init(type) ==
    [type |-> type, parent |-> FALSE, slot |-> <<>>, subl |-> <<>>]
FreeNode == bpn_calloc_init("free")

Idle == [pc |-> "idle", call |-> "none", key |-> NULL, cur |-> NULL,
         ret |-> "none"]

\* The node calloc() hands out; Nodes bounds how many there can be.
FreeNodes(h) == {x \in Nodes : h[x].type = "free"}
Fresh(h) == Min(FreeNodes(h))

\* bpt_root_init().
Init ==
    /\ root = [node |-> Min(Nodes), list |-> <<Min(Nodes)>>]
    /\ node = [x \in Nodes |-> IF x = root.node THEN bpn_calloc_init("exter")
                                                ELSE FreeNode]
    /\ op = Idle

Call(c, k) ==
    /\ op.pc = "idle"
    /\ op' = [Idle EXCEPT !.pc = IF c = "insert" THEN "root" ELSE c,
                          !.call = c, !.key = k, !.cur = root.node]
    /\ UNCHANGED <<node, root>>

Done(ret) == op' = [op EXCEPT !.pc = "done", !.cur = NULL, !.ret = ret]

IsInternal(x) == node[x].type = "inter"
Entries(x) == Len(node[x].slot)
MinEntries(x) == IF IsInternal(x) THEN MIN_ENTRIES_INTER ELSE MIN_ENTRIES_EXTER
IsFull(x) == Entries(x) = MAX_ENTRIES
IsGtMin(x) == Entries(x) > MinEntries(x)

\* Where bpn_bin_search() stops: past the smaller keys.  Its condition code is
\* POS_CC_EQ when it stops at the key.
Pos(x, k) == Cardinality({i \in DOMAIN node[x].slot : node[x].slot[i] < k})
IsEQ(x, k) == Pos(x, k) < Entries(x) /\ node[x].slot[Pos(x, k) + 1] = k

\* "follow right direction" at a separator equal to the key.
ChildPos == Pos(op.cur, op.key) + (IF IsEQ(op.cur, op.key) THEN 1 ELSE 0)
Child == node[op.cur].subl[ChildPos + 1]

-----------------------------------------------------------------------------
(***************************************************************************)
(* bpt_po_insert().                                                        *)
(***************************************************************************)
\* The first n elements of an array, and those after them.
Lower(a, n) == SubSeq(a, 1, Min({n, Len(a)}))
Upper(a, n) == SubSeq(a, n + 1, Len(a))

\* What stays in the left node of a split.
LeftEntries == MAX_ENTRIES - ((MAX_ENTRIES \div 2) + (MAX_ENTRIES % 2))

\* bpn_split(): the right half of the full node x, child i of p, becomes a new
\* node.  The separator is moved out of an internal node and copied from a leaf.
Split(h, x, p, i) ==
    LET n == h[x]
        r == Fresh(h)
        moved == IF n.type = "inter" THEN 1 ELSE 0
    IN [h EXCEPT
          ![x] = [n EXCEPT !.slot = Lower(@, LeftEntries), !.parent = TRUE,
                           !.subl = Lower(@, LeftEntries + 1)],
          ![r] = [n EXCEPT !.slot = Upper(@, LeftEntries + moved), !.parent = TRUE,
                           !.subl = Upper(@, LeftEntries + 1)],
          ![p].slot = InsertAt(@, i + 1, n.slot[LeftEntries + 1]),
          ![p].subl = InsertAt(@, i + 2, r)]

\* Mutant of Listed: list_add() before the left node.
ListedBefore(h, x) ==
    LET at == CHOOSE i \in DOMAIN root.list : root.list[i] = x
    IN IF h[x].type = "inter" THEN root.list
       ELSE InsertAt(root.list, at, Fresh(h))

\* The list of leaves after the split of x: list_add() behind the left node.
Listed(h, x) ==
    LET at == CHOOSE i \in DOMAIN root.list : root.list[i] = x
    IN IF h[x].type = "inter" THEN root.list
       ELSE InsertAt(root.list, at + 1, Fresh(h))

\* bpn_split_root(): the old root becomes the left kid of a new one.
SplitRoot ==
    LET p == Fresh(node)
        grown == [node EXCEPT ![p] = [bpn_calloc_init("inter") EXCEPT
                                        !.subl = <<root.node>>]]
    IN /\ op.pc = "root" /\ IsFull(root.node)
       /\ node' = Split(grown, root.node, p, 0)
       /\ root' = [node |-> p, list |-> Listed(grown, root.node)]
       /\ op' = [op EXCEPT !.pc = "insert", !.cur = p]

KeepRoot ==
    /\ op.pc = "root" /\ ~IsFull(root.node)
    /\ op' = [op EXCEPT !.pc = "insert"]
    /\ UNCHANGED <<node, root>>

InsertDown ==
    /\ op.pc = "insert" /\ IsInternal(op.cur)
    /\ ~IsFull(Child)
    /\ op' = [op EXCEPT !.cur = Child]
    /\ UNCHANGED <<node, root>>

\* Mutant of InsertSplit: a key equal to the separator stays left of it.
InsertSplitEqual ==
    LET h == Split(node, Child, op.cur, ChildPos)
        pos == Pos(op.cur, op.key) + 1
    IN /\ op.pc = "insert" /\ IsInternal(op.cur)
       /\ IsFull(Child)
       /\ node' = h
       /\ root' = [root EXCEPT !.list = Listed(node, Child)]
       /\ op' = [op EXCEPT !.cur = IF op.key > h[op.cur].slot[pos]
                                   THEN h[op.cur].subl[pos + 1] ELSE Child]

\* A full child is split on the way down, and the key may be right of the
\* separator that came up.  It is looked for at the position of the search, which
\* right of an equal separator is that one.
InsertSplit ==
    LET h == Split(node, Child, op.cur, ChildPos)
        pos == Pos(op.cur, op.key) + 1
    IN /\ op.pc = "insert" /\ IsInternal(op.cur)
       /\ IsFull(Child)
       /\ node' = h
       /\ root' = [root EXCEPT !.list = Listed(node, Child)]
       /\ op' = [op EXCEPT !.cur = IF op.key >= h[op.cur].slot[pos]
                                   THEN h[op.cur].subl[pos + 1] ELSE Child]

\* bpn_insert_to_leaf().
InsertLeaf ==
    /\ op.pc = "insert" /\ ~IsInternal(op.cur) /\ ~IsEQ(op.cur, op.key)
    /\ node' = [node EXCEPT ![op.cur].slot =
                               InsertAt(@, Pos(op.cur, op.key) + 1, op.key)]
    /\ Done("yes")
    /\ UNCHANGED root

InsertRefuse ==
    /\ op.pc = "insert" /\ ~IsInternal(op.cur) /\ IsEQ(op.cur, op.key)
    /\ Done("no")
    /\ UNCHANGED <<node, root>>

-----------------------------------------------------------------------------
(***************************************************************************)
(* bpt_po_delete(): a child at its minimum gets an entry of a sibling, or  *)
(* is merged with it, before it is entered.                                *)
(***************************************************************************)
\* Past the last separator the siblings are those around it.
SepPos(p, pos) == IF pos < Entries(p) THEN pos ELSE pos - 1

bpn_get_left(p, pos) == node[p].subl[SepPos(p, pos) + 1]
bpn_get_right(p, pos) == node[p].subl[SepPos(p, pos) + 2]

\* bpn_try_shift_left() when it succeeds: the first entry of r goes to l, through
\* the parent and with its child when they are internal.
ShiftLeft(p, l, r, s) ==
    IF IsInternal(l)
    THEN [node EXCEPT ![l].slot = Append(@, node[p].slot[s]),
                      ![l].subl = Append(@, Head(node[r].subl)),
                      ![p].slot[s] = Head(node[r].slot),
                      ![r].slot = Tail(@), ![r].subl = Tail(@)]
    ELSE [node EXCEPT ![l].slot = Append(@, Head(node[r].slot)),
                      ![p].slot[s] = node[r].slot[2],
                      ![r].slot = Tail(@)]

\* bpn_try_shift_right() when it succeeds: the last entry of l goes to r.
ShiftRight(p, l, r, s) ==
    IF IsInternal(l)
    THEN [node EXCEPT ![r].slot = <<node[p].slot[s]>> \o @,
                      ![r].subl = <<Last(node[l].subl)>> \o @,
                      ![p].slot[s] = Last(node[l].slot),
                      ![l].slot = Front(@), ![l].subl = Front(@)]
    ELSE [node EXCEPT ![r].slot = <<Last(node[l].slot)>> \o @,
                      ![p].slot[s] = Last(node[l].slot),
                      ![l].slot = Front(@)]

\* Mutant of Merge: the separator does not come down.
MergeNoSep(p, l, r, s) ==
    [node EXCEPT ![l].slot = @ \o node[r].slot,
                 ![l].subl = @ \o node[r].subl,
                 ![p].slot = RemoveAt(@, s), ![p].subl = RemoveAt(@, s + 1),
                 ![r] = FreeNode]

\* bpn_merge_siblings(): l gets what r has, which is freed, and between them the
\* separator when they are internal.
Merge(p, l, r, s) ==
    LET sep == IF IsInternal(l) THEN <<node[p].slot[s]>> ELSE <<>>
    IN [node EXCEPT ![l].slot = @ \o sep \o node[r].slot,
                    ![l].subl = @ \o node[r].subl,
                    ![p].slot = RemoveAt(@, s), ![p].subl = RemoveAt(@, s + 1),
                    ![r] = FreeNode]

\* The siblings at the child a removal goes to, and their separator.
PosHere == Pos(op.cur, op.key)
LeftHere == bpn_get_left(op.cur, PosHere)
RightHere == bpn_get_right(op.cur, PosHere)
SepHere == SepPos(op.cur, PosHere) + 1

CanShift ==
    IF LeftHere = Child THEN ~IsFull(LeftHere) /\ IsGtMin(RightHere)
                        ELSE ~IsFull(RightHere) /\ IsGtMin(LeftHere)

DeleteDown ==
    /\ op.pc = "remove" /\ IsInternal(op.cur)
    /\ IsGtMin(Child)
    /\ op' = [op EXCEPT !.cur = Child]
    /\ UNCHANGED <<node, root>>

DeleteShift ==
    /\ op.pc = "remove" /\ IsInternal(op.cur)
    /\ ~IsGtMin(Child) /\ CanShift
    /\ node' = IF LeftHere = Child
               THEN ShiftLeft(op.cur, LeftHere, RightHere, SepHere)
               ELSE ShiftRight(op.cur, LeftHere, RightHere, SepHere)
    /\ op' = [op EXCEPT !.cur = Child]
    /\ UNCHANGED root

Merging ==
    op.pc = "remove" /\ IsInternal(op.cur) /\ ~IsGtMin(Child) /\ ~CanShift

\* The parent goes when it is the root and has no separator left.
DeleteMerge ==
    LET h == Merge(op.cur, LeftHere, RightHere, SepHere)
        drop == h[op.cur].slot = <<>> /\ op.cur = root.node
    IN /\ Merging
       /\ node' = IF drop THEN [h EXCEPT ![op.cur] = FreeNode,
                                         ![LeftHere].parent = FALSE]
                          ELSE h
       /\ root' = [node |-> IF drop THEN LeftHere ELSE root.node,
                   list |-> SelectSeq(root.list, LAMBDA x : x # RightHere)]
       /\ op' = [op EXCEPT !.cur = LeftHere]

\* bpn_remove_from_leaf().
DeleteLeaf ==
    /\ op.pc = "remove" /\ ~IsInternal(op.cur) /\ IsEQ(op.cur, op.key)
    /\ node' = [node EXCEPT ![op.cur].slot = RemoveAt(@, PosHere + 1)]
    /\ Done("yes")
    /\ UNCHANGED root

DeleteAbsent ==
    /\ op.pc = "remove" /\ ~IsInternal(op.cur) /\ ~IsEQ(op.cur, op.key)
    /\ Done("no")
    /\ UNCHANGED <<node, root>>

-----------------------------------------------------------------------------
(* bpt_lookup(), bpt_find_leaf().                                          *)
LookupDown ==
    /\ op.pc = "lookup" /\ IsInternal(op.cur)
    /\ op' = [op EXCEPT !.cur = Child]
    /\ UNCHANGED <<node, root>>

LookupEnd ==
    /\ op.pc = "lookup" /\ ~IsInternal(op.cur)
    /\ Done(IF IsEQ(op.cur, op.key) THEN "yes" ELSE "no")
    /\ UNCHANGED <<node, root>>

Return ==
    /\ op.pc = "done"
    /\ op' = Idle
    /\ UNCHANGED <<node, root>>

-----------------------------------------------------------------------------
Step ==
    \/ SplitRoot \/ KeepRoot
    \/ InsertDown \/ InsertSplit \/ InsertLeaf \/ InsertRefuse
    \/ DeleteDown \/ DeleteShift \/ DeleteMerge \/ DeleteLeaf \/ DeleteAbsent
    \/ LookupDown \/ LookupEnd
    \/ Return

Next ==
    \/ \E c \in {"insert", "remove", "lookup"}, k \in Keys : Call(c, k)
    \/ Step

\* A call that has started runs to its end.
Spec == Init /\ [][Next]_vars /\ WF_vars(Step)
=============================================================================
