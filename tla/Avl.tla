--------------------------------- MODULE Avl ---------------------------------
(***************************************************************************)
(* The AVL tree of libtree/avltree/avl.c: avl_insert() and avl_lookup(),   *)
(* one loop iteration per step, by callers that run one call at a time.    *)
(* A node is named by its key.  Side 0 of a node is its left, side 1 its   *)
(* right; link[2] of the code is up.                                       *)
(***************************************************************************)
EXTENDS Integers

CONSTANT Keys           \* the keys of the nodes callers may insert

NULL == 0

KeysOK == Keys \subseteq Nat \ {NULL}

VARIABLES node,     \* the nodes
          root,     \* the root
          op        \* the call in progress: its locals, and where it is

vars == <<node, root, op>>

Side == {0, 1}

\* avl_alloc(): a node is all zero until it is linked.
NewNode == [link |-> [s \in Side |-> NULL], up |-> NULL, bf |-> 0]

\* cur is r of the descents, from is f of do_fix_balance(), ub the unbalanced
\* node.
Idle == [pc |-> "idle", call |-> "none", key |-> NULL, cur |-> NULL, from |-> NULL,
         ub |-> NULL, ret |-> "none"]

Init ==
    /\ node = [k \in Keys |-> NewNode]
    /\ root = NULL
    /\ op = Idle

-----------------------------------------------------------------------------
(***************************************************************************)
(* avl_insert(), do_simple_insert().                                       *)
(***************************************************************************)
Call(pc, k) ==
    /\ op.pc = "idle"
    /\ op' = [Idle EXCEPT !.pc = pc, !.call = pc, !.key = k, !.cur = root]
    /\ UNCHANGED <<node, root>>

\* The side of node x a key is on.
SideOf(k, x) == IF k > x THEN 1 ELSE 0

Toward(x) == node[x].link[SideOf(op.key, x)]

InsertFirst ==
    /\ op.pc = "insert" /\ root = NULL
    /\ root' = op.key
    /\ op' = [op EXCEPT !.pc = "done", !.ret = "yes"]
    /\ UNCHANGED node

\* Mutant of InsertDescend: no trace back is kept.
InsertDescendNoTrace ==
    /\ op.pc = "insert" /\ op.cur # NULL
    /\ op.key # op.cur
    /\ Toward(op.cur) # NULL
    /\ op' = [op EXCEPT !.cur = Toward(op.cur)]
    /\ UNCHANGED <<node, root>>

\* "keep trace back": the descent sets the parent of every node it enters.
InsertDescend ==
    /\ op.pc = "insert" /\ op.cur # NULL
    /\ op.key # op.cur
    /\ Toward(op.cur) # NULL
    /\ node' = [node EXCEPT ![Toward(op.cur)].up = op.cur]
    /\ op' = [op EXCEPT !.cur = Toward(op.cur)]
    /\ UNCHANGED root

InsertLink ==
    /\ op.pc = "insert" /\ op.cur # NULL
    /\ op.key # op.cur
    /\ Toward(op.cur) = NULL
    /\ node' = [node EXCEPT ![op.key].up = op.cur,
                            ![op.cur].link[SideOf(op.key, op.cur)] = op.key]
    /\ op' = [op EXCEPT !.pc = "fix", !.from = op.key, !.ret = "yes"]
    /\ UNCHANGED root

\* The keys are the same.
InsertRefuse ==
    /\ op.pc = "insert" /\ op.key = op.cur
    /\ op' = [op EXCEPT !.pc = "done", !.ret = "no"]
    /\ UNCHANGED <<node, root>>

-----------------------------------------------------------------------------
(***************************************************************************)
(* do_fix_balance(): climbs from the new node while sub-trees get higher.  *)
(***************************************************************************)
Parent == node[op.from].up

Weight(s) == IF s = 1 THEN 1 ELSE -1

\* The balance factor of the parent once the sub-tree at from is counted.
NewBf ==
    node[Parent].bf + Weight(IF node[Parent].link[1] = op.from THEN 1 ELSE 0)

\* Mutant of Climb: it goes on above a parent that has become even.
ClimbOn ==
    /\ op.pc = "fix" /\ op.from # root
    /\ node' = [node EXCEPT ![Parent].bf = NewBf]
    /\ op' = CASE NewBf \in {2, -2} -> [op EXCEPT !.pc = "pivot", !.ub = Parent]
               [] OTHER -> [op EXCEPT !.from = Parent]
    /\ UNCHANGED root

Climb ==
    /\ op.pc = "fix" /\ op.from # root
    /\ node' = [node EXCEPT ![Parent].bf = NewBf]
    /\ op' = CASE NewBf \in {2, -2} -> [op EXCEPT !.pc = "pivot", !.ub = Parent]
               [] NewBf = 0 -> [op EXCEPT !.pc = "done"]
               [] OTHER -> [op EXCEPT !.from = Parent]
    /\ UNCHANGED root

ClimbEnd ==
    /\ op.pc = "fix" /\ op.from = root
    /\ op' = [op EXCEPT !.pc = "done"]
    /\ UNCHANGED <<node, root>>

-----------------------------------------------------------------------------
(***************************************************************************)
(* The rotations at node r, whose sub-tree on side s is too high: nodes    *)
(* before and after.                                                       *)
(***************************************************************************)
SetUp(h, x, p) == IF x = NULL THEN h ELSE [h EXCEPT ![x].up = p]

\* The parent of r, if it has one, gets new in its place.
Replace(h, r, new) ==
    LET p == h[r].up
    IN IF p = NULL THEN h
       ELSE [h EXCEPT ![p].link[IF h[p].link[0] = r THEN 0 ELSE 1] = new]

\* Mutant of Single: the sub-tree between the two nodes is lost.
SingleLoses(h, r, s) ==
    LET c == h[r].link[s]
    IN [Replace(h, r, c) EXCEPT
          ![c] = [link |-> [@.link EXCEPT ![1 - s] = r], up |-> h[r].up, bf |-> 0],
          ![r] = [link |-> [@.link EXCEPT ![s] = NULL], up |-> c, bf |-> 0]]

\* do_left_pivot() for side 1, do_right_pivot() for side 0.
Single(h, r, s) ==
    LET c == h[r].link[s]
        inner == h[c].link[1 - s]
    IN [SetUp(Replace(h, r, c), inner, r) EXCEPT
          ![c] = [link |-> [@.link EXCEPT ![1 - s] = r], up |-> h[r].up, bf |-> 0],
          ![r] = [link |-> [@.link EXCEPT ![s] = inner], up |-> c, bf |-> 0]]

\* Mutant of Double: all three nodes are taken for balanced.
DoubleEven(h, r, s) ==
    LET c == h[r].link[s]
        np == h[c].link[1 - s]
    IN [Replace(h, r, np) EXCEPT
          ![c] = [link |-> [@.link EXCEPT ![1 - s] = h[np].link[s]],
                  up |-> np, bf |-> 0],
          ![r] = [link |-> [@.link EXCEPT ![s] = h[np].link[1 - s]],
                  up |-> np, bf |-> 0],
          ![np] = [link |-> [x \in Side |-> IF x = s THEN c ELSE r],
                   up |-> h[r].up, bf |-> 0]]

\* do_double_left_pivot() for side 1, do_double_right_pivot() for side 0.  The
\* sub-trees of np go to its new children, but keep np for their parent.
Double(h, r, s) ==
    LET c == h[r].link[s]
        np == h[c].link[1 - s]
        lean == h[np].bf * Weight(s)
    IN [Replace(h, r, np) EXCEPT
          ![c] = [link |-> [@.link EXCEPT ![1 - s] = h[np].link[s]],
                  up |-> np, bf |-> IF lean < 0 THEN Weight(s) ELSE 0],
          ![r] = [link |-> [@.link EXCEPT ![s] = h[np].link[1 - s]],
                  up |-> np, bf |-> IF lean > 0 THEN -Weight(s) ELSE 0],
          ![np] = [link |-> [x \in Side |-> IF x = s THEN c ELSE r],
                   up |-> h[r].up, bf |-> 0]]

HeavySide == IF node[op.ub].bf < 0 THEN 0 ELSE 1

Heavy == node[op.ub].link[HeavySide]

\* Mutant of IsDouble: the signs are swapped.
IsDoubleSwapped == node[Heavy].bf * Weight(HeavySide) > 0

IsDouble == node[Heavy].bf * Weight(HeavySide) < 0

\* do_pivot(): the node that comes up is the new root if it has no parent.
Pivot ==
    LET top == IF IsDouble THEN node[Heavy].link[1 - HeavySide] ELSE Heavy
    IN /\ op.pc = "pivot"
       /\ node' = IF IsDouble THEN Double(node, op.ub, HeavySide)
                              ELSE Single(node, op.ub, HeavySide)
       /\ root' = IF node'[top].up # NULL THEN root ELSE top
       /\ op' = [op EXCEPT !.pc = "done"]

-----------------------------------------------------------------------------
(***************************************************************************)
(* avl_lookup().                                                           *)
(***************************************************************************)
LookupDescend ==
    /\ op.pc = "lookup"
    /\ op.cur \notin {NULL, op.key}
    /\ op' = [op EXCEPT !.cur = Toward(op.cur)]
    /\ UNCHANGED <<node, root>>

LookupEnd ==
    /\ op.pc = "lookup"
    /\ op.cur \in {NULL, op.key}
    /\ op' = [op EXCEPT !.pc = "done",
                        !.ret = IF op.cur = NULL THEN "no" ELSE "yes"]
    /\ UNCHANGED <<node, root>>

Return ==
    /\ op.pc = "done"
    /\ op' = Idle
    /\ UNCHANGED <<node, root>>

-----------------------------------------------------------------------------
Step ==
    \/ InsertFirst \/ InsertDescend \/ InsertLink \/ InsertRefuse
    \/ Climb \/ ClimbEnd \/ Pivot
    \/ LookupDescend \/ LookupEnd
    \/ Return

Next ==
    \/ \E pc \in {"insert", "lookup"}, k \in Keys : Call(pc, k)
    \/ Step

\* A call that has started runs to its end.
Spec == Init /\ [][Next]_vars /\ WF_vars(Step)
=============================================================================
