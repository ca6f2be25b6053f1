--------------------------------- MODULE Bst ---------------------------------
(***************************************************************************)
(* The binary search tree of libtree/bstree/bstree.c: bst_insert(),        *)
(* bst_remove() and bst_lookup(), one loop iteration per step, by callers  *)
(* that run one call at a time.  A node is named by its key; link[2] of    *)
(* the code is up.                                                         *)
(***************************************************************************)
EXTENDS Naturals

CONSTANT Keys           \* the keys of the nodes callers may insert

NULL == 0

KeysOK == Keys \subseteq Nat \ {NULL}

VARIABLES node,     \* the nodes
          root,     \* the root
          op        \* the call in progress: its locals, and where it is

vars == <<node, root, op>>

Ref == Keys \union {NULL}
Side == {0, 1}

\* alloc_bst_node(): a node is all zero until it is linked.
NewNode == [link |-> [s \in Side |-> NULL], up |-> NULL]

\* cur is head of the insert and root of the lookup, victim and s are those of
\* the removal.
Idle == [pc |-> "idle", call |-> "none", key |-> NULL, cur |-> NULL,
         victim |-> NULL, s |-> NULL, ret |-> "none"]

Init ==
    /\ node = [k \in Keys |-> NewNode]
    /\ root = NULL
    /\ op = Idle

Call(c) ==
    /\ op.pc = "idle"
    /\ \E k \in Keys :
          op' = [Idle EXCEPT !.pc = IF c = "insert" THEN c ELSE "find",
                             !.call = c, !.key = k, !.cur = root]
    /\ UNCHANGED <<node, root>>

Done(ret) == op' = [op EXCEPT !.pc = "done", !.ret = ret]

\* The child on the way to the key.
Toward(x) == node[x].link[IF op.key > x THEN 1 ELSE 0]

-----------------------------------------------------------------------------
(* bst_insert().                                                           *)
InsertFirst ==
    /\ op.pc = "insert" /\ root = NULL
    /\ root' = op.key
    /\ node' = [node EXCEPT ![op.key] = NewNode]
    /\ Done("yes")

InsertDescend ==
    /\ op.pc = "insert" /\ op.cur \notin {NULL, op.key}
    /\ Toward(op.cur) # NULL
    /\ op' = [op EXCEPT !.cur = Toward(op.cur)]
    /\ UNCHANGED <<node, root>>

InsertLink ==
    /\ op.pc = "insert" /\ op.cur \notin {NULL, op.key}
    /\ Toward(op.cur) = NULL
    /\ node' = [node EXCEPT
                  ![op.cur].link[IF op.key > op.cur THEN 1 ELSE 0] = op.key,
                  ![op.key].up = op.cur]
    /\ Done("yes")
    /\ UNCHANGED root

InsertRefuse ==
    /\ op.pc = "insert" /\ op.cur = op.key
    /\ Done("no")
    /\ UNCHANGED <<node, root>>

-----------------------------------------------------------------------------
(* bst_lookup(), alone and at the beginning of bst_remove().               *)
FindDescend ==
    /\ op.pc = "find" /\ op.cur \notin {NULL, op.key}
    /\ op' = [op EXCEPT !.cur = Toward(op.cur)]
    /\ UNCHANGED <<node, root>>

FindAbsent ==
    /\ op.pc = "find" /\ op.cur = NULL
    /\ Done("no")
    /\ UNCHANGED <<node, root>>

Find ==
    /\ op.pc = "find" /\ op.cur = op.key
    /\ IF op.call = "lookup" THEN Done("yes")
       ELSE op' = [op EXCEPT !.victim = op.cur, !.s = node[op.cur].link[1],
                     !.pc = IF NULL \in {node[op.cur].link[x] : x \in Side}
                            THEN "unlink" ELSE "smallest"]
    /\ UNCHANGED <<node, root>>

-----------------------------------------------------------------------------
(***************************************************************************)
(* bst_remove(): the surgery.                                              *)
(***************************************************************************)
SetUp(h, x, p) == IF x = NULL THEN h ELSE [h EXCEPT ![x].up = p]

\* Mutant of Replace: the links are told apart by the wrong one.
ReplaceOther(h, p, x, new) ==
    IF p = NULL THEN h
    ELSE [h EXCEPT ![p].link[IF h[p].link[0] = x THEN 1 ELSE 0] = new]

\* The parent p of x, if there is one, gets new in its place.
Replace(h, p, x, new) ==
    IF p = NULL THEN h
    ELSE [h EXCEPT ![p].link[IF h[p].link[0] = x THEN 0 ELSE 1] = new]

\* A victim with at most one child: the child, or nothing, takes its place.
\* The node is freed.
Unlink ==
    LET v == node[op.victim]
        kid == IF v.link[0] = NULL THEN v.link[1] ELSE v.link[0]
        h == SetUp(Replace(node, v.up, op.victim, kid), kid, v.up)
    IN /\ op.pc = "unlink"
       /\ node' = [h EXCEPT ![op.victim] = NewNode]
       /\ root' = IF v.up = NULL THEN kid ELSE root
       /\ Done("yes")

\* Mutant of Smallest: s stops one short of the smallest.
SmallestShort ==
    /\ op.pc = "smallest"
    /\ op' = IF node[op.s].link[0] # NULL /\ node[node[op.s].link[0]].link[0] # NULL
             THEN [op EXCEPT !.s = node[op.s].link[0]]
             ELSE [op EXCEPT !.pc = "swap"]
    /\ UNCHANGED <<node, root>>

\* s goes down to the smallest node of the right sub-tree.
Smallest ==
    /\ op.pc = "smallest"
    /\ op' = IF node[op.s].link[0] # NULL
             THEN [op EXCEPT !.s = node[op.s].link[0]]
             ELSE [op EXCEPT !.pc = "swap"]
    /\ UNCHANGED <<node, root>>

\* Which link of its parent leads to s: "right child", else left.
SideOfS(h) == IF h[h[op.s].up].link[1] = op.s THEN 1 ELSE 0

\* Mutant of Detach: the child of s keeps its parent.
DetachNoUp(h) ==
    LET p == h[op.s].up
        right == h[op.s].link[1]
    IN IF right # NULL THEN [h EXCEPT ![p].link[SideOfS(h)] = right]
       ELSE IF h[p].up # NULL THEN [h EXCEPT ![p].link[SideOfS(h)] = NULL]
                              ELSE h

\* s leaves its place to its right child.  Without one, the link to s is only
\* cleared when the parent of s is not the root.
Detach(h) ==
    LET p == h[op.s].up
        right == h[op.s].link[1]
    IN IF right # NULL
       THEN SetUp([h EXCEPT ![p].link[SideOfS(h)] = right], right, p)
       ELSE IF h[p].up # NULL THEN [h EXCEPT ![p].link[SideOfS(h)] = NULL]
                              ELSE h

\* s gets the links of the victim, except one that leads to s itself.
Attach(h) ==
    LET v == h[op.victim]
        right == IF v.link[1] # op.s THEN v.link[1] ELSE h[op.s].link[1]
    IN [h EXCEPT ![op.s] = [link |-> [x \in Side |-> IF x = 0 THEN v.link[0]
                                                             ELSE right],
                            up |-> v.up]]

\* A victim with two children: s, the next greater key, takes its place.
Swap ==
    LET h == Attach(Detach(node))
        s == h[op.s]
        linked == SetUp(SetUp(h, s.link[0], op.s), s.link[1], op.s)
    IN /\ op.pc = "swap"
       /\ node' = [Replace(linked, s.up, op.victim, op.s)
                     EXCEPT ![op.victim] = NewNode]
       /\ root' = IF s.up = NULL THEN op.s ELSE root
       /\ Done("yes")

Return ==
    /\ op.pc = "done"
    /\ op' = Idle
    /\ UNCHANGED <<node, root>>

-----------------------------------------------------------------------------
Step ==
    \/ InsertFirst \/ InsertDescend \/ InsertLink \/ InsertRefuse
    \/ FindDescend \/ FindAbsent \/ Find
    \/ Unlink \/ Smallest \/ Swap
    \/ Return

Next ==
    \/ \E c \in {"insert", "remove", "lookup"} : Call(c)
    \/ Step

\* A call that has started runs to its end.
Spec == Init /\ [][Next]_vars /\ WF_vars(Step)
=============================================================================
