-------------------------------- MODULE Splay --------------------------------
(***************************************************************************)
(* The splay tree of libtree/splaytree/splay.c, built with SPLAY_AUGMENT:  *)
(* splay_insert(), splay_remove_init(), and top_down_splay() called as a   *)
(* lookup, one loop iteration per step, by callers that run one call at a  *)
(* time.  A node is named by its key.  Links are numbered by side: 0 is    *)
(* left, 1 is right.                                                       *)
(***************************************************************************)
EXTENDS TreeKeys, FiniteSetsExt

HEAD == -1          \* head, on the stack of top_down_splay()

VARIABLES node,     \* the nodes, head among them
          root,     \* the root the caller has
          op        \* the call in progress: its locals, and where it is

vars == <<node, root, op>>

Side == {0, 1}

\* SP_INIT_NODE() of a node that is in no tree.
NewNode == [link |-> [s \in Side |-> NULL], up |-> NULL, max |-> 0]

\* cur is root of top_down_splay().  tmax[1] is ltree_max, the greatest node of
\* the tree of smaller keys, and tmax[0] is rtree_max, the smallest of the tree
\* of greater ones; the prev of each is itself, or NULL while it is head.
Idle == [pc |-> "idle", call |-> "none", key |-> NULL, cur |-> NULL,
         tmax |-> [s \in Side |-> HEAD], victim |-> NULL, ret |-> "none"]

Init ==
    /\ node = [k \in Keys \union {HEAD} |-> NewNode]
    /\ root = NULL
    /\ op = Idle

\* top_down_splay() is not called on an empty tree.
Call(c) ==
    /\ op.pc = "idle"
    /\ root = NULL => c # "lookup"
    /\ \E k \in Keys :
          op' = [Idle EXCEPT !.pc = "start", !.call = c, !.key = k]
    /\ UNCHANGED <<node, root>>

\* The call returns r, which the caller takes for the new root.
Done(r, ret) ==
    /\ root' = r
    /\ op' = [op EXCEPT !.pc = "done", !.cur = NULL, !.victim = NULL,
                        !.tmax = Idle.tmax, !.ret = ret]

YesNo(b) == IF b THEN "yes" ELSE "no"

-----------------------------------------------------------------------------
(***************************************************************************)
(* max_size.                                                               *)
(***************************************************************************)
MaxOf(h, x) == IF x = NULL THEN 0 ELSE h[x].max

compute_subtree_max_size(h, x) ==
    Max({Size[x], MaxOf(h, h[x].link[0]), MaxOf(h, h[x].link[1])})

Refresh(h, x) ==
    IF x = NULL THEN h
                ELSE [h EXCEPT ![x].max = compute_subtree_max_size(h, x)]

set_parent(h, x, p) == IF x = NULL THEN h ELSE [h EXCEPT ![x].up = p]

-----------------------------------------------------------------------------
(***************************************************************************)
(* top_down_splay().                                                       *)
(***************************************************************************)
\* The side of x on which the key is.
Toward(x) == IF op.key < x THEN 0 ELSE 1

\* right_pivot() for s = 0, left_pivot() for s = 1: the child c of x on side s
\* goes up, x goes down, and their max_size follows.  change_child() takes the
\* link on the other side when the first is not to x.
Pivot(h, x, s) ==
    LET c == h[x].link[s]
        p == h[x].up
        inner == h[c].link[1 - s]
        above == IF p = NULL THEN h
                 ELSE [h EXCEPT ![p].link[IF h[p].link[0] = x THEN 0 ELSE 1] = c]
        turned == [above EXCEPT ![c].up = p, ![x].link[s] = inner, ![x].up = c,
                                ![c].link[1 - s] = x, ![c].max = h[x].max]
    IN Refresh(set_parent(turned, inner, x), x)

\* One more node on the way, on the same side.
IsZigZig ==
    LET c == node[op.cur].link[Toward(op.cur)]
    IN op.key # c /\ Toward(c) = Toward(op.cur)

Turned == IF IsZigZig THEN Pivot(node, op.cur, Toward(op.cur)) ELSE node
Top == IF IsZigZig THEN node[op.cur].link[Toward(op.cur)] ELSE op.cur

OnTheWay ==
    /\ op.pc = "splay" /\ op.key # op.cur
    /\ node[op.cur].link[Toward(op.cur)] # NULL

\* The rotated node has nothing on that side: it becomes the root.
SplayBreak ==
    /\ OnTheWay
    /\ Turned[Top].link[Toward(op.cur)] = NULL
    /\ node' = Turned
    /\ op' = [op EXCEPT !.cur = Top, !.pc = "assemble"]
    /\ UNCHANGED root

\* The node, with its other side, is hung under the tree it belongs to.
SplayDown ==
    LET s == Toward(op.cur)
        t == op.tmax[s]
    IN /\ OnTheWay
       /\ Turned[Top].link[s] # NULL
       /\ node' = [Turned EXCEPT ![t].link[s] = Top,
                                 ![Top].up = IF t = HEAD THEN NULL ELSE t]
       /\ op' = [op EXCEPT !.cur = Turned[Top].link[s], !.tmax[s] = Top]
       /\ UNCHANGED root

\* Mutant of Assemble: the root keeps the parent it had.
AssembleRootUp ==
    LET x == op.cur
        l == op.tmax[1]
        r == op.tmax[0]
        h1 == [node EXCEPT ![l].link[1] = node[x].link[0]]
        h2 == [h1 EXCEPT ![r].link[0] = h1[x].link[1]]
        h3 == [h2 EXCEPT ![x].link = [s \in Side |-> h2[HEAD].link[1 - s]]]
        h4 == set_parent(set_parent(h3, h3[l].link[1], l), h3[r].link[0], r)
        h5 == set_parent(set_parent(h4, h4[x].link[0], x), h4[x].link[1], x)
    IN /\ \/ op.pc = "assemble"
          \/ op.pc = "splay" /\ ~OnTheWay
       /\ node' = [h5 EXCEPT ![HEAD] = NewNode]
       /\ op' = [op EXCEPT !.pc = "climb"]
       /\ UNCHANGED root

\* "Assemble the tree": what is under the root goes to the two trees, and these
\* go under the root.
Assemble ==
    LET x == op.cur
        l == op.tmax[1]
        r == op.tmax[0]
        h1 == [node EXCEPT ![l].link[1] = node[x].link[0]]
        h2 == [h1 EXCEPT ![r].link[0] = h1[x].link[1]]
        h3 == [h2 EXCEPT ![x].link = [s \in Side |-> h2[HEAD].link[1 - s]],
                         ![x].up = NULL]
        h4 == set_parent(set_parent(h3, h3[l].link[1], l), h3[r].link[0], r)
        h5 == set_parent(set_parent(h4, h4[x].link[0], x), h4[x].link[1], x)
    IN /\ \/ op.pc = "assemble"
          \/ op.pc = "splay" /\ ~OnTheWay
       /\ node' = [h5 EXCEPT ![HEAD] = NewNode]
       /\ op' = [op EXCEPT !.pc = "climb"]
       /\ UNCHANGED root

\* Mutant of Climb: each climb ends below the root.
ClimbBelow ==
    LET s == IF op.tmax[1] \in Keys THEN 1 ELSE 0
        x == op.tmax[s]
    IN /\ op.pc = "climb" /\ x \in Keys
       /\ node' = IF x = op.cur THEN node ELSE Refresh(node, x)
       /\ op' = [op EXCEPT !.tmax[s] = node[x].up]
       /\ UNCHANGED root

\* max_size is put right from ltree_max, then from rtree_max, up to the root.
\* When there is no such node it is head, whose size is read, and is nothing to
\* anybody.
Climb ==
    LET s == IF op.tmax[1] \in Keys THEN 1 ELSE 0
        x == op.tmax[s]
    IN /\ op.pc = "climb" /\ x \in Keys
       /\ node' = Refresh(node, x)
       /\ op' = [op EXCEPT !.tmax[s] = node[x].up]
       /\ UNCHANGED root

ClimbEnd ==
    /\ op.pc = "climb" /\ \A s \in Side : op.tmax[s] \notin Keys
    /\ op' = [op EXCEPT !.pc = "splayed", !.tmax = Idle.tmax]
    /\ UNCHANGED <<node, root>>

-----------------------------------------------------------------------------
(* splay_insert(), splay_remove_init() and the lookup of the test.         *)
Start ==
    /\ op.pc = "start" /\ root # NULL
    /\ op' = [op EXCEPT !.pc = "splay", !.cur = root]
    /\ UNCHANGED <<node, root>>

InsertFirst ==
    /\ op.pc = "start" /\ root = NULL /\ op.call = "insert"
    /\ node' = Refresh([node EXCEPT ![op.key] = NewNode], op.key)
    /\ Done(op.key, "yes")

RemoveEmpty ==
    /\ op.pc = "start" /\ root = NULL /\ op.call = "remove"
    /\ Done(NULL, "no")
    /\ UNCHANGED node

\* The new node takes over the side of the old root where its key is.
InsertRoot ==
    LET x == op.cur
        s == Toward(x)
        kid == node[x].link[s]
        h == set_parent([node EXCEPT
                ![op.key].link = [t \in Side |-> IF t = s THEN kid ELSE x],
                ![op.key].up = NULL, ![x].up = op.key, ![x].link[s] = NULL], kid, op.key)
    IN /\ op.pc = "splayed" /\ op.call = "insert" /\ x # op.key
       /\ node' = Refresh(Refresh(Refresh(h, kid), x), op.key)
       /\ Done(op.key, "yes")

InsertRefuse ==
    /\ op.pc = "splayed" /\ op.call = "insert" /\ op.cur = op.key
    /\ Done(op.cur, "no")
    /\ UNCHANGED node

Lookup ==
    /\ op.pc = "splayed" /\ op.call = "lookup"
    /\ Done(op.cur, YesNo(op.cur = op.key))
    /\ UNCHANGED node

RemoveAbsent ==
    /\ op.pc = "splayed" /\ op.call = "remove" /\ op.victim = NULL
    /\ op.cur # op.key
    /\ Done(op.cur, "no")
    /\ UNCHANGED node

\* The caller gets a tree without the node, whose links are cleared.
Leave(h, x) ==
    /\ node' = set_parent(Refresh([h EXCEPT ![op.key] = NewNode], x), x, NULL)
    /\ Done(x, "yes")

RemoveSmallest ==
    /\ op.pc = "splayed" /\ op.call = "remove" /\ op.victim = NULL
    /\ op.cur = op.key /\ node[op.cur].link[0] = NULL
    /\ Leave(node, node[op.cur].link[1])

\* The left sub-tree is splayed for the same key, which is greater than all it
\* has.
RemoveSplay ==
    /\ op.pc = "splayed" /\ op.call = "remove" /\ op.victim = NULL
    /\ op.cur = op.key /\ node[op.cur].link[0] # NULL
    /\ op' = [op EXCEPT !.pc = "splay", !.victim = op.cur,
                        !.cur = node[op.cur].link[0]]
    /\ UNCHANGED <<node, root>>

\* Mutant of RemoveJoin: the parent of the right sub-tree is not set.
RemoveJoinNoUp ==
    LET right == node[op.victim].link[1]
        h == [node EXCEPT ![op.cur].link[1] = right]
    IN /\ op.pc = "splayed" /\ op.victim # NULL
       /\ Leave(h, op.cur)

\* Its root, the greatest, gets the right sub-tree.
RemoveJoin ==
    LET right == node[op.victim].link[1]
        h == [node EXCEPT ![op.cur].link[1] = right]
    IN /\ op.pc = "splayed" /\ op.victim # NULL
       /\ Leave(set_parent(h, right, op.cur), op.cur)

Return ==
    /\ op.pc = "done"
    /\ op' = Idle
    /\ UNCHANGED <<node, root>>

-----------------------------------------------------------------------------
Step ==
    \/ Start \/ SplayBreak \/ SplayDown \/ Assemble \/ Climb \/ ClimbEnd
    \/ InsertFirst \/ InsertRoot \/ InsertRefuse
    \/ Lookup
    \/ RemoveEmpty \/ RemoveAbsent \/ RemoveSmallest \/ RemoveSplay \/ RemoveJoin
    \/ Return

Next ==
    \/ \E c \in {"insert", "remove", "lookup"} : Call(c)
    \/ Step

\* A call that has started runs to its end.
Spec == Init /\ [][Next]_vars /\ WF_vars(Step)
=============================================================================
