----------------------------- MODULE VmTreeProps -----------------------------
(***************************************************************************)
(* What must hold of the allocator's tree, and what it promises.           *)
(***************************************************************************)
EXTENDS VmTree

InUse == {x \in Nodes : heap[x].type # "free"}
Internals == {x \in InUse : IsInternal(heap[x])}
AtRest == op.pc = "idle"

\* The address of a node, or none.
Ref == Nodes \union {NULL}

Leaf == [type : {"exter"}, parent : Ref, ppos : {0},
         slot : Seq(VA), suba : {<<>>}, subl : {<<>>}]
Inter == [type : {"inter"}, parent : Ref, ppos : 0 .. MAX_CHILDREN - 1,
          slot : Seq(Addr), suba : Seq(Addr), subl : Seq(Nodes)]

IsWellFormed(n) ==
    CASE IsExternal(n) -> n \in Leaf
      [] IsInternal(n) -> n \in Inter
      [] OTHER -> n = FreeNode

PC == {"idle", "lookup", "next", "po_insert", "insert", "again", "left_leaf",
       "right_leaf", "delete", "fixup", "fixsub", "done"}

Ops == [pc : PC, call : {"none", "alloc", "free", "verify"},
        req : Request \union {NoRequest}, from : Addr, pass : {0, 1},
        n : Ref, p : Ref, va : VA, key : Addr,
        then : {"done", "delete", "po_insert", "again"}, ret : Addr \union {-1}]

TypeOK ==
    /\ DOMAIN heap = Nodes
    /\ \A x \in Nodes : IsWellFormed(heap[x])
    /\ root \in Nodes
    /\ list \in Seq(Nodes)
    /\ op \in Ops
    /\ blocks \subseteq VA

-----------------------------------------------------------------------------
(***************************************************************************)
(* The assertions of the code, each where a call reaches it.               *)
(***************************************************************************)
Searching == op.pc \in {"insert", "again", "delete"}

Asserts ==
    LET n == heap[op.n]
        ms == MergeState
    IN
    \* check_bpn_geometry() in bpn_bin_search()
    /\ Searching => GeometryOK(n)
    /\ op.pc = "fixsub" /\ n.parent # NULL => GeometryOK(heap[n.parent])
    \* BUG_ON in validate_insert_req(), bpn_insert_to_leaf()
    /\ op.pc = "insert" /\ IsExternal(n) => MergePos(n) < MAX_ENTRIES
    \* BUG_ON in slot_insert() of bpn_split(): the parent has room
    /\ op.pc = "insert" /\ IsInternal(n) => ~IsFull(n)
    \* BUG_ON(repeat), BUG_ON(out) in try_merge_va()
    /\ op.pc = "again" /\ IsExternal(n) =>
          ms \in {{}, {"LEFT"}, {"RIGHT"}, {"LEFT_LEAF"}, {"RIGHT_LEAF"}}
    \* BUG_ON(!out) in try_merge_va(), BUG_ON(va == NULL) in va_clip()
    /\ op.pc = "delete" /\ IsExternal(n) => IsEQ(n, op.key)
    \* BUG_ON in bpn_merge_siblings()
    /\ op.pc = "delete" /\ IsInternal(n) =>
          \/ IsGtMin(heap[DelChild])
          \/ CanShift(n, DelPos, heap[DelChild], heap[DelSibling])
          \/ Entries(heap[DelChild]) + Entries(heap[DelSibling])
                + (IF IsInternal(heap[DelChild]) THEN 1 ELSE 0) <= MAX_ENTRIES

\* No call, after any history of calls, runs into a BUG_ON() of vm/: the
\* descents split and merge early enough that every node has room for what
\* happens in it, and a second descent finds at most one neighbour.
NoBug == Asserts

-----------------------------------------------------------------------------
(***************************************************************************)
(* The shape of the tree.                                                  *)
(***************************************************************************)
\* The leaves under node x, from left to right.
LeavesOf(h, x) ==
    LET under[y \in Nodes] ==
            IF IsInternal(h[y])
            THEN FlattenSeq([i \in DOMAIN h[y].subl |-> under[h[y].subl[i]]])
            ELSE <<y>>
    IN under[x]

AreasUnder(x) == UNION {Range(heap[y].slot) : y \in Range(LeavesOf(heap, x))}

\* How far a node is below the root, along its parent links.
Depth(x) ==
    LET d[y \in Nodes] == IF heap[y].parent = NULL THEN 0
                                                   ELSE 1 + d[heap[y].parent]
    IN d[x]

\* The path a fix-up climbs is the one that leads down to the node: ppos of
\* each ancestor, or its search for the key, gives the child climbed from.
FixupOnPath ==
    op.pc \in {"fixup", "fixsub"} /\ heap[op.n].parent # NULL =>
        LET p == heap[heap[op.n].parent]
        IN /\ FixChild(p) + 1 \in DOMAIN p.subl
           /\ p.subl[FixChild(p) + 1] = op.n

\* Every node in use but the root has exactly one link from above, from the
\* node its parent link names: no split, shift or merge forgets a child, and
\* no freed node stays in use or reachable.  What a fix-up climbs is the path
\* down to its node, although every descent overwrites ppos.
LinksAgree ==
    /\ heap[root].parent = NULL
    /\ \A x \in InUse \ {root} :
          /\ heap[x].parent \in Internals
          /\ Cardinality({<<y, i>> \in Internals \X (1 .. MAX_CHILDREN) :
                i <= Len(heap[y].subl) /\ heap[y].subl[i] = x}) = 1
          /\ x \in Range(heap[heap[x].parent].subl)
    /\ \A y \in Internals : Range(heap[y].subl) \subseteq InUse
    /\ FixupOnPath

\* All nodes but the root keep at least their minimum of entries and never
\* more than fit, at every step of a call, and all leaves are equally deep.
Balanced ==
    /\ \A x \in InUse :
          /\ Entries(heap[x]) <= MAX_ENTRIES
          /\ x # root => Entries(heap[x]) >= MinEntries(heap[x])
          /\ IsInternal(heap[x]) =>
                /\ Entries(heap[x]) >= 1
                /\ Len(heap[x].subl) = Entries(heap[x]) + 1
                /\ Len(heap[x].suba) = Entries(heap[x]) + 1
    /\ \A x, y \in InUse \ Internals : Depth(x) = Depth(y)

\* The list of leaves runs through the leaves in key order, which is what the
\* merges across leaves and the linear searches rely on.
LeafListInOrder == list = LeavesOf(heap, root)

-----------------------------------------------------------------------------
(***************************************************************************)
(* The contents of the tree between calls.                                 *)
(***************************************************************************)
\* Neither a free area nor a block in use reaches over a separator: whatever
\* is later freed next to a separator is merged on the right side of it.  The
\* merges across leaves find their common ancestor only because of this.
SeparatorsCutNothing ==
    AtRest =>
      \A x \in Internals : \A i \in 1 .. Entries(heap[x]) :
         LET sep == heap[x].slot[i]
         IN /\ \A va \in AreasUnder(heap[x].subl[i]) : va.end <= sep
            /\ \A va \in AreasUnder(heap[x].subl[i + 1]) : va.start >= sep
            /\ \A b \in blocks : b.end <= sep \/ b.start >= sep

\* SUB_AVAIL of every child is the largest free size under it: fix-ups that
\* stop early, or follow ppos of an older descent, would leave it wrong.
AvailExact ==
    AtRest =>
      \A x \in Internals : \A i \in DOMAIN heap[x].subl :
         heap[x].suba[i] = MaxAvail(heap[heap[x].subl[i]])

Span(va) == va.start .. va.end - 1

\* Between calls the free areas and the blocks in use tile the space: nothing
\* is lost, nothing is both free and in use, and the areas are in order, not
\* empty, and merged wherever two would touch.
Tiling ==
    AtRest =>
      LET f == FreeAreas
      IN /\ \A i \in DOMAIN f : f[i].start < f[i].end
         /\ \A i \in DOMAIN f \ {1} : f[i - 1].end < f[i].start
         /\ UNION {Span(va) : va \in Range(f) \union blocks} = VSTART .. VEND - 1
         /\ \A a, b \in Range(f) \union blocks :
               a # b => Span(a) \intersect Span(b) = {}

-----------------------------------------------------------------------------
(***************************************************************************)
(* What the lookups find.                                                  *)
(***************************************************************************)
\* lin_lookup_smallest_va(): positions in FreeAreas that satisfy request q.
LinFits(q) ==
    {i \in DOMAIN FreeAreas :
        /\ va_size(FreeAreas[i]) >= Length(q)
        /\ is_within_this_va(FreeAreas[i], q.size, q.align, q.vstart)}

\* The check of va_alloc() under DEBUG: for an alignment up to a page, the area
\* found by the tree is the one the linear search of the list finds.
SameAsLinear ==
    AtLeaf /\ Found /\ op.call = "alloc" /\ op.req.align <= PAGE_SIZE =>
        LinFits(op.req) # {} /\ Area = FreeAreas[Min(LinFits(op.req))]

\* lookup_smallest_va() repeats "only once": a call that gives up did so because
\* no area, between vstart and vend, has room for the request and its alignment.
GivesUpOnlyWhenFull ==
    op.pc = "done" /\ op.call = "alloc" /\ op.ret = op.req.vend =>
        \A va \in Range(FreeAreas) :
            Min({va.end, op.req.vend}) - Max({va.start, op.req.vstart})
               < op.req.size + (IF op.req.align > PAGE_SIZE
                                THEN op.req.align - 1 ELSE 0)

\* verify_meta_data(): a free area is found again by its start, both with its
\* own size and with size 1.
VerifyMetaData == op.pc = "done" /\ op.call = "verify" => op.ret = op.va.start

\* The comment above bpt_lookup_lowest_leaf(): the leaf returned "satisfies
\* va->va_start >= vstart" and "guarantees that there is a VA that is equal or
\* greater of given size", "otherwise the most right(last) leaf is returned".
\* Stated here weaker than that: an area that ends above vstart would do.
LowestLeafComment ==
    AtLeaf =>
      \/ \E i \in 1 .. Entries(heap[op.n]) :
            /\ heap[op.n].slot[i].end > op.from
            /\ va_size(heap[op.n].slot[i]) >= Length(op.req)
      \/ op.n = Last(list)

-----------------------------------------------------------------------------
\* The tree does for its callers what VmAlloc says.
Alloc == INSTANCE VmAlloc WITH
            req <- IF op.call = "alloc" THEN op.req ELSE NoRequest

Implements == Alloc!Spec

\* Every call comes to its end, whatever it finds.
CallsReturn == op.pc # "idle" ~> op.pc = "idle"
=============================================================================
