------------------------------- MODULE VmTree -------------------------------
(***************************************************************************)
(* The address-space allocator of vm/ (vm.c, vm_ops.c): an augmented       *)
(* B+tree of the free areas, and the calls alloc_vmap_area(),              *)
(* free_vmap_area() and, of the test, the lookups of verify_meta_data().   *)
(* Callers hold a lock, so one call runs at a time.  A call is run one     *)
(* loop iteration of the code per step: op holds its local variables, and  *)
(* op.pc names the loop, or the statement, it has reached.                 *)
(*                                                                         *)
(*   lookup     bpt_lookup_lowest_leaf: descent; at the leaf,              *)
(*              leaf_get_va_cond, then va_clip                             *)
(*   next       first_next_sub_avail: climbs                               *)
(*   po_insert  bpt_po_insert: splits a full root                          *)
(*   insert     bpt_insert_non_full: descent; at the leaf, try_merge_va    *)
(*   again      try_merge_va: second descent, after a delete               *)
(*   left_leaf, right_leaf   do_merge_va: climb to a common ancestor       *)
(*   delete     bpt_po_delete: descent; at the leaf, the removal           *)
(*   fixup      fixup_metadata: climbs                                     *)
(*   fixsub     fixup_subavail: climbs                                     *)
(*   done       about to return to the caller                              *)
(***************************************************************************)
EXTENDS VmNode

CONSTANTS VSTART, VEND,     \* the space managed, vm_init_free_space()
          Requests,         \* the requests callers make
          DEBUG             \* verify_meta_data() runs between calls

ASSUME SpaceAssumption == VSTART \in Addr /\ VEND \in Addr /\ VSTART < VEND
ASSUME RequestsAssumption ==
    /\ Requests \subseteq Request
    /\ \A q \in Requests : q.size > 0
ASSUME DebugAssumption == DEBUG \in BOOLEAN

VARIABLES heap,     \* the nodes
          root,     \* root->node
          list,     \* root->head: the leaves in list order
          op,       \* the call in progress
          blocks    \* areas the callers hold

vars == <<heap, root, list, op, blocks>>

NoVA == [start |-> 0, end |-> 0]

NoRequest == [size |-> 0, align |-> 1, vstart |-> 0, vend |-> 0]

\* Between two calls.
Idle == [pc   |-> "idle",
         call |-> "none",       \* alloc, free or verify
         req  |-> NoRequest,    \* arguments of the lookup
         from |-> 0,            \* vstart of lookup_smallest_va, which raises it
         pass |-> 0,            \* its loop counter i
         n    |-> NULL,         \* the current node
         p    |-> NULL,         \* the ancestor looked at
         va   |-> NoVA,         \* the area being inserted
         key  |-> 0,            \* the key to delete, or to fix up along
         then |-> "done",       \* where fixup continues
         ret  |-> 0]

\* The node malloc() hands out; Nodes bounds how many there can be.
FreeNodes(h) == {i \in Nodes : h[i].type = "free"}

Fresh(h) == CHOOSE i \in Nodes : h[i].type = "free"

\* The least position in a set of positions, none otherwise.
FirstOf(S, none) == IF S = {} THEN none ELSE Min(S)

-----------------------------------------------------------------------------
(* vm_init_free_space(): one leaf, the root, with one area.                *)
Init ==
    LET leaf == [bpn_calloc_init("exter") EXCEPT
                    !.slot = <<[start |-> VSTART, end |-> VEND]>>]
        first == Min(Nodes)
    IN /\ heap = [i \in Nodes |-> IF i = first THEN leaf ELSE FreeNode]
       /\ root = first
       /\ list = <<first>>
       /\ op = Idle
       /\ blocks = {}

-----------------------------------------------------------------------------
(***************************************************************************)
(* The calls.                                                              *)
(***************************************************************************)
\* The areas of the leaves, in list order.
FreeAreas == FlattenSeq([i \in DOMAIN list |-> heap[list[i]].slot])

\* alloc_vmap_area(), va_alloc(), lookup_smallest_va() up to the first descent.
\* What is returned when nothing is found is vend.
AllocCall(q) ==
    /\ op.pc = "idle"
    /\ op' = [Idle EXCEPT !.pc = "lookup", !.call = "alloc", !.req = q,
                          !.from = q.vstart, !.n = root, !.ret = q.vend]
    /\ UNCHANGED <<heap, root, list, blocks>>

\* free_vmap_area(): the area goes back to the allocator.
FreeCall(b) ==
    /\ op.pc = "idle"
    /\ op' = [Idle EXCEPT !.pc = "po_insert", !.call = "free", !.va = b]
    /\ blocks' = blocks \ {b}
    /\ UNCHANGED <<heap, root, list>>

\* One lookup of verify_meta_data(): of a free area, by its start and its size
\* or by its start and 1.  NULL is returned as -1.
VerifyCall(va, size) ==
    /\ DEBUG
    /\ op.pc = "idle"
    /\ op' = [Idle EXCEPT
                !.pc = "lookup", !.call = "verify", !.va = va, !.n = root,
                !.req = [size |-> size, align |-> 1, vstart |-> va.start,
                         vend |-> VEND],
                !.from = va.start, !.ret = -1]
    /\ UNCHANGED <<heap, root, list, blocks>>

\* alloc_vmap_area() hands out the area unless va_alloc() returned vend.
Return ==
    /\ op.pc = "done"
    /\ blocks' = IF op.call = "alloc" /\ op.ret # op.req.vend
                 THEN blocks \union {[start |-> op.ret,
                                      end |-> (op.ret + op.req.size) % ULONG]}
                 ELSE blocks
    /\ op' = Idle
    /\ UNCHANGED <<heap, root, list>>

-----------------------------------------------------------------------------
(***************************************************************************)
(* lookup_smallest_va().                                                   *)
(***************************************************************************)
\* Mutant of LookupDescend: an area of just the size asked for is passed by.
LookupDescendLarger ==
    LET n == heap[op.n]
        i == FirstOf({j \in 0 .. Entries(n) - 1 :
                        /\ op.from < n.slot[j + 1]
                        /\ n.suba[j + 1] > Length(op.req)}, Entries(n))
    IN /\ op.pc = "lookup"
       /\ IsInternal(n)
       /\ heap' = [heap EXCEPT ![op.n].ppos = i]
       /\ op' = [op EXCEPT !.n = n.subl[i + 1]]
       /\ UNCHANGED <<root, list, blocks>>

LookupDescend ==
    LET n == heap[op.n]
        i == FirstOf({j \in 0 .. Entries(n) - 1 :
                        /\ op.from < n.slot[j + 1]
                        /\ n.suba[j + 1] >= Length(op.req)}, Entries(n))
    IN /\ op.pc = "lookup"
       /\ IsInternal(n)
       /\ heap' = [heap EXCEPT ![op.n].ppos = i]
       /\ op' = [op EXCEPT !.n = n.subl[i + 1]]
       /\ UNCHANGED <<root, list, blocks>>

\* leaf_get_va_cond(): the positions in leaf n of areas the request fits in.
Fitting(n, q, from) ==
    {j \in 1 .. Entries(n) :
        is_within_this_va(n.slot[j], q.size, q.align, from)}

AtLeaf == op.pc = "lookup" /\ IsExternal(heap[op.n])

FoundAt == Min(Fitting(heap[op.n], op.req, op.from))
Found == Fitting(heap[op.n], op.req, op.from) # {}

LookupMiss ==
    /\ AtLeaf
    /\ ~Found
    /\ op' = [op EXCEPT !.pc = "next"]
    /\ UNCHANGED <<heap, root, list, blocks>>

\* Mutant of RoomyRight: the last child is not looked at.
RoomyRightButLast(p) ==
    {i \in p.ppos + 1 .. Entries(p) - 1 : p.suba[i + 1] >= Length(op.req)}

\* first_next_sub_avail(): the children of ancestor p, right of the one taken,
\* that have room.
RoomyRight(p) ==
    {i \in p.ppos + 1 .. Entries(p) : p.suba[i + 1] >= Length(op.req)}

NextFail ==
    /\ op.pc = "next"
    /\ heap[op.n].parent = NULL
    /\ op' = [op EXCEPT !.pc = "done"]
    /\ UNCHANGED <<heap, root, list, blocks>>

NextClimb ==
    LET p == heap[op.n].parent
    IN /\ op.pc = "next"
       /\ p # NULL
       /\ RoomyRight(heap[p]) = {}
       /\ op' = [op EXCEPT !.n = p]
       /\ UNCHANGED <<heap, root, list, blocks>>

\* Mutant of NextRepeat: the lookup starts again where it started before.
NextRepeatSame ==
    LET p == heap[op.n].parent
    IN /\ op.pc = "next"
       /\ p # NULL
       /\ RoomyRight(heap[p]) # {}
       /\ op' = [op EXCEPT !.pc = "lookup", !.n = root]
       /\ UNCHANGED <<heap, root, list, blocks>>

\* The lookup starts again from the key left of that child, but "only once".
NextRepeat ==
    LET p == heap[op.n].parent
        from == heap[p].slot[Min(RoomyRight(heap[p]))]
    IN /\ op.pc = "next"
       /\ p # NULL
       /\ RoomyRight(heap[p]) # {}
       /\ op' = IF op.pass = 0
                THEN [op EXCEPT !.pc = "lookup", !.pass = 1, !.n = root,
                                !.from = from]
                ELSE [op EXCEPT !.pc = "done"]
       /\ UNCHANGED <<heap, root, list, blocks>>

-----------------------------------------------------------------------------
(***************************************************************************)
(* va_alloc() once an area is found: the "vend" test and va_clip().        *)
(***************************************************************************)
Area == heap[op.n].slot[FoundAt]
NewStart == nva_start_addr(Area, op.req.align, op.req.vstart)
NewEnd == (NewStart + op.req.size) % ULONG

\* verify_meta_data() only compares the area found.
LookupVerify ==
    /\ AtLeaf /\ Found
    /\ op.call = "verify"
    /\ op' = [op EXCEPT !.pc = "done", !.ret = Area.start]
    /\ UNCHANGED <<heap, root, list, blocks>>

\* vend is returned, as ret already says.
LookupReject ==
    /\ AtLeaf /\ Found
    /\ op.call = "alloc"
    /\ \/ NewEnd > op.req.vend
       \/ FitType(Area, NewStart, op.req.size) = "NOTHING_FIT"
    /\ op' = [op EXCEPT !.pc = "done"]
    /\ UNCHANGED <<heap, root, list, blocks>>

\* Mutant of Clip: the request's end is not looked at.
ClipBeyond(type) ==
    /\ AtLeaf /\ Found
    /\ op.call = "alloc"
    /\ FitType(Area, NewStart, op.req.size) = type

Clip(type) ==
    /\ AtLeaf /\ Found
    /\ op.call = "alloc"
    /\ NewEnd <= op.req.vend
    /\ FitType(Area, NewStart, op.req.size) = type

ClipFull ==
    /\ Clip("FL_FIT")
    /\ op' = [op EXCEPT !.pc = "delete", !.key = Area.start, !.n = root,
                        !.ret = NewStart]
    /\ UNCHANGED <<heap, root, list, blocks>>

ClipLeft ==
    /\ Clip("LE_FIT")
    /\ heap' = [heap EXCEPT ![op.n].slot[FoundAt].start = @ + op.req.size]
    /\ op' = [op EXCEPT !.pc = "fixup", !.ret = NewStart]
    /\ UNCHANGED <<root, list, blocks>>

ClipRight ==
    /\ Clip("RE_FIT")
    /\ heap' = [heap EXCEPT ![op.n].slot[FoundAt].end = NewStart]
    /\ op' = [op EXCEPT !.pc = "fixup", !.ret = NewStart]
    /\ UNCHANGED <<root, list, blocks>>

\* The part to the left of the new block becomes an area of its own, inserted
\* after the fix-up.
ClipMiddle ==
    /\ Clip("NE_FIT")
    /\ heap' = [heap EXCEPT ![op.n].slot[FoundAt].start = NewEnd]
    /\ op' = [op EXCEPT !.pc = "fixup", !.ret = NewStart, !.then = "po_insert",
                        !.va = [start |-> Area.start, end |-> NewStart]]
    /\ UNCHANGED <<root, list, blocks>>

-----------------------------------------------------------------------------
(***************************************************************************)
(* fixup_metadata(): new sizes go up the path the last descent took.       *)
(* fixup_subavail(): the same, along the path to a key.  Both stop at the  *)
(* root or where nothing changes; the call then goes on at op.then.        *)
(***************************************************************************)
Continue(o) == [o EXCEPT !.pc = o.then, !.n = root, !.then = "done"]

FixChild(p) ==
    IF op.pc = "fixup" THEN p.ppos ELSE ChildIndex(p, op.key)

Stale ==
    LET n == heap[op.n]
        p == heap[n.parent]
    IN n.parent # NULL /\ p.suba[FixChild(p) + 1] # MaxAvail(n)

FixupClimb ==
    LET n == heap[op.n]
    IN /\ op.pc \in {"fixup", "fixsub"}
       /\ Stale
       /\ heap' = [heap EXCEPT
                     ![n.parent].suba[FixChild(heap[n.parent]) + 1] = MaxAvail(n)]
       /\ op' = [op EXCEPT !.n = n.parent]
       /\ UNCHANGED <<root, list, blocks>>

FixupEnd ==
    /\ op.pc \in {"fixup", "fixsub"}
    /\ ~Stale
    /\ op' = Continue(op)
    /\ UNCHANGED <<heap, root, list, blocks>>

-----------------------------------------------------------------------------
(***************************************************************************)
(* bpt_po_insert() and the descent of bpt_insert_non_full(), which splits  *)
(* every full node it meets before it enters it.                           *)
(***************************************************************************)
\* Mutant of Listed: the new leaf is listed before the old one.
ListedBefore(l, n, r) ==
    IF IsExternal(heap[n])
    THEN InsertAt(l, SelectInSeq(l, LAMBDA x : x = n), r)
    ELSE l

\* After a split, the new leaf is listed behind the old one.
Listed(l, n, r) ==
    IF IsExternal(heap[n])
    THEN InsertAt(l, SelectInSeq(l, LAMBDA x : x = n) + 1, r)
    ELSE l

InsertStart ==
    /\ op.pc = "po_insert"
    /\ ~IsFull(heap[root])
    /\ op' = [op EXCEPT !.pc = "insert", !.n = root]
    /\ UNCHANGED <<heap, root, list, blocks>>

\* bpn_split_root(): the old root is child 0 of a new one.
SplitRoot ==
    LET new == Fresh(heap)
        h == [heap EXCEPT ![new] = [bpn_calloc_init("inter") EXCEPT
                                      !.subl = <<root>>, !.suba = <<0>>]]
        right == Fresh(h)
    IN /\ op.pc = "po_insert"
       /\ IsFull(heap[root])
       /\ FreeNodes(heap) # {} /\ FreeNodes(h) # {}
       /\ heap' = Split(h, root, new, 0, right)
       /\ root' = new
       /\ list' = Listed(list, root, right)
       /\ op' = [op EXCEPT !.pc = "insert", !.n = new]
       /\ UNCHANGED blocks

\* Mutant of Descend: ppos is written after n has moved on.
DescendLate ==
    LET n == heap[op.n]
        i == ChildIndex(n, op.va.start)
        child == n.subl[i + 1]
    IN /\ op.pc \in {"insert", "again"}
       /\ IsInternal(n)
       /\ op.pc = "insert" => ~IsFull(heap[child])
       /\ heap' = [heap EXCEPT ![child].ppos = i]
       /\ op' = [op EXCEPT !.n = child]
       /\ UNCHANGED <<root, list, blocks>>

\* One level down; also the second descent of try_merge_va(), without splits.
Descend ==
    LET n == heap[op.n]
        i == ChildIndex(n, op.va.start)
        child == n.subl[i + 1]
    IN /\ op.pc \in {"insert", "again"}
       /\ IsInternal(n)
       /\ op.pc = "insert" => ~IsFull(heap[child])
       /\ heap' = [heap EXCEPT ![op.n].ppos = i]
       /\ op' = [op EXCEPT !.n = child]
       /\ UNCHANGED <<root, list, blocks>>

\* A full child is split, and the route adjusted to the half the key is in.
DescendSplit ==
    LET n == heap[op.n]
        pos == BinPos(n, op.va.start)
        i == ChildIndex(n, op.va.start)
        child == n.subl[i + 1]
        right == Fresh(heap)
        h == Split(heap, child, op.n, i, right)
        adjust == op.va.start >= h[op.n].slot[pos + 1]
    IN /\ op.pc = "insert"
       /\ IsInternal(n)
       /\ IsFull(heap[child])
       /\ FreeNodes(heap) # {}
       /\ heap' = [h EXCEPT ![op.n].ppos = IF adjust THEN pos + 1 ELSE i]
       /\ list' = Listed(list, child, right)
       /\ op' = [op EXCEPT !.n = IF adjust THEN h[op.n].subl[pos + 2] ELSE child]
       /\ UNCHANGED <<root, blocks>>

-----------------------------------------------------------------------------
(***************************************************************************)
(* try_merge_va() and do_merge_va() in the leaf n the area belongs to.     *)
(***************************************************************************)
MergePos(n) == BinPos(n, op.va.start)

ListPos(n) == SelectInSeq(list, LAMBDA x : x = n)
PrevLeaf(n) == list[ListPos(n) - 1]
NextLeaf(n) == list[ListPos(n) + 1]

\* get_va_merge_state().
MergeState ==
    LET n == heap[op.n]
        pos == MergePos(n)
        left == pos > 0 /\ n.slot[pos].end = op.va.start
        right == pos < Entries(n) /\ n.slot[pos + 1].start = op.va.end
        left_leaf == /\ pos = 0
                     /\ ListPos(op.n) > 1
                     /\ Last(heap[PrevLeaf(op.n)].slot).end = op.va.start
        right_leaf == /\ pos = Entries(n)
                      /\ ListPos(op.n) < Len(list)
                      /\ Head(heap[NextLeaf(op.n)].slot).start = op.va.end
    IN (IF left THEN {"LEFT"} ELSE {})
         \union (IF right THEN {"RIGHT"} ELSE {})
         \union (IF ~(left /\ right) /\ left_leaf THEN {"LEFT_LEAF"} ELSE {})
         \union (IF ~(left /\ right) /\ right_leaf THEN {"RIGHT_LEAF"} ELSE {})

\* validate_insert_req().
Duplicate == op.pc = "insert" /\ IsEQ(heap[op.n], op.va.start)

InLeaf == op.pc \in {"insert", "again"} /\ IsExternal(heap[op.n])

Merging(states) == InLeaf /\ ~Duplicate /\ MergeState = states

\* bpn_insert_to_leaf(): refused when it overlaps a neighbour in the leaf.
Overlaps ==
    LET n == heap[op.n]
        pos == MergePos(n)
    IN \/ pos < Entries(n) /\ op.va.end > n.slot[pos + 1].start
       \/ pos > 0 /\ op.va.start < n.slot[pos].end

\* No neighbour to merge with.  The second time round do_merge_va() would then
\* drop the area.
InsertArea ==
    /\ InLeaf
    /\ Duplicate \/ MergeState = {}
    /\ IF op.pc = "insert" /\ ~Overlaps
       THEN /\ heap' = [heap EXCEPT ![op.n].slot =
                           ArrInsert(@, MergePos(heap[op.n]), op.va)]
            /\ op' = [op EXCEPT !.pc = "fixup"]
       ELSE /\ op' = [op EXCEPT !.pc = "done",
                        !.ret = IF op.call = "free" /\ op.pc = "insert"
                                THEN -1 ELSE @]
            /\ UNCHANGED heap
    /\ UNCHANGED <<root, list, blocks>>

\* The area fills the gap between two others: the right one is deleted.
MergeBoth ==
    LET pos == MergePos(heap[op.n])
        right == heap[op.n].slot[pos + 1]
    IN /\ Merging({"LEFT", "RIGHT"})
       /\ heap' = [heap EXCEPT ![op.n].slot[pos].end = right.end]
       /\ op' = [op EXCEPT !.pc = "fixup", !.key = right.start, !.then = "delete"]
       /\ UNCHANGED <<root, list, blocks>>

MergeLeft ==
    /\ Merging({"LEFT"})
    /\ heap' = [heap EXCEPT ![op.n].slot[MergePos(heap[op.n])].end = op.va.end]
    /\ op' = [op EXCEPT !.pc = "fixup"]
    /\ UNCHANGED <<root, list, blocks>>

MergeRight ==
    /\ Merging({"RIGHT"})
    /\ heap' = [heap EXCEPT
                  ![op.n].slot[MergePos(heap[op.n]) + 1].start = op.va.start]
    /\ op' = [op EXCEPT !.pc = "fixup"]
    /\ UNCHANGED <<root, list, blocks>>

\* Neighbours on both sides, one in another leaf: the one in this leaf is taken
\* over by the area and deleted, and the area is inserted again.
MergeLeftOut ==
    LET left == heap[op.n].slot[MergePos(heap[op.n])]
    IN /\ Merging({"LEFT", "RIGHT_LEAF"})
       /\ op' = [op EXCEPT !.pc = "delete", !.n = root, !.key = left.start,
                           !.va.start = left.start, !.then = "again"]
       /\ UNCHANGED <<heap, root, list, blocks>>

MergeRightOut ==
    LET right == heap[op.n].slot[MergePos(heap[op.n]) + 1]
    IN /\ Merging({"RIGHT", "LEFT_LEAF"})
       /\ op' = [op EXCEPT !.pc = "delete", !.n = root, !.key = right.start,
                           !.va.end = right.end, !.then = "again"]
       /\ UNCHANGED <<heap, root, list, blocks>>

\* The only neighbour is the last area of the leaf before, or the first of the
\* leaf behind: the separator of the two leaves has to move too.
MergeLeafStart ==
    /\ \/ Merging({"LEFT_LEAF"}) /\ op' = [op EXCEPT !.pc = "left_leaf",
                                             !.p = heap[op.n].parent]
       \/ Merging({"RIGHT_LEAF"}) /\ op' = [op EXCEPT !.pc = "right_leaf",
                                              !.p = heap[op.n].parent]
    /\ UNCHANGED <<heap, root, list, blocks>>

\* The separator of ancestor p next to the path, on the side of the neighbour.
SidePos(p) ==
    IF op.pc = "left_leaf" THEN IF p.ppos > 0 THEN p.ppos - 1 ELSE p.ppos
                           ELSE IF p.ppos = Entries(p) THEN p.ppos - 1 ELSE p.ppos

RightEntry ==
    IF op.pc = "left_leaf" THEN Head(heap[op.n].slot)
                           ELSE Head(heap[NextLeaf(op.n)].slot)

\* Mutant of Common: a separator equal to the key is not taken for it.
CommonStrict(p) ==
    LET sep == p.slot[SidePos(p) + 1]
    IN IF op.pc = "left_leaf" THEN sep < RightEntry.start
                              ELSE sep > RightEntry.start

Common(p) ==
    LET sep == p.slot[SidePos(p) + 1]
    IN IF op.pc = "left_leaf" THEN sep <= RightEntry.start
                              ELSE sep >= RightEntry.start

\* Past the root the loop ends without a merge.
MergeLeafClimb ==
    LET p == heap[op.p]
    IN /\ op.pc \in {"left_leaf", "right_leaf"}
       /\ ~Common(p)
       /\ op' = [op EXCEPT !.p = p.parent,
                           !.pc = IF p.parent = NULL THEN "done" ELSE @]
       /\ UNCHANGED <<heap, root, list, blocks>>

MergeLeftLeaf ==
    LET ll == PrevLeaf(op.n)
        left == Last(heap[ll].slot)
    IN /\ op.pc = "left_leaf"
       /\ Common(heap[op.p])
       /\ heap' = [heap EXCEPT
                     ![ll].slot[Entries(heap[ll])].end = op.va.end,
                     ![op.p].slot[SidePos(heap[op.p]) + 1] = RightEntry.start]
       /\ op' = [op EXCEPT !.pc = "fixsub", !.n = ll, !.key = left.start]
       /\ UNCHANGED <<root, list, blocks>>

\* Mutant of MergeRightLeaf: the separator stays where it was.
MergeRightLeafSep ==
    LET rl == NextLeaf(op.n)
    IN /\ op.pc = "right_leaf"
       /\ Common(heap[op.p])
       /\ heap' = [heap EXCEPT ![rl].slot[1].start = op.va.start]
       /\ op' = [op EXCEPT !.pc = "fixsub", !.n = rl, !.key = op.va.start]
       /\ UNCHANGED <<root, list, blocks>>

MergeRightLeaf ==
    LET rl == NextLeaf(op.n)
    IN /\ op.pc = "right_leaf"
       /\ Common(heap[op.p])
       /\ heap' = [heap EXCEPT
                     ![rl].slot[1].start = op.va.start,
                     ![op.p].slot[SidePos(heap[op.p]) + 1] = op.va.start]
       /\ op' = [op EXCEPT !.pc = "fixsub", !.n = rl, !.key = op.va.start]
       /\ UNCHANGED <<root, list, blocks>>

-----------------------------------------------------------------------------
(***************************************************************************)
(* bpt_po_delete(): a child with the fewest entries allowed gets one from  *)
(* its sibling, or is merged with it, before the descent enters it.        *)
(***************************************************************************)
DelChild == heap[op.n].subl[ChildIndex(heap[op.n], op.key) + 1]
DelPos == BinPos(heap[op.n], op.key)

\* The sibling the child is balanced with.
DelSibling ==
    LET l == bpn_get_left(heap[op.n], DelPos)
        r == bpn_get_right(heap[op.n], DelPos)
    IN IF l = DelChild THEN r ELSE l

DelDescend ==
    /\ op.pc = "delete"
    /\ IsInternal(heap[op.n])
    /\ IsGtMin(heap[DelChild])
    /\ heap' = [heap EXCEPT ![op.n].ppos = ChildIndex(heap[op.n], op.key)]
    /\ op' = [op EXCEPT !.n = DelChild]
    /\ UNCHANGED <<root, list, blocks>>

\* Mutant of DelShift: the free sizes of the two siblings are not refreshed.
DelShiftStale ==
    LET n == heap[op.n]
        l == bpn_get_left(n, DelPos)
        h == IF l = DelChild THEN ShiftLeft(heap, op.n, DelPos)
                             ELSE ShiftRight(heap, op.n, DelPos)
    IN /\ op.pc = "delete"
       /\ IsInternal(n)
       /\ ~IsGtMin(heap[DelChild])
       /\ CanShift(n, DelPos, heap[DelChild], heap[DelSibling])
       /\ heap' = [h EXCEPT ![op.n].ppos = ChildIndex(n, op.key)]
       /\ op' = [op EXCEPT !.n = DelChild]
       /\ UNCHANGED <<root, list, blocks>>

DelShift ==
    LET n == heap[op.n]
        s == SepPos(n, DelPos)
        l == bpn_get_left(n, DelPos)
        r == bpn_get_right(n, DelPos)
        h == IF l = DelChild THEN ShiftLeft(heap, op.n, DelPos)
                             ELSE ShiftRight(heap, op.n, DelPos)
    IN /\ op.pc = "delete"
       /\ IsInternal(n)
       /\ ~IsGtMin(heap[DelChild])
       /\ CanShift(n, DelPos, heap[DelChild], heap[DelSibling])
       /\ heap' = [h EXCEPT ![op.n].ppos = ChildIndex(n, op.key),
                            ![op.n].suba = [@ EXCEPT ![s + 1] = MaxAvail(h[l]),
                                                     ![s + 2] = MaxAvail(h[r])]]
       /\ op' = [op EXCEPT !.n = DelChild]
       /\ UNCHANGED <<root, list, blocks>>

\* Mutant of DelMerge: ppos keeps the place the child had before the merge.
DelMergePpos ==
    LET n == heap[op.n]
        s == SepPos(n, DelPos)
        l == bpn_get_left(n, DelPos)
        r == bpn_get_right(n, DelPos)
        h == MergeSiblings(heap, op.n, DelPos)
        last == Entries(h[op.n]) = 0 /\ op.n = root
    IN /\ op.pc = "delete"
       /\ IsInternal(n)
       /\ ~IsGtMin(heap[DelChild])
       /\ ~CanShift(n, DelPos, heap[DelChild], heap[DelSibling])
       /\ heap' = IF last
                  THEN [h EXCEPT ![l].parent = NULL, ![op.n] = FreeNode]
                  ELSE [h EXCEPT ![op.n].suba[s + 1] = MaxAvail(h[l]),
                                 ![op.n].ppos = ChildIndex(n, op.key)]
       /\ root' = IF last THEN l ELSE root
       /\ list' = SelectSeq(list, LAMBDA x : x # r)
       /\ op' = [op EXCEPT !.n = l]
       /\ UNCHANGED blocks

\* The tree loses a level when the root has no separator left.
DelMerge ==
    LET n == heap[op.n]
        s == SepPos(n, DelPos)
        l == bpn_get_left(n, DelPos)
        r == bpn_get_right(n, DelPos)
        h == MergeSiblings(heap, op.n, DelPos)
        last == Entries(h[op.n]) = 0 /\ op.n = root
    IN /\ op.pc = "delete"
       /\ IsInternal(n)
       /\ ~IsGtMin(heap[DelChild])
       /\ ~CanShift(n, DelPos, heap[DelChild], heap[DelSibling])
       /\ heap' = IF last
                  THEN [h EXCEPT ![l].parent = NULL, ![op.n] = FreeNode]
                  ELSE [h EXCEPT ![op.n].suba[s + 1] = MaxAvail(h[l]),
                                 ![op.n].ppos = s]
       /\ root' = IF last THEN l ELSE root
       /\ list' = SelectSeq(list, LAMBDA x : x # r)
       /\ op' = [op EXCEPT !.n = l]
       /\ UNCHANGED blocks

\* bpn_remove_from_leaf(); a key that is not there is a BUG of both callers.
DelRemove ==
    LET n == heap[op.n]
    IN /\ op.pc = "delete"
       /\ IsExternal(n)
       /\ IsEQ(n, op.key)
       /\ heap' = [heap EXCEPT ![op.n].slot = ArrRemove(@, BinPos(n, op.key))]
       /\ op' = [op EXCEPT !.pc = "fixup"]
       /\ UNCHANGED <<root, list, blocks>>

-----------------------------------------------------------------------------
Lookup ==
    \/ LookupDescend \/ LookupMiss \/ NextFail \/ NextClimb \/ NextRepeat
    \/ LookupVerify \/ LookupReject
    \/ ClipFull \/ ClipLeft \/ ClipRight \/ ClipMiddle

Insert ==
    \/ InsertStart \/ SplitRoot \/ Descend \/ DescendSplit
    \/ InsertArea \/ MergeBoth \/ MergeLeft \/ MergeRight
    \/ MergeLeftOut \/ MergeRightOut
    \/ MergeLeafStart \/ MergeLeafClimb \/ MergeLeftLeaf \/ MergeRightLeaf

Delete == DelDescend \/ DelShift \/ DelMerge \/ DelRemove

\* A call that has started runs to its end.
Step == Lookup \/ Insert \/ Delete \/ FixupClimb \/ FixupEnd \/ Return

Call ==
    \/ \E q \in Requests : AllocCall(q)
    \/ \E b \in blocks : FreeCall(b)
    \/ \E va \in Range(FreeAreas) : \E size \in {va_size(va), 1} :
          VerifyCall(va, size)

Next == Call \/ Step

Spec == Init /\ [][Next]_vars /\ WF_vars(Step)
=============================================================================
